------------------------- MODULE AgentDraftsProofs --------------------------
(***************************************************************************)
(* Theorems about AgentDrafts, for any number of drafts, assets, proposals *)
(* and requests under way at once.                                         *)
(* They hold whatever overlaps.  The argument has six invariants: the      *)
(* types; TokenInv, one request per consumed token; TargetInv, what an     *)
(* update found missing is missing or was raced; AccountInv, which ties    *)
(* the stage of a submit to the status of its draft and the project it     *)
(* made; FillInv, what a task has read is what the row says; and WorkInv,  *)
(* what will end a status in flight.                                       *)
(***************************************************************************)
EXTENDS AgentDrafts, Integers, TLAPS

\* The columns and the fields, and what they hold.
Statuses == {"none", "extracting", "refining", "ready", "failed", "submitted", "completed",
             "deleted"}
DraftRows == [status : Statuses, update : BOOLEAN, split : BOOLEAN, assets : SUBSET Assets,
              field : Fields, edited : BOOLEAN, lost : BOOLEAN]

Kinds        == {"extract", "refine", "controlm"}
QueuedTasks  == [stage : {"queued"}, kind : Kinds, draft : Drafts]
WorkingTasks == [stage : {"working"}, kind : Kinds, draft : Drafts, assets : SUBSET Assets, field : Fields]

SubmitStages == {"read", "marked", "created", "compared", "fields", "written", "failing"}
Submits  == [op : {"submit"}, stage : SubmitStages, draft : Drafts, update : BOOLEAN,
             edited : BOOLEAN, assets : SUBSET Assets, field : Fields, new : SUBSET Assets,
             setField : BOOLEAN]
Confirms == [op : {"confirm"}, stage : {"taken", "claimed"}, token : Tokens]

ProjectRows == [begun : Int, whole : Int, orphaned : Int]
TargetRows  == [copies : [Assets -> Nat], field : Fields, setBy : {"nobody", "person", "document"}]
TokenRows   == [state : {"none", "pending", "expired", "consumed", "purged"}, value : Fields,
                writes : Nat]

TypeInv ==
  /\ drafts \in [Drafts -> DraftRows]
  /\ tasks \in [Workers -> {NoTask} \cup QueuedTasks \cup WorkingTasks]
  /\ requests \in [Requests -> {Idle} \cup Submits \cup Confirms]
  /\ own \in [Drafts -> ProjectRows]
  /\ target \in TargetRows
  /\ tokens \in [Tokens -> TokenRows]

-----------------------------------------------------------------------------
(***************************************************************************)
(* Requests under way                                                      *)
(***************************************************************************)

\* A request in a stage of a submit is a submit, and so on.
LEMMA Stages ==
  ASSUME TypeInv, NEW r \in Requests
  PROVE  /\ Work(r) /\ requests[r].op = "submit" => requests[r] \in Submits
         /\ Work(r) /\ requests[r].op = "confirm" => requests[r] \in Confirms
         /\ ~ Work(r) => requests[r] = Idle
         /\ Work(r) => requests[r] \in Submits \cup Confirms
BY DEF TypeInv, Work, Idle, Submits, Confirms, SubmitStages

\* p goes on to a stage of its submit: what it is about stays.
Onwards(q, p, stage) ==
  /\ q \in Submits /\ q.stage = stage
  /\ q.draft = p.draft /\ q.update = p.update /\ q.new = p.new

LEMMA GotoIs ==
  ASSUME TypeInv, NEW r \in Requests, requests[r] \in Submits, NEW stage \in SubmitStages,
         Goto(r, stage)
  PROVE  /\ Onwards(requests'[r], requests[r], stage)
         /\ requests' = [q \in Requests |-> IF q = r THEN requests'[r] ELSE requests[q]]
<1> DEFINE new == [requests[r] EXCEPT !.stage = stage]
<1>1. requests' = [requests EXCEPT ![r] = new]
  BY DEF Goto
<1>2. Onwards(new, requests[r], stage)
  BY DEF Onwards, Submits
<1> HIDE DEF new
<1> QED
  BY <1>1, <1>2 DEF TypeInv

\* An update that has been compared knows what is new.
LEMMA CompareIs ==
  ASSUME TypeInv, NEW r \in Requests, Compare(r)
  PROVE  /\ requests'[r] \in Submits /\ requests'[r].stage = "compared"
         /\ requests'[r].draft = requests[r].draft /\ requests'[r].update = requests[r].update
         /\ requests'[r].new = NewAssets(r)
         /\ requests' = [q \in Requests |-> IF q = r THEN requests'[r] ELSE requests[q]]
<1> DEFINE b == (requests[r].field # target.field)
           new == [requests[r] EXCEPT !.stage = "compared", !.new = NewAssets(r), !.setField = b]
<1>1. requests' = [requests EXCEPT ![r] = new]
  BY DEF Compare
<1>2. requests[r] \in Submits
  BY Stages DEF Compare, At
<1>3. NewAssets(r) \in SUBSET Assets /\ b \in BOOLEAN
  BY <1>2 DEF NewAssets, Submits
<1> HIDE DEF b
<1>4. /\ new \in Submits /\ new.stage = "compared" /\ new.new = NewAssets(r)
      /\ new.draft = requests[r].draft /\ new.update = requests[r].update
  BY <1>2, <1>3 DEF Submits, SubmitStages
<1> HIDE DEF new
<1> QED
  BY <1>1, <1>4 DEF TypeInv

\* A request ends.
LEMMA LeaveIs ==
  ASSUME TypeInv, NEW r \in Requests, Leave(r)
  PROVE  requests' = [q \in Requests |-> IF q = r THEN Idle ELSE requests[q]]
BY DEF TypeInv, Leave

BeginSubmitIs(r, d) ==
  /\ requests'[r] \in Submits /\ requests'[r].stage = "read" /\ requests'[r].draft = d
  /\ requests'[r].update = drafts[d].update
  /\ requests' = [q \in Requests |-> IF q = r THEN requests'[r] ELSE requests[q]]

\* A submit starts with what the row says.
LEMMA SubmitBegins ==
  ASSUME TypeInv, NEW r \in Requests, NEW d \in Drafts, BeginSubmit(r, d)
  PROVE  BeginSubmitIs(r, d)
<1> DEFINE new == [op |-> "submit", stage |-> "read", draft |-> d, update |-> drafts[d].update,
        edited |-> drafts[d].edited, assets |-> drafts[d].assets, field |-> drafts[d].field,
        new |-> {}, setField |-> FALSE]
<1>1. requests' = [requests EXCEPT ![r] = new]
  BY DEF BeginSubmit
<1>2. new \in Submits /\ new.stage = "read" /\ new.draft = d /\ new.update = drafts[d].update
  BY DEF TypeInv, DraftRows, Submits, SubmitStages
<1> HIDE DEF new
<1> QED
  BY <1>1, <1>2 DEF TypeInv, BeginSubmitIs

ConfirmIs(r, stage, t) ==
  /\ requests'[r] \in Confirms /\ requests'[r].stage = stage /\ requests'[r].token = t
  /\ requests' = [q \in Requests |-> IF q = r THEN requests'[r] ELSE requests[q]]

\* A confirmation starts by taking a token.
LEMMA ConfirmBegins ==
  ASSUME TypeInv, NEW r \in Requests, NEW t \in Tokens, BeginConfirm(r, t)
  PROVE  ConfirmIs(r, "taken", t)
BY DEF TypeInv, BeginConfirm, ConfirmIs, Confirms

\* A confirmation that consumed its token keeps it.
LEMMA ConfirmGoesOn ==
  ASSUME TypeInv, NEW r \in Requests, requests[r] \in Confirms, Goto(r, "claimed")
  PROVE  ConfirmIs(r, "claimed", requests[r].token)
<1> DEFINE new == [requests[r] EXCEPT !.stage = "claimed"]
<1>1. requests' = [requests EXCEPT ![r] = new]
  BY DEF Goto
<1>2. new \in Confirms /\ new.stage = "claimed" /\ new.token = requests[r].token
  BY DEF Confirms
<1> HIDE DEF new
<1> QED
  BY <1>1, <1>2 DEF TypeInv, ConfirmIs
-----------------------------------------------------------------------------
(***************************************************************************)
(* Types                                                                   *)
(***************************************************************************)

\* A task under way is about a draft.
LEMMA TaskIs ==
  ASSUME TypeInv, NEW k \in Workers, tasks[k].stage # "idle"
  PROVE  /\ tasks[k].draft \in Drafts /\ tasks[k].kind \in Kinds
         /\ tasks[k].stage \in {"queued", "working"}
BY DEF TypeInv, NoTask, QueuedTasks, WorkingTasks

\* What a model makes of a draft has the type of one.
LEMMA AnswerIs ==
  ASSUME TypeInv, NEW k \in Workers, tasks[k].stage = "working",
         NEW found \in SUBSET Assets, NEW offered \in Fields
  PROVE  Answer(k, found, offered).assets \in SUBSET Assets /\ Answer(k, found, offered).field \in Fields
<1>1. tasks[k].assets \in SUBSET Assets /\ tasks[k].field \in Fields
  BY DEF TypeInv, NoTask, QueuedTasks, WorkingTasks
<1>2. OnTarget \in SUBSET Assets /\ target.field \in Fields
  BY DEF OnTarget, TypeInv, TargetRows
<1> QED
  BY <1>1, <1>2 DEF Answer, MergedPreserving, MergedIntoTarget

\* Background tasks keep the types of drafts and tasks and touch nothing else.
LEMMA TaskTypes ==
  ASSUME TypeInv, Task
  PROVE  /\ drafts' \in [Drafts -> DraftRows]
         /\ tasks' \in [Workers -> {NoTask} \cup QueuedTasks \cup WorkingTasks]
         /\ UNCHANGED <<requests, own, target, tokens, rushed, raced>>
<1>1. ASSUME NEW k \in Workers, PickUp(k)
      PROVE  /\ tasks' \in [Workers -> {NoTask} \cup QueuedTasks \cup WorkingTasks]
             /\ UNCHANGED <<drafts, requests, own, target, tokens, rushed, raced>>
  <2>1. tasks[k].kind \in Kinds /\ tasks[k].draft \in Drafts
    BY <1>1, TaskIs DEF PickUp
  <2>2. drafts[tasks[k].draft].assets \in SUBSET Assets /\ drafts[tasks[k].draft].field \in Fields
    BY <2>1 DEF TypeInv, DraftRows
  <2> QED
    BY <1>1, <2>1, <2>2 DEF PickUp, TypeInv, WorkingTasks
<1>2. ASSUME NEW k \in Workers, NEW found \in SUBSET Assets, NEW offered \in Fields,
             Finish(k, found, offered)
      PROVE  /\ drafts' \in [Drafts -> DraftRows]
             /\ tasks' \in [Workers -> {NoTask} \cup QueuedTasks \cup WorkingTasks]
             /\ UNCHANGED <<requests, own, target, tokens, rushed, raced>>
  <2>0. PICK d \in Drafts : d = tasks[k].draft
    BY <1>2, TaskIs DEF Finish
  <2> DEFINE x == Answer(k, found, offered).assets
             y == Answer(k, found, offered).field
             row == [drafts[d] EXCEPT !.status = "ready", !.assets = x, !.field = y]
  <2>1. x \in SUBSET Assets /\ y \in Fields
    BY <1>2, AnswerIs DEF Finish
  <2>2. drafts' = drafts \/ drafts' = [drafts EXCEPT ![d] = row]
    BY <1>2, <2>0 DEF Finish, TypeInv
  <2> HIDE DEF x, y
  <2>3. row \in DraftRows
    BY <2>1 DEF TypeInv, DraftRows, Statuses
  <2> HIDE DEF row
  <2> QED
    BY <1>2, <2>2, <2>3 DEF Finish, TypeInv
<1>3. ASSUME NEW k \in Workers, FailTask(k)
      PROVE  /\ drafts' \in [Drafts -> DraftRows]
             /\ tasks' \in [Workers -> {NoTask} \cup QueuedTasks \cup WorkingTasks]
             /\ UNCHANGED <<requests, own, target, tokens, rushed, raced>>
  <2>0. PICK d \in Drafts : d = tasks[k].draft
    BY <1>3, TaskIs DEF FailTask
  <2> DEFINE row == [drafts[d] EXCEPT !.status = "failed"]
  <2>1. row \in DraftRows
    BY DEF TypeInv, DraftRows, Statuses
  <2>2. drafts' = drafts \/ drafts' = [drafts EXCEPT ![d] = row]
    BY <1>3, <2>0 DEF FailTask, StatusOnFailure
  <2> HIDE DEF row
  <2> QED
    BY <1>3, <2>1, <2>2 DEF FailTask, TypeInv
<1> QED
  BY <1>1, <1>2, <1>3 DEF Task, TypeInv

\* So do the reviewers of drafts, who also start submits.
LEMMA ReviewTypes ==
  ASSUME TypeInv, Review
  PROVE  /\ drafts' \in [Drafts -> DraftRows]
         /\ tasks' \in [Workers -> {NoTask} \cup QueuedTasks \cup WorkingTasks]
         /\ requests' \in [Requests -> {Idle} \cup Submits \cup Confirms]
         /\ UNCHANGED <<own, target, tokens, rushed, raced>>
<1>1. ASSUME NEW d \in Drafts, NEW k \in Workers, NEW update \in BOOLEAN, CreateDraft(d, k, update)
      PROVE  /\ drafts' \in [Drafts -> DraftRows]
             /\ tasks' \in [Workers -> {NoTask} \cup QueuedTasks \cup WorkingTasks]
             /\ UNCHANGED <<requests, own, target, tokens, rushed, raced>>
  <2> DEFINE row == [drafts[d] EXCEPT !.status = "extracting", !.update = update]
  <2>1. row \in DraftRows
    BY DEF TypeInv, DraftRows, Statuses
  <2>2. drafts' = [drafts EXCEPT ![d] = row]
    BY <1>1 DEF CreateDraft, TypeInv
  <2> HIDE DEF row
  <2> QED
    BY <1>1, <2>1, <2>2 DEF CreateDraft, TypeInv, QueuedTasks, Kinds, history
<1>2. ASSUME NEW d \in Drafts, NEW k \in Workers, NEW kind \in Kinds, NEW assets \in SUBSET Assets,
             NEW field \in Fields, StartTask(d, k, kind, assets, field)
      PROVE  /\ drafts' \in [Drafts -> DraftRows]
             /\ tasks' \in [Workers -> {NoTask} \cup QueuedTasks \cup WorkingTasks]
             /\ UNCHANGED <<requests, own, target, tokens, rushed, raced>>
  <2> DEFINE edit == [drafts[d] EXCEPT !.status = "refining", !.assets = assets, !.field = field,
                                       !.edited = TRUE]
             row == IF kind = "refine" THEN edit ELSE [drafts[d] EXCEPT !.status = "refining"]
  <2>1. edit \in DraftRows /\ [drafts[d] EXCEPT !.status = "refining"] \in DraftRows
    BY DEF TypeInv, DraftRows, Statuses
  <2>2. drafts' = [drafts EXCEPT ![d] = row]
    BY <1>2 DEF StartTask
  <2>3. row \in DraftRows
    BY <2>1
  <2> HIDE DEF row
  <2> QED
    BY <1>2, <2>2, <2>3 DEF StartTask, TypeInv, QueuedTasks
<1>3. ASSUME NEW d \in Drafts, NEW assets \in SUBSET Assets, NEW field \in Fields,
             Save(d, assets, field)
      PROVE  drafts' \in [Drafts -> DraftRows] /\ UNCHANGED <<tasks, requests, own, target, tokens, rushed, raced>>
  <2> DEFINE row == [drafts[d] EXCEPT !.status = "ready", !.assets = assets, !.field = field,
                                      !.edited = TRUE]
  <2>1. row \in DraftRows
    BY DEF TypeInv, DraftRows, Statuses
  <2>2. drafts' = [drafts EXCEPT ![d] = row]
    BY <1>3 DEF Save
  <2> HIDE DEF row
  <2> QED
    BY <1>3, <2>1, <2>2 DEF Save, TypeInv
<1>4. ASSUME NEW d \in Drafts, NEW e \in Drafts, NEW kept \in SUBSET Assets, Split(d, e, kept)
      PROVE  drafts' \in [Drafts -> DraftRows] /\ UNCHANGED <<tasks, requests, own, target, tokens, rushed, raced>>
  <2> DEFINE part == [drafts[d] EXCEPT !.status = "ready", !.split = TRUE, !.assets = kept]
             rest == [drafts[d] EXCEPT !.status = "ready", !.split = TRUE, !.lost = FALSE,
                                       !.assets = drafts[d].assets \ kept]
  <2>1. part \in DraftRows /\ rest \in DraftRows
    BY DEF TypeInv, DraftRows, Statuses
  <2>2. drafts' = [drafts EXCEPT ![d] = part, ![e] = rest]
    BY <1>4 DEF Split
  <2> HIDE DEF part, rest
  <2> QED
    BY <1>4, <2>1, <2>2 DEF Split, TypeInv
<1>5. ASSUME NEW d \in Drafts, Delete(d)
      PROVE  drafts' \in [Drafts -> DraftRows] /\ UNCHANGED <<tasks, requests, own, target, tokens, rushed, raced>>
  BY <1>5 DEF Delete, history, TypeInv, DraftRows, Statuses
<1>6. ASSUME NEW d \in Drafts, NEW r \in Requests, BeginSubmit(r, d)
      PROVE  /\ requests' \in [Requests -> {Idle} \cup Submits \cup Confirms]
             /\ UNCHANGED <<drafts, tasks, own, target, tokens, rushed, raced>>
  BY <1>6, SubmitBegins DEF BeginSubmitIs, BeginSubmit, history, TypeInv
<1>7. {} \in SUBSET Assets /\ Blank \in Fields /\ "refine" \in Kinds /\ "controlm" \in Kinds
  BY DEF Fields, Kinds
<1> QED
  BY <1>1, <1>2, <1>3, <1>4, <1>5, <1>6, <1>7 DEF Review, TypeInv

\* A submit in one of its stages.
LEMMA AtSubmit ==
  ASSUME TypeInv, NEW r \in Requests, NEW stage, At(r, "submit", stage)
  PROVE  requests[r] \in Submits /\ requests[r].stage = stage /\ requests[r].draft \in Drafts
BY Stages DEF At, Submits

\* A failed submit counts its project no more.
LEMMA CompensatedIs ==
  ASSUME NEW p \in ProjectRows, NEW deleted \in BOOLEAN
  PROVE  /\ Compensated(p, deleted) \in ProjectRows
         /\ Compensated(p, deleted).begun = p.begun - 1 /\ Compensated(p, deleted).whole = p.whole
<1> DEFINE left == IF deleted THEN p.orphaned ELSE p.orphaned + 1
<1>1. left \in Int /\ p.begun - 1 \in Int
  BY DEF ProjectRows
<1>2. Compensated(p, deleted) = [p EXCEPT !.begun = p.begun - 1, !.orphaned = left]
  BY DEF Compensated, ProjectRows
<1> HIDE DEF left
<1> QED
  BY <1>1, <1>2 DEF ProjectRows

\* Submits keep the types of all they write.
LEMMA SubmitTypes ==
  ASSUME TypeInv, Submit
  PROVE  /\ drafts' \in [Drafts -> DraftRows]
         /\ requests' \in [Requests -> {Idle} \cup Submits \cup Confirms]
         /\ own' \in [Drafts -> ProjectRows]
         /\ target' \in TargetRows
         /\ UNCHANGED <<tasks, tokens, overtaken>>
<1> DEFINE ReqType == requests' \in [Requests -> {Idle} \cup Submits \cup Confirms]
<1>1. ASSUME NEW r \in Requests, requests[r] \in Submits, NEW stage \in SubmitStages, Goto(r, stage)
      PROVE  ReqType
  BY <1>1, GotoIs DEF Onwards, TypeInv
<1>2. ASSUME NEW r \in Requests, Leave(r) PROVE ReqType
  BY <1>2, LeaveIs DEF TypeInv
<1> HIDE DEF ReqType
<1>3. ASSUME NEW r \in Requests, Mark(r)
      PROVE  ReqType /\ drafts' \in [Drafts -> DraftRows] /\ UNCHANGED <<tasks, own, target, tokens, overtaken>>
  <2>1. requests[r] \in Submits /\ requests[r].draft \in Drafts
    BY <1>3, AtSubmit DEF Mark
  <2>2. ReqType
    BY <1>1, <1>2, <1>3, <2>1 DEF Mark, SubmitStages
  <2> DEFINE row == [drafts[requests[r].draft] EXCEPT !.status = "submitted"]
  <2>3. row \in DraftRows
    BY <2>1 DEF TypeInv, DraftRows, Statuses
  <2>4. drafts' = drafts \/ drafts' = [drafts EXCEPT ![requests[r].draft] = row]
    BY <1>3 DEF Mark
  <2> HIDE DEF row
  <2>5. drafts' \in [Drafts -> DraftRows]
    BY <2>3, <2>4 DEF TypeInv
  <2> QED
    BY <1>3, <2>2, <2>5 DEF Mark
<1>5. ASSUME NEW r \in Requests, CreateProject(r)
      PROVE  ReqType /\ own' \in [Drafts -> ProjectRows] /\ UNCHANGED <<drafts, tasks, target, tokens, overtaken>>
  <2>1. requests[r] \in Submits /\ requests[r].draft \in Drafts
    BY <1>5, AtSubmit DEF CreateProject
  <2>2. ReqType
    BY <1>1, <1>5, <2>1 DEF CreateProject, history, SubmitStages
  <2> QED
    BY <1>5, <2>1, <2>2 DEF CreateProject, history, TypeInv, ProjectRows
<1>6. ASSUME NEW r \in Requests, Populate(r)
      PROVE  ReqType /\ own' \in [Drafts -> ProjectRows] /\ UNCHANGED <<drafts, tasks, target, tokens, overtaken>>
  <2>1. requests[r] \in Submits /\ requests[r].draft \in Drafts
    BY <1>6, AtSubmit DEF Populate
  <2>2. ReqType
    BY <1>1, <1>6, <2>1 DEF Populate, history, SubmitStages
  <2> QED
    BY <1>6, <2>1, <2>2 DEF Populate, history, TypeInv, ProjectRows
<1>7. ASSUME NEW r \in Requests, NEW deleted \in BOOLEAN, FailPopulate(r, deleted)
      PROVE  ReqType /\ own' \in [Drafts -> ProjectRows] /\ UNCHANGED <<drafts, tasks, target, tokens, overtaken>>
  <2>1. requests[r] \in Submits /\ requests[r].draft \in Drafts
    BY <1>7, AtSubmit DEF FailPopulate
  <2>2. ReqType
    BY <1>1, <1>7, <2>1 DEF FailPopulate, history, SubmitStages
  <2> DEFINE row == Compensated(own[requests[r].draft], deleted)
  <2>3. row \in ProjectRows
    BY <2>1, CompensatedIs DEF TypeInv
  <2>4. own' = [own EXCEPT ![requests[r].draft] = row]
    BY <1>7, <2>1 DEF FailPopulate, history, TypeInv
  <2> HIDE DEF row
  <2> QED
    BY <1>7, <2>2, <2>3, <2>4 DEF FailPopulate, history, TypeInv
<1>8. ASSUME NEW r \in Requests, Compare(r)
      PROVE  ReqType /\ UNCHANGED <<drafts, tasks, own, target, tokens, overtaken>>
  BY <1>8, CompareIs DEF ReqType, Compare, history, TypeInv
<1>9. ASSUME NEW r \in Requests, ApplyAssets(r)
      PROVE  ReqType /\ target' \in TargetRows /\ UNCHANGED <<drafts, tasks, own, tokens, overtaken>>
  <2>1. requests[r] \in Submits
    BY <1>9, AtSubmit DEF ApplyAssets
  <2>2. ReqType
    BY <1>1, <1>9, <2>1 DEF ApplyAssets, SubmitStages
  <2> QED
    BY <1>9, <2>2 DEF ApplyAssets, TypeInv, TargetRows
<1>10. ASSUME NEW r \in Requests, ApplyFields(r)
       PROVE  ReqType /\ target' \in TargetRows /\ UNCHANGED <<drafts, tasks, own, tokens, overtaken>>
  <2>1. requests[r] \in Submits /\ requests[r].field \in Fields
    BY <1>10, AtSubmit DEF ApplyFields, history, Submits
  <2>2. ReqType
    BY <1>1, <1>10, <2>1 DEF ApplyFields, history, SubmitStages
  <2> QED
    BY <1>10, <2>1, <2>2 DEF ApplyFields, history, TypeInv, TargetRows
<1>11. ASSUME NEW r \in Requests, FailSubmit(r)
       PROVE  ReqType /\ UNCHANGED <<drafts, tasks, own, target, tokens, overtaken>>
  <2>1. requests[r] \in Submits
    BY <1>11, AtSubmit DEF FailSubmit
  <2> QED
    BY <1>1, <1>11, <2>1 DEF FailSubmit, history, SubmitStages
<1>12. ASSUME NEW r \in Requests, Settle(r)
       PROVE  ReqType /\ drafts' \in [Drafts -> DraftRows] /\ UNCHANGED <<tasks, own, target, tokens, overtaken>>
  <2>1. requests[r] \in Submits /\ requests[r].draft \in Drafts
    BY <1>12, AtSubmit DEF Settle
  <2>2. ReqType
    BY <1>2, <1>12 DEF Settle
  <2> QED
    BY <1>12, <2>1, <2>2 DEF Settle, history, TypeInv, DraftRows, Statuses
<1> QED
  BY <1>3, <1>5, <1>6, <1>7, <1>8, <1>9, <1>10, <1>11, <1>12 DEF Submit, TypeInv, ReqType

\* So do confirmations and the people on the target project.
LEMMA TokenTypes ==
  ASSUME TypeInv, Confirm \/ People
  PROVE  /\ requests' \in [Requests -> {Idle} \cup Submits \cup Confirms]
         /\ target' \in TargetRows
         /\ tokens' \in [Tokens -> TokenRows]
         /\ UNCHANGED <<drafts, tasks, own, rushed, overtaken>>
<1> DEFINE ReqType == requests' \in [Requests -> {Idle} \cup Submits \cup Confirms]
<1>1. ASSUME NEW r \in Requests, NEW op, NEW stage, At(r, op, stage), op = "confirm"
      PROVE  requests[r] \in Confirms /\ requests[r].token \in Tokens
  BY <1>1, Stages DEF At, Confirms
<1>2. ASSUME NEW r \in Requests, Leave(r) PROVE ReqType
  BY <1>2, LeaveIs DEF TypeInv
<1>3. ASSUME NEW r \in Requests, Consume(r)
      PROVE  ReqType /\ tokens' \in [Tokens -> TokenRows] /\ UNCHANGED <<drafts, tasks, own, target, rushed, overtaken>>
  <2>1. requests[r] \in Confirms /\ requests[r].token \in Tokens
    BY <1>1, <1>3 DEF Consume, history
  <2>2. CASE Claimable(requests[r].token)
    <3>1. ConfirmIs(r, "claimed", requests[r].token)
      BY <1>3, <2>1, <2>2, ConfirmGoesOn DEF Consume, history
    <3> QED
      BY <1>3, <2>1, <2>2, <3>1 DEF Consume, history, ConfirmIs, TypeInv, TokenRows
  <2>3. CASE ~ Claimable(requests[r].token)
    BY <1>2, <1>3, <2>3 DEF Consume, history, TypeInv
  <2> QED
    BY <2>2, <2>3
<1> HIDE DEF ReqType
<1>4. ASSUME NEW value \in Fields, SetField(value) PROVE target' \in TargetRows
  <2>1. (IF value = Blank THEN "nobody" ELSE "person") \in {"nobody", "person", "document"}
    OBVIOUS
  <2> QED
    BY <1>4, <2>1 DEF SetField, TypeInv, TargetRows
<1>5. ASSUME NEW r \in Requests, Write(r)
      PROVE  /\ ReqType /\ tokens' \in [Tokens -> TokenRows] /\ target' \in TargetRows
             /\ UNCHANGED <<drafts, tasks, own, rushed, overtaken>>
  <2>1. requests[r].token \in Tokens
    BY <1>1, <1>5 DEF Write, history
  <2>2. tokens[requests[r].token].value \in Fields /\ tokens[requests[r].token].writes \in Nat
    BY <2>1 DEF TypeInv, TokenRows
  <2>3. tokens' \in [Tokens -> TokenRows]
    BY <1>5, <2>1, <2>2 DEF Write, history, TypeInv, TokenRows
  <2> QED
    BY <1>2, <1>4, <1>5, <2>2, <2>3 DEF Write, history
<1>6. ASSUME NEW r \in Requests, Refuse(r)
      PROVE  ReqType /\ UNCHANGED <<drafts, tasks, own, target, tokens, rushed, overtaken>>
  BY <1>2, <1>6 DEF Refuse, history
<1>7. ASSUME NEW value \in Fields, EditField(value)
      PROVE  target' \in TargetRows /\ UNCHANGED <<drafts, tasks, requests, own, tokens, rushed, overtaken>>
  BY <1>4, <1>7 DEF EditField, history
<1>8. ASSUME NEW a \in Assets, AddAsset(a)
      PROVE  target' \in TargetRows /\ UNCHANGED <<drafts, tasks, requests, own, tokens, rushed, overtaken>>
  BY <1>8 DEF AddAsset, TypeInv, TargetRows
<1>9. ASSUME NEW t \in Tokens, NEW value \in Values, Propose(t, value)
      PROVE  tokens' \in [Tokens -> TokenRows] /\ UNCHANGED <<drafts, tasks, requests, own, target, rushed, overtaken>>
  <2> DEFINE row == [tokens[t] EXCEPT !.state = "pending", !.value = value]
  <2>1. row \in TokenRows
    BY DEF TypeInv, TokenRows, Fields
  <2>2. tokens' = [tokens EXCEPT ![t] = row]
    BY <1>9 DEF Propose, history, TypeInv
  <2> HIDE DEF row
  <2> QED
    BY <1>9, <2>1, <2>2 DEF Propose, history, TypeInv
<1>10. ASSUME NEW t \in Tokens, NEW r \in Requests, BeginConfirm(r, t)
       PROVE  ReqType /\ UNCHANGED <<drafts, tasks, own, target, tokens, rushed, overtaken>>
  BY <1>10, ConfirmBegins DEF ConfirmIs, BeginConfirm, history, TypeInv, ReqType
<1>11. ASSUME NEW t \in Tokens, Expire(t)
       PROVE  tokens' \in [Tokens -> TokenRows] /\ UNCHANGED <<drafts, tasks, requests, own, target, rushed, overtaken>>
  BY <1>11 DEF Expire, history, TypeInv, TokenRows
<1>12. CASE Purge
  <2>1. ASSUME NEW t \in Tokens PROVE tokens'[t] \in TokenRows
    <3>1. tokens[t] \in TokenRows
      BY DEF TypeInv
    <3>2. [tokens[t] EXCEPT !.state = "purged"] \in TokenRows
      BY <3>1 DEF TokenRows
    <3> QED
      BY <1>12, <3>1, <3>2 DEF Purge, history
  <2>2. tokens' \in [Tokens -> TokenRows]
    BY <1>12, <2>1 DEF Purge, history
  <2> QED
    BY <1>12, <2>2 DEF Purge, history, TypeInv
<1>13. UNCHANGED requests => ReqType
  BY DEF TypeInv, ReqType
<1> QED
  BY <1>3, <1>5, <1>6, <1>7, <1>8, <1>9, <1>10, <1>11, <1>12, <1>13
  DEF Confirm, People, TypeInv, ReqType

\* What draft d says, and whether its reviewer saved it, stays.
SameContent(d) == /\ drafts'[d].assets = drafts[d].assets /\ drafts'[d].field = drafts[d].field
                  /\ drafts'[d].edited = drafts[d].edited

\* A restart stops what is under way and leaves every status as it is.
LEMMA RestartTypes ==
  ASSUME TypeInv, Restart
  PROVE  /\ drafts' \in [Drafts -> DraftRows] /\ tasks' = [k \in Workers |-> NoTask]
         /\ requests' = [r \in Requests |-> Idle]
         /\ \A d \in Drafts : /\ drafts'[d].status = drafts[d].status /\ SameContent(d)
                              /\ drafts'[d].lost = (drafts[d].lost \/ TaskOf(d) # {} \/ SubmitOf(d))
         /\ UNCHANGED <<own, target, tokens, rushed, raced>>
<1>1. ASSUME NEW row \in DraftRows, NEW b \in BOOLEAN
      PROVE  /\ [row EXCEPT !.lost = b] \in DraftRows
             /\ [row EXCEPT !.lost = b].status = row.status
             /\ [row EXCEPT !.lost = b].assets = row.assets
             /\ [row EXCEPT !.lost = b].field = row.field
             /\ [row EXCEPT !.lost = b].edited = row.edited
             /\ [row EXCEPT !.lost = b].lost = b
  BY DEF DraftRows
<1> DEFINE b(d) == (drafts[d].lost \/ TaskOf(d) # {} \/ SubmitOf(d))
<1>2. drafts' = [d \in Drafts |-> [drafts[d] EXCEPT !.lost = b(d)]]
  BY DEF Restart
<1>3. \A d \in Drafts : drafts[d] \in DraftRows /\ b(d) \in BOOLEAN
  BY DEF TypeInv, DraftRows
<1> HIDE DEF b
<1>4. \A d \in Drafts : drafts'[d] \in DraftRows /\ drafts'[d].status = drafts[d].status
                        /\ SameContent(d) /\ drafts'[d].lost = b(d)
  BY <1>1, <1>2, <1>3 DEF SameContent
<1>5. drafts' \in [Drafts -> DraftRows]
  BY <1>2, <1>4
<1> QED
  BY <1>4, <1>5 DEF Restart, b

\* Every step keeps the types.
LEMMA StepTypes == TypeInv /\ [Next]_vars => TypeInv'
BY TaskTypes, ReviewTypes, SubmitTypes, TokenTypes, RestartTypes DEF Next, TypeInv, vars

\* The types hold at first.
LEMMA InitTypes == Init => TypeInv
BY DEF Init, TypeInv, NoDraft, NoTask, Idle, DraftRows, Statuses, Fields, ProjectRows, TargetRows,
       TokenRows

\* Whatever happens, rows, tasks and requests have the shape the code gives them:
\* each stage of a submit or a confirmation carries what it is about.
THEOREM TypesKept == Spec => []TypeInv
<1>1. TypeInv /\ [Next]_vars => TypeInv'
  BY StepTypes
<1> QED
  BY <1>1, InitTypes, PTL DEF Spec

-----------------------------------------------------------------------------
(***************************************************************************)
(* Proposals are written once                                              *)
(***************************************************************************)

\* r has consumed a token and is about to write its proposal.
Claims(r) == requests[r] \in Confirms /\ requests[r].stage = "claimed"

\* A token is written by the one request that consumed it, if at all.
TokenInv ==
  /\ \A t \in Tokens : tokens[t].writes <= 1
  /\ \A t \in Tokens : tokens[t].state \in {"none", "pending", "expired"} => tokens[t].writes = 0
  /\ \A r \in Requests : Claims(r) => /\ tokens[requests[r].token].state \in {"consumed", "purged"}
                                      /\ tokens[requests[r].token].writes = 0
  /\ \A q, r \in Requests : Claims(q) /\ Claims(r) /\ requests[q].token = requests[r].token => q = r

\* One request of the submit r moves, to another of its stages or to its end.
MovesOn(r) ==
  /\ requests[r] \in Submits
  /\ requests' = [q \in Requests |-> IF q = r THEN requests'[r] ELSE requests[q]]
  /\ \/ requests'[r] = Idle
     \/ /\ requests'[r] \in Submits
        /\ requests'[r].draft = requests[r].draft /\ requests'[r].update = requests[r].update

\* Every step of a submit is one of these.
LEMMA SubmitMoves ==
  ASSUME TypeInv, Submit
  PROVE  \E r \in Requests : MovesOn(r)
<1>1. ASSUME NEW r \in Requests, requests[r] \in Submits, NEW stage \in SubmitStages, Goto(r, stage)
      PROVE  MovesOn(r)
  BY <1>1, GotoIs DEF Onwards, MovesOn
<1>2. ASSUME NEW r \in Requests, requests[r] \in Submits, Leave(r)
      PROVE  MovesOn(r)
  <2>1. requests'[r] = Idle
    BY <1>2, LeaveIs
  <2> QED
    BY <1>2, <2>1, LeaveIs DEF MovesOn
<1>3. ASSUME NEW r \in Requests, Mark(r) PROVE MovesOn(r)
  BY <1>1, <1>2, <1>3, AtSubmit DEF Mark, SubmitStages
<1>4. ASSUME NEW r \in Requests, CreateProject(r) PROVE MovesOn(r)
  BY <1>1, <1>4, AtSubmit DEF CreateProject, SubmitStages
<1>5. ASSUME NEW r \in Requests, Populate(r) PROVE MovesOn(r)
  BY <1>1, <1>5, AtSubmit DEF Populate, SubmitStages
<1>6. ASSUME NEW r \in Requests, NEW deleted \in BOOLEAN, FailPopulate(r, deleted) PROVE MovesOn(r)
  BY <1>1, <1>6, AtSubmit DEF FailPopulate, SubmitStages
<1>7. ASSUME NEW r \in Requests, Compare(r) PROVE MovesOn(r)
  BY <1>7, CompareIs, AtSubmit DEF Compare, MovesOn
<1>8. ASSUME NEW r \in Requests, ApplyAssets(r) PROVE MovesOn(r)
  BY <1>1, <1>8, AtSubmit DEF ApplyAssets, SubmitStages
<1>9. ASSUME NEW r \in Requests, ApplyFields(r) PROVE MovesOn(r)
  BY <1>1, <1>9, AtSubmit DEF ApplyFields, SubmitStages
<1>10. ASSUME NEW r \in Requests, FailSubmit(r) PROVE MovesOn(r)
  BY <1>1, <1>10, AtSubmit DEF FailSubmit, SubmitStages
<1>11. ASSUME NEW r \in Requests, Settle(r) PROVE MovesOn(r)
  BY <1>2, <1>11, AtSubmit DEF Settle
<1> QED
  BY <1>3, <1>4, <1>5, <1>6, <1>7, <1>8, <1>9, <1>10, <1>11 DEF Submit

\* Submits do not touch what the confirmations hold.
LEMMA ClaimsStay ==
  ASSUME TypeInv, TokenInv, UNCHANGED tokens,
         \A r \in Requests : Claims(r)' => Claims(r) /\ requests'[r] = requests[r]
  PROVE  TokenInv'
BY DEF TokenInv

\* Every step keeps the tokens in order.
LEMMA TokenStep == TypeInv /\ TokenInv /\ [Next]_vars => TokenInv'
<1> SUFFICES ASSUME TypeInv, TokenInv, [Next]_vars PROVE TokenInv'
  OBVIOUS
<1>1. ASSUME UNCHANGED <<requests, tokens>> PROVE TokenInv'
  BY <1>1 DEF TokenInv, Claims
<1>2. CASE Task
  BY <1>1, <1>2, TaskTypes
<1>3. CASE Submit
  <2>1. PICK r \in Requests : MovesOn(r)
    BY <1>3, SubmitMoves
  <2>2. ~ Claims(r)'
    BY <2>1 DEF MovesOn, Claims, Submits, Confirms, Idle
  <2>3. \A q \in Requests : q # r => requests'[q] = requests[q]
    BY <2>1 DEF MovesOn
  <2>4. UNCHANGED tokens
    BY <1>3, SubmitTypes
  <2> QED
    BY <2>2, <2>3, <2>4, ClaimsStay DEF Claims
<1>4. CASE Review
  <2>1. ASSUME NEW d \in Drafts, NEW r \in Requests, BeginSubmit(r, d) PROVE TokenInv'
    <3>1. BeginSubmitIs(r, d)
      BY <2>1, SubmitBegins
    <3>2. ~ Claims(r)'
      BY <3>1 DEF BeginSubmitIs, Claims, Submits, Confirms
    <3>3. \A q \in Requests : q # r => requests'[q] = requests[q]
      BY <3>1 DEF BeginSubmitIs
    <3>4. UNCHANGED tokens
      BY <2>1 DEF BeginSubmit
    <3> QED
      BY <3>2, <3>3, <3>4, ClaimsStay DEF Claims
  <2>2. (\E d \in Drafts, r \in Requests : BeginSubmit(r, d)) \/ UNCHANGED <<requests, tokens>>
    BY <1>4 DEF Review, CreateDraft, StartTask, Save, Split, Delete
  <2> QED
    BY <1>1, <2>1, <2>2
<1>5. ASSUME NEW r \in Requests, Consume(r) PROVE TokenInv'
  <2>1. requests[r] \in Confirms /\ requests[r].stage = "taken" /\ requests[r].token \in Tokens
    BY <1>5, Stages DEF Consume, At, Confirms
  <2>2. CASE Claimable(requests[r].token)
    <3> DEFINE t == requests[r].token
    <3>1. ConfirmIs(r, "claimed", t)
      BY <1>5, <2>1, <2>2, ConfirmGoesOn DEF Consume
    <3>2. /\ \A q \in Requests : q # r => requests'[q] = requests[q]
          /\ Claims(r)' /\ requests'[r].token = t
      BY <3>1 DEF ConfirmIs, Claims
    <3>3. tokens[t].writes = 0 /\ tokens[t].state \notin {"consumed", "purged"}
      BY <2>1, <2>2 DEF TokenInv, Claimable
    <3>4. tokens' = [tokens EXCEPT ![t] = [tokens[t] EXCEPT !.state = "consumed"]]
      BY <1>5, <2>1, <2>2 DEF Consume, TypeInv
    <3>5. [tokens[t] EXCEPT !.state = "consumed"].state = "consumed"
          /\ [tokens[t] EXCEPT !.state = "consumed"].writes = tokens[t].writes
      BY <2>1 DEF TypeInv, TokenRows
    <3>6. /\ tokens'[t].state = "consumed" /\ tokens'[t].writes = 0
          /\ \A u \in Tokens : u # t => tokens'[u] = tokens[u]
      BY <2>1, <3>3, <3>4, <3>5 DEF TypeInv
    <3>7. \A q \in Requests : q # r => (Claims(q)' <=> Claims(q))
      BY <3>2 DEF Claims
    <3>8. \A q \in Requests : Claims(q) => requests[q].token # t /\ requests[q].token \in Tokens
      BY <3>3 DEF TokenInv, Claims, Confirms
    <3> HIDE DEF t
    <3>9. \A u \in Tokens : /\ tokens'[u].writes <= 1
                            /\ tokens'[u].state \in {"none", "pending", "expired"} => tokens'[u].writes = 0
      BY <3>6 DEF TokenInv
    <3>10. \A q \in Requests : Claims(q)' => /\ tokens'[requests'[q].token].state \in {"consumed", "purged"}
                                             /\ tokens'[requests'[q].token].writes = 0
      BY <3>2, <3>6, <3>7, <3>8 DEF TokenInv
    <3>11. \A p, q \in Requests : Claims(p)' /\ Claims(q)' /\ requests'[p].token = requests'[q].token => p = q
      BY <3>2, <3>7, <3>8 DEF TokenInv
    <3> QED
      BY <3>9, <3>10, <3>11 DEF TokenInv
  <2>3. CASE ~ Claimable(requests[r].token)
    <3>1. UNCHANGED tokens /\ Leave(r)
      BY <1>5, <2>3 DEF Consume
    <3>2. requests'[r] = Idle /\ \A q \in Requests : q # r => requests'[q] = requests[q]
      BY <3>1, LeaveIs
    <3> QED
      BY <3>1, <3>2, ClaimsStay DEF Claims, Confirms, Idle
  <2> QED
    BY <2>2, <2>3
<1>6. ASSUME NEW r \in Requests, Write(r) PROVE TokenInv'
  <2> DEFINE t == requests[r].token
  <2>1. Claims(r) /\ t \in Tokens
    BY <1>6, Stages DEF Write, At, Confirms, Claims
  <2>2. requests'[r] = Idle /\ \A q \in Requests : q # r => requests'[q] = requests[q]
    BY <1>6, LeaveIs DEF Write
  <2>3. tokens[t].writes = 0 /\ tokens[t].state \in {"consumed", "purged"}
    BY <2>1 DEF TokenInv
  <2>4. tokens' = [tokens EXCEPT ![t] = [tokens[t] EXCEPT !.writes = tokens[t].writes + 1]]
    BY <1>6, <2>1 DEF Write, TypeInv
  <2>5. /\ tokens'[t].writes = 1 /\ tokens'[t].state = tokens[t].state
        /\ \A u \in Tokens : u # t => tokens'[u] = tokens[u]
    BY <2>1, <2>3, <2>4 DEF TypeInv, TokenRows
  <2>6. ~ Claims(r)' /\ \A q \in Requests : q # r => (Claims(q)' <=> Claims(q))
    BY <2>2 DEF Claims, Confirms, Idle
  <2>7. \A q \in Requests : Claims(q) /\ q # r => requests[q].token # t /\ requests[q].token \in Tokens
    BY <2>1 DEF TokenInv, Claims, Confirms
  <2> HIDE DEF t
  <2>8. \A u \in Tokens : /\ tokens'[u].writes <= 1
                          /\ tokens'[u].state \in {"none", "pending", "expired"} => tokens'[u].writes = 0
    BY <2>3, <2>5 DEF TokenInv
  <2>9. \A q \in Requests : Claims(q)' => /\ tokens'[requests'[q].token].state \in {"consumed", "purged"}
                                          /\ tokens'[requests'[q].token].writes = 0
    BY <2>2, <2>5, <2>6, <2>7 DEF TokenInv
  <2>10. \A p, q \in Requests : Claims(p)' /\ Claims(q)' /\ requests'[p].token = requests'[q].token => p = q
    BY <2>2, <2>6 DEF TokenInv
  <2> QED
    BY <2>8, <2>9, <2>10 DEF TokenInv
<1>7. ASSUME NEW r \in Requests, Refuse(r) PROVE TokenInv'
  <2>1. requests'[r] = Idle /\ \A q \in Requests : q # r => requests'[q] = requests[q]
    BY <1>7, LeaveIs DEF Refuse
  <2> QED
    BY <1>7, <2>1, ClaimsStay DEF Refuse, Claims, Confirms, Idle
<1>8. ASSUME NEW t \in Tokens, NEW value \in Values, Propose(t, value) PROVE TokenInv'
  <2>1. tokens[t].state = "none" /\ tokens[t].writes = 0 /\ UNCHANGED requests
    BY <1>8 DEF Propose, TokenInv
  <2> DEFINE row == [tokens[t] EXCEPT !.state = "pending", !.value = value]
  <2>2. row.writes = tokens[t].writes
    BY DEF TypeInv, TokenRows
  <2>3. tokens' = [tokens EXCEPT ![t] = row]
    BY <1>8 DEF Propose, TypeInv
  <2> HIDE DEF row
  <2>4. tokens'[t].writes = 0 /\ \A u \in Tokens : u # t => tokens'[u] = tokens[u]
    BY <2>1, <2>2, <2>3 DEF TypeInv
  <2>5. \A q \in Requests : Claims(q) => requests[q].token # t /\ requests[q].token \in Tokens
    BY <2>1 DEF TokenInv, Claims, Confirms
  <2> QED
    BY <2>1, <2>4, <2>5 DEF TokenInv, Claims
<1>9. ASSUME NEW t \in Tokens, Expire(t) PROVE TokenInv'
  <2>1. tokens[t].state = "pending" /\ tokens[t].writes = 0 /\ UNCHANGED requests
    BY <1>9 DEF Expire, TokenInv
  <2>2. tokens'[t].writes = 0 /\ \A u \in Tokens : u # t => tokens'[u] = tokens[u]
    BY <1>9, <2>1 DEF Expire, TypeInv, TokenRows
  <2>3. \A q \in Requests : Claims(q) => requests[q].token # t /\ requests[q].token \in Tokens
    BY <2>1 DEF TokenInv, Claims, Confirms
  <2> QED
    BY <2>1, <2>2, <2>3 DEF TokenInv, Claims
<1>10. CASE Purge
  <2>1. ASSUME NEW t \in Tokens
        PROVE  /\ tokens'[t].writes = tokens[t].writes
               /\ tokens'[t].state = IF tokens[t].state \in {"expired", "consumed"}
                                     THEN "purged" ELSE tokens[t].state
    <3>1. tokens[t] \in TokenRows
      BY DEF TypeInv
    <3>2. /\ [tokens[t] EXCEPT !.state = "purged"].state = "purged"
          /\ [tokens[t] EXCEPT !.state = "purged"].writes = tokens[t].writes
      BY <3>1 DEF TokenRows
    <3> QED
      BY <1>10, <3>2 DEF Purge
  <2>2. \A q \in Requests : Claims(q) => requests[q].token \in Tokens
    BY DEF Claims, Confirms
  <2>3. UNCHANGED requests
    BY <1>10 DEF Purge
  <2> QED
    BY <2>1, <2>2, <2>3 DEF TokenInv, Claims
<1>11. ASSUME NEW r \in Requests, NEW t \in Tokens, BeginConfirm(r, t) PROVE TokenInv'
  <2>1. ConfirmIs(r, "taken", t)
    BY <1>11, ConfirmBegins
  <2>2. ~ Claims(r)' /\ \A q \in Requests : q # r => requests'[q] = requests[q]
    BY <2>1 DEF ConfirmIs, Claims
  <2> QED
    BY <1>11, <2>2, ClaimsStay DEF BeginConfirm, Claims
<1>12. CASE Restart
  <2>1. UNCHANGED tokens /\ \A r \in Requests : requests'[r] = Idle
    BY <1>12, RestartTypes
  <2> QED
    BY <2>1, ClaimsStay DEF Claims, Confirms, Idle
<1>13. ASSUME (\E value \in Fields : EditField(value)) \/ \E a \in Assets : AddAsset(a)
       PROVE  TokenInv'
  BY <1>1, <1>13 DEF EditField, AddAsset
<1> QED
  BY <1>1, <1>2, <1>3, <1>4, <1>5, <1>6, <1>7, <1>8, <1>9, <1>10, <1>11, <1>12, <1>13
  DEF Next, Confirm, People, vars

\* They are in order at first.
LEMMA TokenInit == Init => TokenInv
BY DEF Init, TokenInv, Claims, Confirms, Idle

\* However many confirmations of a proposal overlap, whatever expires or is purged
\* between their steps and however often the server restarts, a proposal is written
\* at most once: consume's one UPDATE lets one of them through
\* (write_proposal_store.py).
THEOREM ProposalsWrittenOnce == Spec => [](\A t \in Tokens : tokens[t].writes <= 1)
<1> DEFINE Once == \A t \in Tokens : tokens[t].writes <= 1
<1>1. Init => TypeInv /\ TokenInv
  BY InitTypes, TokenInit
<1>2. TypeInv /\ TokenInv /\ [Next]_vars => TypeInv' /\ TokenInv'
  BY StepTypes, TokenStep
<1>3. TokenInv => Once
  BY DEF TokenInv
<1> QED
  BY <1>1, <1>2, <1>3, PTL DEF Spec

-----------------------------------------------------------------------------
(***************************************************************************)
(* The target project has every asset once                                 *)
(***************************************************************************)

Compared(r) == requests[r] \in Submits /\ requests[r].stage = "compared"

\* What an update found missing still is, unless it was added meanwhile, and so
\* nothing that was not raced is there twice.
Missing(r) == \A a \in requests[r].new : a \notin raced => target.copies[a] = 0

TargetInv ==
  /\ \A a \in Assets \ raced : target.copies[a] <= 1
  /\ \A r \in Requests : Compared(r) => Missing(r)

\* Steps that neither compare an update nor add to the project.
LEMMA TargetStays ==
  ASSUME TypeInv, TargetInv, target'.copies = target.copies, UNCHANGED raced,
         \A r \in Requests : Compared(r)' => Compared(r) /\ requests'[r] = requests[r]
  PROVE  TargetInv'
BY DEF TargetInv, Missing

\* What the updates that are to write have found missing.
LEMMA AddingIs ==
  ASSUME TypeInv, NEW others \in SUBSET Requests, NEW a
  PROVE  a \in Adding(others) <=> \E q \in others : Compared(q) /\ a \in requests[q].new
<1>1. \A q \in Requests : Compared(q) <=> At(q, "submit", "compared")
  BY Stages DEF Compared, At, Work, Submits, SubmitStages
<1> QED
  BY <1>1 DEF Adding

\* Every step keeps it so.
LEMMA TargetStep == TypeInv /\ TargetInv /\ [Next]_vars => TargetInv'
<1> SUFFICES ASSUME TypeInv, TargetInv, [Next]_vars PROVE TargetInv'
  OBVIOUS
<1>1. ASSUME UNCHANGED <<requests, target, raced>> PROVE TargetInv'
  BY <1>1, TargetStays DEF Compared
<1>2. CASE Task
  BY <1>1, <1>2, TaskTypes
<1>3. ASSUME NEW r \in Requests, requests[r] \in Submits,
             NEW stage \in SubmitStages \ {"compared"}, Goto(r, stage),
             target'.copies = target.copies, UNCHANGED raced
      PROVE  TargetInv'
  <2>1. /\ requests'[r] \in Submits /\ requests'[r].stage # "compared"
        /\ \A q \in Requests : q # r => requests'[q] = requests[q]
    BY <1>3, GotoIs DEF Onwards
  <2> QED
    BY <1>3, <2>1, TargetStays DEF Compared
<1>4. ASSUME NEW r \in Requests, Leave(r), target'.copies = target.copies, UNCHANGED raced
      PROVE  TargetInv'
  <2>1. requests'[r] = Idle /\ \A q \in Requests : q # r => requests'[q] = requests[q]
    BY <1>4, LeaveIs
  <2>2. ~ Compared(r)'
    BY <2>1 DEF Compared, Submits, Idle
  <2> QED
    BY <1>4, <2>1, <2>2, TargetStays DEF Compared
<1>5. ASSUME NEW r \in Requests, Compare(r) PROVE TargetInv'
  <2>1. /\ requests'[r].new = NewAssets(r)
        /\ \A q \in Requests : q # r => requests'[q] = requests[q]
    BY <1>5, CompareIs
  <2>2. requests[r] \in Submits /\ UNCHANGED <<target, raced>>
    BY <1>5, AtSubmit DEF Compare, history
  <2>3. \A a \in NewAssets(r) : target.copies[a] = 0
    <3>1. requests[r].assets \in SUBSET Assets /\ \A a \in Assets : target.copies[a] \in Nat
      BY <2>2 DEF Submits, TypeInv, TargetRows
    <3> QED
      BY <3>1 DEF NewAssets, OnTarget
  <2>4. Missing(r)'
    BY <2>1, <2>2, <2>3 DEF Missing
  <2>5. \A q \in Requests : q # r /\ Compared(q)' => Missing(q)'
    BY <2>1, <2>2 DEF Compared, Missing, TargetInv
  <2> QED
    BY <2>2, <2>4, <2>5 DEF TargetInv
<1>6. ASSUME NEW r \in Requests, ApplyAssets(r) PROVE TargetInv'
  <2>1. Compared(r) /\ requests[r].new \in SUBSET Assets
    BY <1>6, AtSubmit DEF ApplyAssets, Compared, Submits
  <2>2. PICK stage \in SubmitStages \ {"compared"} : Goto(r, stage)
    BY <1>6 DEF ApplyAssets, SubmitStages
  <2>3. /\ requests'[r] \in Submits /\ requests'[r].stage # "compared"
        /\ \A q \in Requests : q # r => requests'[q] = requests[q]
    BY <2>1, <2>2, GotoIs DEF Onwards, Compared
  <2>4. \A a \in Assets : target'.copies[a] = IF a \in requests[r].new THEN target.copies[a] + 1
                                              ELSE target.copies[a]
    BY <1>6 DEF ApplyAssets, TypeInv, TargetRows
  <2>5. raced' = raced \cup (requests[r].new \cap Adding(Requests \ {r}))
    BY <1>6 DEF ApplyAssets
  <2>6. \A a \in Assets \ raced' : target'.copies[a] <= 1
    BY <2>1, <2>4, <2>5 DEF TargetInv, Missing
  <2>7. ASSUME NEW q \in Requests, Compared(q)' PROVE Missing(q)'
    <3>1. q # r /\ Compared(q) /\ requests'[q] = requests[q] /\ requests[q].new \in SUBSET Assets
      BY <2>3, <2>7 DEF Compared, Submits
    <3>2. ASSUME NEW a \in requests[q].new, a \notin raced' PROVE target'.copies[a] = 0
      <4>1. a \notin requests[r].new
        BY <2>5, <3>1, <3>2, AddingIs
      <4>2. target.copies[a] = 0
        BY <2>5, <3>1, <3>2 DEF TargetInv, Missing
      <4> QED
        BY <2>4, <3>1, <4>1, <4>2
    <3> QED
      BY <3>1, <3>2 DEF Missing
  <2> QED
    BY <2>6, <2>7 DEF TargetInv
<1>7. CASE Submit
  <2>1. ASSUME NEW r \in Requests, Mark(r) PROVE TargetInv'
    BY <1>3, <1>4, <2>1, AtSubmit DEF Mark, SubmitStages
  <2>2. ASSUME NEW r \in Requests, CreateProject(r) PROVE TargetInv'
    BY <1>3, <2>2, AtSubmit DEF CreateProject, SubmitStages, history
  <2>3. ASSUME NEW r \in Requests, Populate(r) PROVE TargetInv'
    BY <1>3, <2>3, AtSubmit DEF Populate, SubmitStages, history
  <2>4. ASSUME NEW r \in Requests, NEW deleted \in BOOLEAN, FailPopulate(r, deleted) PROVE TargetInv'
    BY <1>3, <2>4, AtSubmit DEF FailPopulate, SubmitStages, history
  <2>5. ASSUME NEW r \in Requests, ApplyFields(r) PROVE TargetInv'
    <3>1. target'.copies = target.copies
      BY <2>5 DEF ApplyFields, TypeInv, TargetRows
    <3> QED
      BY <1>3, <2>5, <3>1, AtSubmit DEF ApplyFields, SubmitStages, history
  <2>6. ASSUME NEW r \in Requests, FailSubmit(r) PROVE TargetInv'
    BY <1>3, <2>6, AtSubmit DEF FailSubmit, SubmitStages, history
  <2>7. ASSUME NEW r \in Requests, Settle(r) PROVE TargetInv'
    BY <1>4, <2>7 DEF Settle, history
  <2> QED
    BY <1>5, <1>6, <1>7, <2>1, <2>2, <2>3, <2>4, <2>5, <2>6, <2>7 DEF Submit
<1>8. CASE Review
  <2>1. ASSUME NEW d \in Drafts, NEW r \in Requests, BeginSubmit(r, d) PROVE TargetInv'
    <3>1. /\ requests'[r] \in Submits /\ requests'[r].stage = "read"
          /\ \A q \in Requests : q # r => requests'[q] = requests[q]
      BY <2>1, SubmitBegins DEF BeginSubmitIs
    <3>2. UNCHANGED target /\ \A q \in Requests : Compared(q)' => Compared(q) /\ requests'[q] = requests[q]
      BY <2>1, <3>1 DEF BeginSubmit, Compared
    <3> QED
      BY <1>8, <3>2, ReviewTypes, TargetStays
  <2>2. (\E d \in Drafts, r \in Requests : BeginSubmit(r, d)) \/ UNCHANGED requests
    BY <1>8 DEF Review, CreateDraft, StartTask, Save, Split, Delete
  <2> QED
    BY <1>1, <1>8, <2>1, <2>2, ReviewTypes
<1>9. ASSUME NEW value, SetField(value) PROVE target'.copies = target.copies
  BY <1>9 DEF SetField, TypeInv, TargetRows
<1>10. CASE Confirm
  <2>1. ASSUME NEW r \in Requests, Consume(r) PROVE TargetInv'
    <3>1. CASE Leave(r)
      BY <1>4, <2>1, <3>1 DEF Consume, history
    <3>2. CASE Goto(r, "claimed")
      <4>1. /\ requests'[r] \in Confirms
            /\ \A q \in Requests : q # r => requests'[q] = requests[q]
        BY <2>1, <3>2, Stages, ConfirmGoesOn DEF Consume, At, ConfirmIs
      <4>2. ~ Compared(r)'
        BY <4>1 DEF Compared, Submits, Confirms
      <4> QED
        BY <2>1, <4>1, <4>2, TargetStays DEF Consume, Compared, history
    <3> QED
      BY <2>1, <3>1, <3>2 DEF Consume
  <2>2. ASSUME NEW r \in Requests, Write(r) PROVE TargetInv'
    BY <1>4, <1>9, <2>2 DEF Write, history
  <2>3. ASSUME NEW r \in Requests, Refuse(r) PROVE TargetInv'
    BY <1>4, <2>3 DEF Refuse, history
  <2> QED
    BY <1>10, <2>1, <2>2, <2>3 DEF Confirm
<1>11. CASE People
  <2>1. ASSUME NEW value \in Fields, EditField(value) PROVE TargetInv'
    BY <1>9, <2>1, TargetStays DEF EditField, Compared, history
  <2>2. ASSUME NEW a \in Assets, AddAsset(a) PROVE TargetInv'
    <3>1. /\ raced' = raced \cup ({a} \cap Adding(Requests)) /\ UNCHANGED requests
          /\ target.copies[a] = 0
      BY <2>2 DEF AddAsset
    <3>2. \A b \in Assets : target'.copies[b] = IF b = a THEN 1 ELSE target.copies[b]
      BY <2>2 DEF AddAsset, TypeInv, TargetRows
    <3>3. \A b \in Assets \ raced' : target'.copies[b] <= 1
      BY <3>1, <3>2 DEF TargetInv
    <3>4. ASSUME NEW q \in Requests, Compared(q)' PROVE Missing(q)'
      <4>1. Compared(q) /\ requests[q].new \in SUBSET Assets
        BY <3>1, <3>4 DEF Compared, Submits
      <4>2. ASSUME NEW b \in requests[q].new, b \notin raced' PROVE target'.copies[b] = 0
        <5>1. b # a
          BY <3>1, <4>1, <4>2, AddingIs
        <5>2. target.copies[b] = 0
          BY <3>1, <4>1, <4>2 DEF TargetInv, Missing
        <5> QED
          BY <3>2, <4>1, <5>1, <5>2
      <4> QED
        BY <3>1, <4>2 DEF Missing
    <3> QED
      BY <3>3, <3>4 DEF TargetInv
  <2>3. ASSUME NEW r \in Requests, NEW t \in Tokens, BeginConfirm(r, t) PROVE TargetInv'
    <3>1. requests'[r] \in Confirms /\ \A q \in Requests : q # r => requests'[q] = requests[q]
      BY <2>3, ConfirmBegins DEF ConfirmIs
    <3>2. ~ Compared(r)'
      BY <3>1 DEF Compared, Submits, Confirms
    <3> QED
      BY <2>3, <3>1, <3>2, TargetStays DEF BeginConfirm, Compared, history
  <2>4. ASSUME \/ Purge
               \/ \E t \in Tokens : Expire(t) \/ \E value \in Values : Propose(t, value)
        PROVE  TargetInv'
    BY <1>1, <2>4 DEF Purge, Expire, Propose, history
  <2> QED
    BY <1>11, <2>1, <2>2, <2>3, <2>4 DEF People
<1>12. CASE Restart
  <2>1. UNCHANGED <<target, raced>> /\ \A r \in Requests : requests'[r] = Idle
    BY <1>12, RestartTypes
  <2>2. \A r \in Requests : ~ Compared(r)'
    BY <2>1 DEF Compared, Submits, Idle
  <2> QED
    BY <2>1, <2>2, TargetStays
<1>13. CASE UNCHANGED vars
  BY <1>1, <1>13 DEF vars, history
<1> QED
  BY <1>2, <1>7, <1>8, <1>10, <1>11, <1>12, <1>13 DEF Next

\* It is so at first.
LEMMA TargetInit == Init => TargetInv
BY DEF Init, TargetInv, Compared, Submits, Idle

\* Whatever overlaps, any number of drafts, submits, failed updates, repeats and
\* restarts put no job or application on the project twice, unless it was added
\* between the comparison of an update that lacked it and its write
\* (project_update.py); and no proposal is written twice.
THEOREM NothingIsTwice == Spec => []NothingTwice
<1> DEFINE IInv == TypeInv /\ TokenInv /\ TargetInv
<1>1. Init => IInv
  BY InitTypes, TokenInit, TargetInit
<1>2. IInv /\ [Next]_vars => IInv'
  BY StepTypes, TokenStep, TargetStep
<1>3. IInv => NothingTwice
  BY DEF TokenInv, TargetInv, NothingTwice
<1> QED
  BY <1>1, <1>2, <1>3, PTL DEF Spec

-----------------------------------------------------------------------------
(***************************************************************************)
(* What tasks and reviewers do to a row                                    *)
(***************************************************************************)

\* A step of a task leaves the others alone, and stays with its draft.
LEMMA TaskMoves ==
  ASSUME TypeInv, NEW k \in Workers,
         \/ PickUp(k)
         \/ \E found \in SUBSET Assets, offered \in Fields : Finish(k, found, offered)
         \/ FailTask(k)
  PROVE  /\ \A j \in Workers : j # k => tasks'[j] = tasks[j]
         /\ tasks'[k].stage # "idle" => tasks'[k].draft = tasks[k].draft
<1>1. ASSUME tasks' = [tasks EXCEPT ![k] = NoTask]
      PROVE  tasks'[k].stage = "idle" /\ \A j \in Workers : j # k => tasks'[j] = tasks[j]
  BY <1>1 DEF TypeInv, NoTask
<1>2. ASSUME NEW new, tasks' = [tasks EXCEPT ![k] = new], new.draft = tasks[k].draft
      PROVE  tasks'[k].draft = tasks[k].draft /\ \A j \in Workers : j # k => tasks'[j] = tasks[j]
  BY <1>2 DEF TypeInv
<1>3. CASE PickUp(k)
  <2> DEFINE row == drafts[tasks[k].draft]
             new == [stage |-> "working", kind |-> tasks[k].kind, draft |-> tasks[k].draft,
                     assets |-> row.assets, field |-> row.field]
  <2>1. tasks' = [tasks EXCEPT ![k] = NoTask] \/ tasks' = [tasks EXCEPT ![k] = new]
    BY <1>3 DEF PickUp
  <2>2. new.draft = tasks[k].draft
    OBVIOUS
  <2> HIDE DEF new
  <2> QED
    BY <1>1, <1>2, <2>1, <2>2
<1> QED
  BY <1>1, <1>3 DEF Finish, FailTask

\* Confirmations and people leave the submits under way alone, and start none.
LEMMA SubmitsStay ==
  ASSUME TypeInv, Confirm \/ People
  PROVE  \A q \in Requests : requests[q] \in Submits \/ requests'[q] \in Submits =>
                               requests'[q] = requests[q]
<1> DEFINE Stay == \A q \in Requests : requests[q] \in Submits \/ requests'[q] \in Submits =>
                                           requests'[q] = requests[q]
<1>1. ASSUME UNCHANGED requests PROVE Stay
  BY <1>1
<1>2. ASSUME NEW r \in Requests, requests[r] \notin Submits, requests'[r] \notin Submits,
             \A q \in Requests : q # r => requests'[q] = requests[q]
      PROVE  Stay
  BY <1>2
<1> HIDE DEF Stay
<1>3. ASSUME NEW r \in Requests, requests[r] \in Confirms, Leave(r) PROVE Stay
  <2>1. requests'[r] = Idle /\ \A q \in Requests : q # r => requests'[q] = requests[q]
    BY <1>3, LeaveIs
  <2> QED
    BY <1>2, <1>3, <2>1 DEF Submits, Confirms, Idle
<1>4. ASSUME NEW r \in Requests, NEW t \in Tokens, BeginConfirm(r, t) PROVE Stay
  <2>1. requests[r] = Idle
    BY <1>4, Stages DEF BeginConfirm
  <2> QED
    BY <1>2, <1>4, <2>1, ConfirmBegins DEF ConfirmIs, Submits, Confirms, Idle
<1>5. ASSUME NEW r \in Requests, Consume(r) PROVE Stay
  <2>1. requests[r] \in Confirms
    BY <1>5, Stages DEF Consume, At
  <2>2. CASE Goto(r, "claimed")
    BY <1>2, <2>1, <2>2, ConfirmGoesOn DEF ConfirmIs, Submits, Confirms
  <2> QED
    BY <1>3, <1>5, <2>1, <2>2 DEF Consume
<1>6. ASSUME NEW r \in Requests, Write(r) \/ Refuse(r) PROVE Stay
  BY <1>3, <1>6, Stages DEF Write, Refuse, At
<1>7. ASSUME \/ \E value \in Fields : EditField(value)
             \/ \E a \in Assets : AddAsset(a)
             \/ \E t \in Tokens : Expire(t) \/ \E value \in Values : Propose(t, value)
             \/ Purge
      PROVE  Stay
  BY <1>1, <1>7 DEF EditField, AddAsset, Expire, Propose, Purge
<1>8. Stay
  BY <1>4, <1>5, <1>6, <1>7 DEF Confirm, People
<1> QED
  BY <1>8 DEF Stay

\* A task that finishes writes its answer and nothing else.
LEMMA FinishIs ==
  ASSUME TypeInv, NEW k \in Workers, NEW d \in Drafts, d = tasks[k].draft,
         NEW found \in SUBSET Assets, NEW offered \in Fields,
         Finish(k, found, offered), drafts[d].status # "deleted"
  PROVE  /\ drafts'[d].status = "ready"
         /\ drafts'[d].assets = Answer(k, found, offered).assets
         /\ drafts'[d].field = Answer(k, found, offered).field
         /\ drafts'[d].edited = drafts[d].edited /\ drafts'[d].lost = drafts[d].lost
         /\ \A e \in Drafts : e # d => drafts'[e] = drafts[e]
<1> DEFINE x == Answer(k, found, offered).assets
           y == Answer(k, found, offered).field
           row == [drafts[d] EXCEPT !.status = "ready", !.assets = x, !.field = y]
<1>1. drafts' = [drafts EXCEPT ![d] = row]
  BY DEF Finish, TypeInv
<1> HIDE DEF x, y
<1>2. row.status = "ready" /\ row.assets = x /\ row.field = y
      /\ row.edited = drafts[d].edited /\ row.lost = drafts[d].lost
  BY DEF TypeInv, DraftRows
<1> HIDE DEF row
<1>3. drafts'[d] = row /\ \A e \in Drafts : e # d => drafts'[e] = drafts[e]
  BY <1>1 DEF TypeInv
<1> QED
  BY <1>2, <1>3 DEF x, y

\* A draft that is given to a task is being refined.
LEMMA StartTaskIs ==
  ASSUME TypeInv, NEW d \in Drafts, NEW k \in Workers, NEW kind \in Kinds,
         NEW assets \in SUBSET Assets, NEW field \in Fields, StartTask(d, k, kind, assets, field)
  PROVE  /\ drafts[d].status \in {"ready", "failed"} /\ UNCHANGED requests
         /\ drafts'[d].status = "refining" /\ drafts'[d].lost = drafts[d].lost
         /\ kind # "refine" => SameContent(d)
         /\ \A e \in Drafts : e # d => drafts'[e] = drafts[e]
<1> DEFINE edit == [drafts[d] EXCEPT !.status = "refining", !.assets = assets, !.field = field,
                                     !.edited = TRUE]
           plain == [drafts[d] EXCEPT !.status = "refining"]
           row == IF kind = "refine" THEN edit ELSE plain
<1>1. edit.status = "refining" /\ edit.lost = drafts[d].lost
  BY DEF TypeInv, DraftRows
<1>2. /\ plain.status = "refining" /\ plain.lost = drafts[d].lost
      /\ plain.assets = drafts[d].assets /\ plain.field = drafts[d].field
      /\ plain.edited = drafts[d].edited
  BY DEF TypeInv, DraftRows
<1>3. drafts' = [drafts EXCEPT ![d] = row]
  BY DEF StartTask
<1> HIDE DEF edit, plain
<1>4. /\ row.status = "refining" /\ row.lost = drafts[d].lost
      /\ kind # "refine" => row = plain
  BY <1>1, <1>2
<1> HIDE DEF row
<1>5. drafts'[d] = row /\ \A e \in Drafts : e # d => drafts'[e] = drafts[e]
  BY <1>3 DEF TypeInv
<1> QED
  BY <1>2, <1>4, <1>5 DEF StartTask, SameContent

\* A draft that is saved is ready.
LEMMA SaveIs ==
  ASSUME TypeInv, NEW d \in Drafts, NEW assets \in SUBSET Assets, NEW field \in Fields,
         Save(d, assets, field)
  PROVE  drafts'[d].status = "ready" /\ \A e \in Drafts : e # d => drafts'[e] = drafts[e]
<1> DEFINE row == [drafts[d] EXCEPT !.status = "ready", !.assets = assets, !.field = field,
                                    !.edited = TRUE]
<1>1. row.status = "ready"
  BY DEF TypeInv, DraftRows
<1>2. drafts' = [drafts EXCEPT ![d] = row]
  BY DEF Save
<1> HIDE DEF row
<1> QED
  BY <1>1, <1>2 DEF TypeInv

\* Both parts of a draft that is split are ready.
LEMMA SplitIs ==
  ASSUME TypeInv, NEW d \in Drafts, NEW e \in Drafts, NEW kept \in SUBSET Assets, Split(d, e, kept)
  PROVE  /\ drafts'[d].status = "ready" /\ drafts'[e].status = "ready"
         /\ \A f \in Drafts \ {d, e} : drafts'[f] = drafts[f]
<1> DEFINE part == [drafts[d] EXCEPT !.status = "ready", !.split = TRUE, !.assets = kept]
           rest == [drafts[d] EXCEPT !.status = "ready", !.split = TRUE, !.lost = FALSE,
                                     !.assets = drafts[d].assets \ kept]
<1>1. part.status = "ready" /\ rest.status = "ready"
  BY DEF TypeInv, DraftRows
<1>2. drafts' = [drafts EXCEPT ![d] = part, ![e] = rest]
  BY DEF Split
<1> HIDE DEF part, rest
<1> QED
  BY <1>1, <1>2 DEF TypeInv

-----------------------------------------------------------------------------
(***************************************************************************)
(* Every project is accounted for                                          *)
(***************************************************************************)

Submitting(r) == requests[r] \in Submits

\* r has marked its draft as submitted.
Marked(r) == Submitting(r) /\ requests[r].stage # "read"

Fresh == {"none", "extracting", "refining", "ready", "failed"}

\* Draft d has n projects under way and w whole ones.
Made(d, n, w) == own[d].begun = n /\ own[d].whole = w

\* Task k will write draft d, whatever the row says by then.
Writes(k, d) ==
  /\ tasks[k].stage # "idle" /\ tasks[k].draft = d
  /\ tasks[k].stage = "working" \/ tasks[k].kind = "extract"

LEMMA WritersAre == \A d, k : k \in Writers(d) <=> k \in Workers /\ Writes(k, d)
BY DEF Writers, TaskOf, Writes

\* A draft that was not rushed has at most one project, none as long as it can be
\* submitted, and no task will write it once it was submitted.
DraftInv(d) ==
  d \notin rushed =>
    /\ Made(d, 0, 0) \/ Made(d, 1, 0) \/ Made(d, 0, 1)
    /\ drafts[d].status \in Fresh => Made(d, 0, 0)
    /\ drafts[d].status \in {"submitted", "completed"} => \A k \in Workers : ~ Writes(k, d)

\* How far the submit r has come is how far its draft and its project have.
Phase(r) ==
  LET d == requests[r].draft
      s == requests[r].stage
  IN  d \notin rushed =>
        /\ drafts[d].status = "submitted"
        /\ s \in {"marked", "compared", "fields", "failing"} => Made(d, 0, 0)
        /\ s = "created" => Made(d, 1, 0)

AccountInv ==
  /\ \A d \in Drafts : DraftInv(d)
  /\ \A r \in Requests : Marked(r) => Phase(r)
  /\ \A q, r \in Requests :
       Marked(q) /\ Marked(r) /\ requests[q].draft = requests[r].draft
         /\ requests[r].draft \notin rushed => q = r

\* Nothing the invariant is about changes of draft d.
SameDraft(d) ==
  /\ drafts'[d].status = drafts[d].status /\ own'[d] = own[d]
  /\ \A k \in Workers : Writes(k, d)' => Writes(k, d)

\* The drafts of D change, and with them at most one submit of each.
LEMMA OthersStay ==
  ASSUME TypeInv, AccountInv, NEW D \in SUBSET Drafts, rushed \subseteq rushed',
         \A d \in Drafts \ D : SameDraft(d),
         \A d \in D : DraftInv(d)',
         \A r \in Requests : Marked(r)' =>
           \/ /\ Marked(r) /\ requests'[r] = requests[r]
              /\ requests[r].draft \notin D \/ requests[r].draft \in rushed'
           \/ requests'[r].draft \in D /\ Phase(r)',
         \A q, r \in Requests :
           Marked(q)' /\ Marked(r)' /\ requests'[q].draft \in D \ rushed'
             /\ requests'[q].draft = requests'[r].draft => q = r
  PROVE  AccountInv'
<1>1. ASSUME NEW d \in Drafts PROVE DraftInv(d)'
  BY <1>1 DEF AccountInv, DraftInv, SameDraft, Made
<1>2. ASSUME NEW r \in Requests, Marked(r)' PROVE Phase(r)'
  <2>1. CASE Marked(r) /\ requests'[r] = requests[r] /\ requests[r].draft \in rushed'
    BY <2>1 DEF Phase
  <2>2. CASE Marked(r) /\ requests'[r] = requests[r] /\ requests[r].draft \notin D
    <3>1. requests[r].draft \in Drafts /\ Phase(r) /\ SameDraft(requests[r].draft)
      BY <2>2 DEF AccountInv, Marked, Submitting, Submits
    <3> QED
      BY <2>2, <3>1 DEF Phase, SameDraft, Made
  <2> QED
    BY <1>2, <2>1, <2>2
<1>3. ASSUME NEW q \in Requests, NEW r \in Requests, Marked(q)', Marked(r)',
             requests'[q].draft = requests'[r].draft, requests'[r].draft \notin rushed'
      PROVE  q = r
  <2>1. CASE requests'[q].draft \in D
    BY <1>3, <2>1
  <2>2. CASE requests'[q].draft \notin D
    <3>1. Marked(q) /\ requests'[q] = requests[q] /\ Marked(r) /\ requests'[r] = requests[r]
      BY <1>3, <2>2
    <3> QED
      BY <1>3, <3>1 DEF AccountInv
  <2> QED
    BY <2>1, <2>2
<1> QED
  BY <1>1, <1>2, <1>3 DEF AccountInv

\* Requests that have marked no draft, before or after, do not matter.
LEMMA NothingMarked ==
  ASSUME TypeInv, AccountInv, UNCHANGED rushed,
         \A d \in Drafts : SameDraft(d),
         \A q \in Requests : Marked(q)' => Marked(q) /\ requests'[q] = requests[q]
  PROVE  AccountInv'
<1>1. /\ \A d \in Drafts \ {} : SameDraft(d)
      /\ \A d \in {} : DraftInv(d)'
      /\ {} \in SUBSET Drafts
  OBVIOUS
<1>2. \A q \in Requests : Marked(q)' => /\ Marked(q) /\ requests'[q] = requests[q]
                                        /\ requests[q].draft \notin {}
  OBVIOUS
<1> QED
  BY <1>1, <1>2, OthersStay

\* A draft that no submit has marked, or that was rushed, changes its status.
LEMMA OneDraftMoves ==
  ASSUME TypeInv, AccountInv, NEW d \in Drafts, UNCHANGED <<requests, own, rushed>>,
         \A e \in Drafts : e # d => SameDraft(e),
         drafts'[d].status \notin {"submitted", "completed"},
         d \notin rushed => /\ drafts[d].status # "submitted"
                            /\ drafts'[d].status \in Fresh => drafts[d].status \in Fresh
  PROVE  AccountInv'
<1>1. DraftInv(d)'
  BY DEF AccountInv, DraftInv, Made
<1> DEFINE D == {d}
<1>2. (\A e \in Drafts \ D : SameDraft(e)) /\ \A e \in D : DraftInv(e)'
  BY <1>1
<1>3. \A r \in Requests : Marked(r)' => /\ Marked(r) /\ requests'[r] = requests[r]
                                        /\ requests[r].draft \notin D \/ requests[r].draft \in rushed'
  BY DEF AccountInv, Phase, Marked, Submitting
<1>4. \A q, r \in Requests :
        Marked(q)' /\ Marked(r)' /\ requests'[q].draft \in D \ rushed'
          /\ requests'[q].draft = requests'[r].draft => q = r
  BY <1>3
<1>5. D \in SUBSET Drafts
  OBVIOUS
<1> HIDE DEF D
<1> QED
  BY <1>2, <1>3, <1>4, <1>5, OthersStay

\* The submit r moves, and nothing but its own draft changes.
LEMMA SubmitGoesOn ==
  ASSUME TypeInv, AccountInv, NEW r \in Requests, MovesOn(r), Marked(r), UNCHANGED rushed,
         NEW d \in Drafts, requests[r].draft = d,
         \A e \in Drafts : e # d => SameDraft(e),
         DraftInv(d)',
         Marked(r)' => Phase(r)'
  PROVE  AccountInv'
<1> DEFINE D == {d}
<1>1. D \in SUBSET Drafts
  OBVIOUS
<1>2. Marked(r)' => requests'[r].draft \in D
  BY DEF MovesOn, Marked, Submitting, Submits, Idle
<1>3. ASSUME NEW q \in Requests, q # r, Marked(q)'
      PROVE  /\ Marked(q) /\ requests'[q] = requests[q]
             /\ requests[q].draft \notin D \/ requests[q].draft \in rushed'
  BY <1>3 DEF MovesOn, Marked, Submitting, AccountInv
<1>4. \A q \in Requests : Marked(q)' =>
        \/ /\ Marked(q) /\ requests'[q] = requests[q]
           /\ requests[q].draft \notin D \/ requests[q].draft \in rushed'
        \/ requests'[q].draft \in D /\ Phase(q)'
  BY <1>2, <1>3
<1>5. \A p, q \in Requests : Marked(p)' /\ Marked(q)' /\ requests'[p].draft \in D \ rushed'
        /\ requests'[p].draft = requests'[q].draft => p = q
  BY <1>3
<1>6. (\A e \in Drafts \ D : SameDraft(e)) /\ \A e \in D : DraftInv(e)'
  OBVIOUS
<1> HIDE DEF D
<1> QED
  BY <1>1, <1>4, <1>5, <1>6, OthersStay

\* A task that leaves the other tasks alone writes no other draft.
LEMMA OtherWriters ==
  ASSUME TypeInv, NEW k \in Workers, NEW d \in Drafts,
         \A j \in Workers : j # k => tasks'[j] = tasks[j],
         tasks'[k].stage # "idle" => tasks'[k].draft = d
  PROVE  \A e \in Drafts : e # d => \A j \in Workers : Writes(j, e)' => Writes(j, e)
BY DEF Writes

\* Background tasks write no draft that was submitted, unless it was rushed.
LEMMA TaskAccount == TypeInv /\ AccountInv /\ Task => AccountInv'
<1> SUFFICES ASSUME TypeInv, AccountInv, Task, NEW k \in Workers,
                    \/ PickUp(k)
                    \/ \E found \in SUBSET Assets, offered \in Fields : Finish(k, found, offered)
                    \/ FailTask(k)
             PROVE  AccountInv'
  BY DEF Task
<1>1. tasks[k].stage # "idle" /\ UNCHANGED <<requests, own, rushed>>
  BY TaskTypes DEF PickUp, Finish, FailTask
<1>2. PICK d \in Drafts : d = tasks[k].draft
  BY <1>1, TaskIs
<1>3. /\ \A j \in Workers : j # k => tasks'[j] = tasks[j]
      /\ tasks'[k].stage # "idle" => tasks'[k].draft = d
  BY <1>2, TaskMoves
<1>4. \A e \in Drafts : e # d => \A j \in Workers : Writes(j, e)' => Writes(j, e)
  BY <1>3, OtherWriters
<1>5. CASE PickUp(k)
  <2>1. UNCHANGED drafts
    BY <1>5 DEF PickUp
  <2>2. CASE drafts[d].status = "refining"
    BY <1>1, <1>4, <2>1, <2>2, OneDraftMoves DEF SameDraft
  <2>3. CASE drafts[d].status # "refining"
    <3>1. Writes(k, d)' => Writes(k, d)
      BY <1>2, <1>5, <2>3 DEF PickUp, Writes, TypeInv, NoTask
    <3>2. \A j \in Workers : Writes(j, d)' => Writes(j, d)
      BY <1>3, <3>1 DEF Writes
    <3>3. \A e \in Drafts : SameDraft(e)
      BY <1>1, <1>4, <2>1, <3>2 DEF SameDraft
    <3> QED
      BY <1>1, <3>3, NothingMarked DEF Marked, Submitting
  <2> QED
    BY <2>2, <2>3
<1>6. ASSUME tasks[k].stage = "working", drafts[d].status # "deleted",
             drafts'[d].status \in {"ready", "failed"},
             \A e \in Drafts : e # d => drafts'[e] = drafts[e]
      PROVE  AccountInv'
  <2>1. Writes(k, d)
    BY <1>2, <1>6 DEF Writes
  <2>2. d \notin rushed => drafts[d].status \in Fresh
    BY <1>6, <2>1 DEF AccountInv, DraftInv, TypeInv, DraftRows, Statuses, Fresh
  <2>3. \A e \in Drafts : e # d => SameDraft(e)
    BY <1>1, <1>4, <1>6 DEF SameDraft
  <2> QED
    BY <1>1, <1>6, <2>2, <2>3, OneDraftMoves DEF Fresh
\* The row is gone: the task ends, and that is all.
<1>7. ASSUME UNCHANGED drafts, tasks'[k].stage = "idle" PROVE AccountInv'
  <2>1. \A e \in Drafts : SameDraft(e)
    BY <1>1, <1>3, <1>7 DEF SameDraft, Writes
  <2> QED
    BY <1>1, <2>1, NothingMarked DEF Marked, Submitting
<1>8. CASE FailTask(k)
  <2>1. tasks[k].stage = "working" /\ tasks'[k].stage = "idle"
    BY <1>8 DEF FailTask, TypeInv, NoTask
  <2>2. CASE drafts[d].status = "deleted"
    BY <1>2, <1>7, <1>8, <2>1, <2>2 DEF FailTask
  <2>3. CASE drafts[d].status # "deleted"
    <3> DEFINE row == [drafts[d] EXCEPT !.status = "failed"]
    <3>1. drafts' = [drafts EXCEPT ![d] = row]
      BY <1>2, <1>8, <2>3 DEF FailTask, StatusOnFailure
    <3>2. row.status = "failed"
      BY DEF TypeInv, DraftRows
    <3> HIDE DEF row
    <3>3. drafts'[d].status = "failed" /\ \A e \in Drafts : e # d => drafts'[e] = drafts[e]
      BY <3>1, <3>2 DEF TypeInv
    <3> QED
      BY <1>6, <2>1, <2>3, <3>3
  <2> QED
    BY <2>2, <2>3
<1>9. ASSUME NEW found \in SUBSET Assets, NEW offered \in Fields, Finish(k, found, offered)
      PROVE  AccountInv'
  <2>1. tasks[k].stage = "working" /\ tasks'[k].stage = "idle"
    BY <1>9 DEF Finish, TypeInv, NoTask
  <2>2. CASE drafts[d].status = "deleted"
    BY <1>2, <1>7, <1>9, <2>1, <2>2 DEF Finish
  <2>3. CASE drafts[d].status # "deleted"
    <3>1. drafts'[d].status = "ready" /\ \A e \in Drafts : e # d => drafts'[e] = drafts[e]
      BY <1>2, <1>9, <2>3, FinishIs
    <3> QED
      BY <1>6, <2>1, <2>3, <3>1
  <2> QED
    BY <2>2, <2>3
<1> QED
  BY <1>5, <1>8, <1>9

\* Reviewers change no draft that has a project or is being submitted.
LEMMA ReviewAccount == TypeInv /\ AccountInv /\ Review => AccountInv'
<1> SUFFICES ASSUME TypeInv, AccountInv, Review PROVE AccountInv'
  OBVIOUS
<1>0. UNCHANGED <<own, rushed>>
  BY ReviewTypes
<1>1. ASSUME NEW d \in Drafts, NEW k \in Workers, NEW update \in BOOLEAN, CreateDraft(d, k, update)
      PROVE  AccountInv'
  <2> DEFINE row == [drafts[d] EXCEPT !.status = "extracting", !.update = update]
  <2>1. row.status = "extracting"
    BY DEF TypeInv, DraftRows
  <2>2. drafts' = [drafts EXCEPT ![d] = row]
    BY <1>1 DEF CreateDraft, TypeInv
  <2> HIDE DEF row
  <2>3. drafts[d].status = "none" /\ UNCHANGED requests
    BY <1>1 DEF CreateDraft
  <2>4. drafts'[d].status = "extracting" /\ \A e \in Drafts : e # d => drafts'[e] = drafts[e]
    BY <2>1, <2>2 DEF TypeInv
  <2>5. \A e \in Drafts : e # d => \A j \in Workers : Writes(j, e)' => Writes(j, e)
    BY <1>1, OtherWriters DEF CreateDraft, TypeInv
  <2>6. \A e \in Drafts : e # d => SameDraft(e)
    BY <1>0, <2>4, <2>5 DEF SameDraft
  <2> QED
    BY <1>0, <2>3, <2>4, <2>6, OneDraftMoves DEF Fresh
<1>2. ASSUME NEW d \in Drafts, NEW k \in Workers, NEW kind \in Kinds, NEW assets \in SUBSET Assets,
             NEW field \in Fields, StartTask(d, k, kind, assets, field)
      PROVE  AccountInv'
  <2>1. /\ drafts[d].status \in {"ready", "failed"} /\ UNCHANGED requests
        /\ drafts'[d].status = "refining" /\ \A e \in Drafts : e # d => drafts'[e] = drafts[e]
    BY <1>2, StartTaskIs
  <2>2. \A e \in Drafts : e # d => \A j \in Workers : Writes(j, e)' => Writes(j, e)
    BY <1>2, OtherWriters DEF StartTask, TypeInv
  <2>3. \A e \in Drafts : e # d => SameDraft(e)
    BY <1>0, <2>1, <2>2 DEF SameDraft
  <2> QED
    BY <1>0, <2>1, <2>3, OneDraftMoves DEF Fresh
<1>3. ASSUME NEW d \in Drafts, NEW assets \in SUBSET Assets, NEW field \in Fields,
             Save(d, assets, field)
      PROVE  AccountInv'
  <2>1. /\ drafts[d].status \in Fresh /\ UNCHANGED <<tasks, requests>>
        /\ drafts'[d].status = "ready" /\ \A e \in Drafts : e # d => drafts'[e] = drafts[e]
    BY <1>3, SaveIs DEF Save, Fresh
  <2>2. \A e \in Drafts : e # d => SameDraft(e)
    BY <1>0, <2>1 DEF SameDraft, Writes
  <2> QED
    BY <1>0, <2>1, <2>2, OneDraftMoves DEF Fresh
<1>4. ASSUME NEW d \in Drafts, NEW e \in Drafts, NEW kept \in SUBSET Assets, Split(d, e, kept)
      PROVE  AccountInv'
  <2>1. /\ drafts[d].status \in Fresh /\ drafts[e].status \in Fresh
        /\ UNCHANGED <<tasks, requests>>
        /\ drafts'[d].status = "ready" /\ drafts'[e].status = "ready"
        /\ \A f \in Drafts \ {d, e} : drafts'[f] = drafts[f]
    BY <1>4, SplitIs DEF Split, Fresh
  <2>2. \A f \in {d, e} : DraftInv(f)'
    BY <1>0, <2>1 DEF AccountInv, DraftInv, Made, Fresh
  <2>3. \A f \in Drafts \ {d, e} : SameDraft(f)
    BY <1>0, <2>1 DEF SameDraft, Writes
  <2>4. \A r \in Requests : Marked(r)' =>
          /\ Marked(r) /\ requests'[r] = requests[r]
          /\ requests[r].draft \notin {d, e} \/ requests[r].draft \in rushed'
    BY <1>0, <2>1 DEF AccountInv, Phase, Marked, Submitting, Fresh
  <2>5. \A q, r \in Requests :
          Marked(q)' /\ Marked(r)' /\ requests'[q].draft \in {d, e} \ rushed'
            /\ requests'[q].draft = requests'[r].draft => q = r
    BY <2>4
  <2> QED
    BY <1>0, <2>2, <2>3, <2>4, <2>5, OthersStay
<1>5. ASSUME NEW d \in Drafts, Delete(d) PROVE AccountInv'
  <2>1. /\ drafts'[d].status = "deleted" /\ UNCHANGED <<tasks, requests>>
        /\ drafts[d].status # "submitted" /\ \A e \in Drafts : e # d => drafts'[e] = drafts[e]
    BY <1>5 DEF Delete, TypeInv, DraftRows, InFlight
  <2>2. \A e \in Drafts : e # d => SameDraft(e)
    BY <1>0, <2>1 DEF SameDraft, Writes
  <2> QED
    BY <1>0, <2>1, <2>2, OneDraftMoves DEF Fresh
<1>6. ASSUME NEW d \in Drafts, NEW r \in Requests, BeginSubmit(r, d) PROVE AccountInv'
  <2>1. /\ requests'[r].stage = "read" /\ \A q \in Requests : q # r => requests'[q] = requests[q]
    BY <1>6, SubmitBegins DEF BeginSubmitIs
  <2>2. \A e \in Drafts : SameDraft(e)
    BY <1>6 DEF BeginSubmit, SameDraft, Writes
  <2>3. \A q \in Requests : Marked(q)' => Marked(q) /\ requests'[q] = requests[q]
    BY <2>1 DEF Marked, Submitting
  <2> QED
    BY <1>0, <2>2, <2>3, NothingMarked
<1>7. {} \in SUBSET Assets /\ Blank \in Fields /\ "refine" \in Kinds /\ "controlm" \in Kinds
  BY DEF Fields, Kinds
<1> QED
  BY <1>1, <1>2, <1>3, <1>4, <1>5, <1>6, <1>7 DEF Review

\* A submit takes its draft and its project along from stage to stage.
LEMMA SubmitAccount == TypeInv /\ AccountInv /\ Submit => AccountInv'
<1> SUFFICES ASSUME TypeInv, AccountInv, Submit PROVE AccountInv'
  OBVIOUS
<1>1. ASSUME NEW r \in Requests, Marked(r)
      PROVE  requests[r].draft \in Drafts /\ Phase(r) /\ DraftInv(requests[r].draft)
  BY <1>1 DEF AccountInv, Marked, Submitting, Submits
\* The submit goes on to a stage that its draft and project are in.
<1>2. ASSUME NEW r \in Requests, NEW stage \in SubmitStages \ {"read"}, Marked(r),
             Goto(r, stage), UNCHANGED <<drafts, tasks, rushed>>,
             NEW d \in Drafts, requests[r].draft = d,
             \A e \in Drafts : e # d => own'[e] = own[e],
             d \notin rushed =>
               /\ Made(d, 0, 0)' \/ Made(d, 1, 0)' \/ Made(d, 0, 1)'
               /\ stage \in {"marked", "compared", "fields", "failing"} => Made(d, 0, 0)'
               /\ stage = "created" => Made(d, 1, 0)'
      PROVE  AccountInv'
  <2>1. MovesOn(r) /\ requests'[r].stage = stage /\ requests'[r].draft = d
    BY <1>2, GotoIs DEF Onwards, MovesOn, Marked, Submitting
  <2>2. d \notin rushed => drafts[d].status = "submitted" /\ \A k \in Workers : ~ Writes(k, d)
    BY <1>1, <1>2 DEF Phase, DraftInv
  <2>3. DraftInv(d)'
    BY <1>2, <2>2 DEF DraftInv, Fresh, Writes
  <2>4. Phase(r)'
    BY <1>2, <2>1, <2>2 DEF Phase
  <2>5. \A e \in Drafts : e # d => SameDraft(e)
    BY <1>2 DEF SameDraft, Writes
  <2> QED
    BY <1>2, <2>1, <2>3, <2>4, <2>5, SubmitGoesOn
\* The submit goes on, and neither drafts nor projects change.
<1>3. ASSUME NEW r \in Requests, NEW stage \in {"compared", "fields", "written", "failing"},
             requests[r] \in Submits, requests[r].stage \in {"marked", "compared", "fields"},
             Goto(r, stage), UNCHANGED <<drafts, tasks, own, rushed>>
      PROVE  AccountInv'
  <2>0. Marked(r)
    BY <1>3 DEF Marked, Submitting
  <2>1. PICK d \in Drafts : d = requests[r].draft
    BY <1>1, <2>0
  <2>2. d \notin rushed => Made(d, 0, 0)
    BY <1>1, <1>3, <2>0, <2>1 DEF Phase
  <2>3. stage \in SubmitStages \ {"read"}
    BY <1>3 DEF SubmitStages
  <2> QED
    BY <1>2, <1>3, <2>0, <2>1, <2>2, <2>3 DEF Made
<1>4. ASSUME NEW r \in Requests, Mark(r) PROVE AccountInv'
  <2>0. requests[r] \in Submits /\ requests[r].stage = "read"
    BY <1>4, AtSubmit DEF Mark
  <2>1. PICK d \in Drafts : d = requests[r].draft
    BY <2>0 DEF Submits
  <2>2. UNCHANGED <<tasks, own>>
    BY <1>4 DEF Mark
  <2>3. CASE drafts[d].status = "deleted"
    <3>1. Leave(r) /\ UNCHANGED <<drafts, rushed>>
      BY <1>4, <2>1, <2>3 DEF Mark
    <3>2. requests'[r] = Idle /\ \A q \in Requests : q # r => requests'[q] = requests[q]
      BY <3>1, LeaveIs
    <3>3. \A q \in Requests : Marked(q)' => Marked(q) /\ requests'[q] = requests[q]
      BY <3>2 DEF Marked, Submitting, Submits, Idle
    <3>4. \A e \in Drafts : SameDraft(e)
      BY <2>2, <3>1 DEF SameDraft, Writes
    <3> QED
      BY <3>1, <3>3, <3>4, NothingMarked
  <2>4. CASE drafts[d].status # "deleted"
    <3>1. /\ drafts' = [drafts EXCEPT ![d].status = "submitted"] /\ Goto(r, "marked")
          /\ rushed' = IF drafts[d].status = "ready" /\ Writers(d) = {} THEN rushed ELSE rushed \cup {d}
      BY <1>4, <2>1, <2>4 DEF Mark
    <3>2. drafts'[d].status = "submitted" /\ \A e \in Drafts : e # d => drafts'[e] = drafts[e]
      BY <3>1 DEF TypeInv, DraftRows
    <3>3. /\ requests'[r] \in Submits /\ requests'[r].stage = "marked" /\ requests'[r].draft = d
          /\ \A q \in Requests : q # r => requests'[q] = requests[q]
      BY <2>0, <2>1, <3>1, GotoIs DEF Onwards, SubmitStages
    <3>4. d \notin rushed' => /\ d \notin rushed /\ drafts[d].status = "ready"
                              /\ \A k \in Workers : ~ Writes(k, d)
      BY <3>1, WritersAre
    <3>5. d \notin rushed' => Made(d, 0, 0)'
      BY <2>2, <3>4 DEF AccountInv, DraftInv, Fresh, Made
    <3>6. \A q \in Requests : q # r /\ Marked(q)' =>
            /\ Marked(q) /\ requests'[q] = requests[q]
            /\ requests[q].draft \notin {d} \/ requests[q].draft \in rushed'
      BY <3>3, <3>4 DEF AccountInv, Phase, Marked, Submitting
    <3>7. DraftInv(d)' /\ Phase(r)'
      BY <2>2, <3>2, <3>3, <3>4, <3>5 DEF DraftInv, Phase, Fresh, Writes
    <3>8. \A e \in Drafts \ {d} : SameDraft(e)
      BY <2>2, <3>2 DEF SameDraft, Writes
    <3>9. rushed \subseteq rushed' /\ {d} \in SUBSET Drafts
      BY <3>1
    <3>10. \A q \in Requests : Marked(q)' =>
             \/ /\ Marked(q) /\ requests'[q] = requests[q]
                /\ requests[q].draft \notin {d} \/ requests[q].draft \in rushed'
             \/ requests'[q].draft \in {d} /\ Phase(q)'
      BY <3>3, <3>6, <3>7
    <3>11. \A p, q \in Requests : Marked(p)' /\ Marked(q)' /\ requests'[p].draft \in {d} \ rushed'
             /\ requests'[p].draft = requests'[q].draft => p = q
      BY <3>6
    <3> QED
      BY <3>7, <3>8, <3>9, <3>10, <3>11, OthersStay
  <2> QED
    BY <2>3, <2>4
<1>5. ASSUME NEW r \in Requests, CreateProject(r) PROVE AccountInv'
  <2>0. requests[r] \in Submits /\ requests[r].stage = "marked" /\ Marked(r)
    BY <1>5, AtSubmit DEF CreateProject, Marked, Submitting
  <2>1. PICK d \in Drafts : d = requests[r].draft
    BY <1>1, <2>0
  <2>2. d \notin rushed => Made(d, 0, 0)
    BY <1>1, <2>0, <2>1 DEF Phase
  <2>3. /\ own'[d].begun = own[d].begun + 1 /\ own'[d].whole = own[d].whole
        /\ \A e \in Drafts : e # d => own'[e] = own[e]
    BY <1>5, <2>1 DEF CreateProject, TypeInv, ProjectRows
  <2>4. d \notin rushed => Made(d, 1, 0)'
    BY <2>2, <2>3 DEF Made
  <2>5. Goto(r, "created") /\ UNCHANGED <<drafts, tasks, rushed>>
    BY <1>5 DEF CreateProject, history
  <2> QED
    BY <1>2, <2>0, <2>1, <2>3, <2>4, <2>5 DEF SubmitStages
<1>6. ASSUME NEW r \in Requests, Populate(r) PROVE AccountInv'
  <2>0. requests[r] \in Submits /\ requests[r].stage = "created" /\ Marked(r)
    BY <1>6, AtSubmit DEF Populate, Marked, Submitting
  <2>1. PICK d \in Drafts : d = requests[r].draft
    BY <1>1, <2>0
  <2> DEFINE row == [own[d] EXCEPT !.begun = own[d].begun - 1, !.whole = own[d].whole + 1]
  <2>2. d \notin rushed => Made(d, 1, 0)
    BY <1>1, <2>0, <2>1 DEF Phase
  <2>3. row.begun = own[d].begun - 1 /\ row.whole = own[d].whole + 1
    BY DEF TypeInv, ProjectRows
  <2>4. own' = [own EXCEPT ![d] = row]
    BY <1>6, <2>1 DEF Populate, TypeInv
  <2> HIDE DEF row
  <2>5. own'[d] = row /\ \A e \in Drafts : e # d => own'[e] = own[e]
    BY <2>4 DEF TypeInv
  <2>6. d \notin rushed => Made(d, 0, 1)'
    BY <2>2, <2>3, <2>5 DEF Made
  <2>7. Goto(r, "written") /\ UNCHANGED <<drafts, tasks, rushed>>
    BY <1>6 DEF Populate, history
  <2> QED
    BY <1>2, <2>0, <2>1, <2>5, <2>6, <2>7 DEF SubmitStages
<1>7. ASSUME NEW r \in Requests, NEW deleted \in BOOLEAN, FailPopulate(r, deleted) PROVE AccountInv'
  <2>0. requests[r] \in Submits /\ requests[r].stage = "created" /\ Marked(r)
    BY <1>7, AtSubmit DEF FailPopulate, Marked, Submitting
  <2>1. PICK d \in Drafts : d = requests[r].draft
    BY <1>1, <2>0
  <2> DEFINE row == Compensated(own[d], deleted)
  <2>2. d \notin rushed => Made(d, 1, 0)
    BY <1>1, <2>0, <2>1 DEF Phase
  <2>3. row.begun = own[d].begun - 1 /\ row.whole = own[d].whole
    BY CompensatedIs DEF TypeInv
  <2>4. own' = [own EXCEPT ![d] = row]
    BY <1>7, <2>1 DEF FailPopulate, TypeInv
  <2> HIDE DEF row
  <2>5. own'[d] = row /\ \A e \in Drafts : e # d => own'[e] = own[e]
    BY <2>4 DEF TypeInv
  <2>6. d \notin rushed => Made(d, 0, 0)'
    BY <2>2, <2>3, <2>5 DEF Made
  <2>7. Goto(r, "failing") /\ UNCHANGED <<drafts, tasks, rushed>>
    BY <1>7 DEF FailPopulate, history
  <2> QED
    BY <1>2, <2>0, <2>1, <2>5, <2>6, <2>7 DEF SubmitStages
<1>8. ASSUME NEW r \in Requests, Compare(r) PROVE AccountInv'
  <2>0. requests[r] \in Submits /\ requests[r].stage = "marked" /\ Marked(r)
    BY <1>8, AtSubmit DEF Compare, Marked, Submitting
  <2>1. PICK d \in Drafts : d = requests[r].draft
    BY <1>1, <2>0
  <2>2. DraftInv(d) /\ (d \notin rushed => drafts[d].status = "submitted" /\ Made(d, 0, 0))
    BY <1>1, <2>0, <2>1 DEF Phase
  <2>3. MovesOn(r) /\ requests'[r].stage = "compared" /\ requests'[r].draft = d
    BY <1>8, <2>0, <2>1, CompareIs DEF MovesOn
  <2>4. UNCHANGED <<drafts, tasks, own, rushed>>
    BY <1>8 DEF Compare, history
  <2>5. DraftInv(d)' /\ Phase(r)'
    BY <2>2, <2>3, <2>4 DEF DraftInv, Phase, Made, Writes
  <2>6. \A e \in Drafts : e # d => SameDraft(e)
    BY <2>4 DEF SameDraft, Writes
  <2> QED
    BY <2>0, <2>1, <2>3, <2>4, <2>5, <2>6, SubmitGoesOn
<1>9. ASSUME NEW r \in Requests, ApplyAssets(r) \/ ApplyFields(r) \/ FailSubmit(r) PROVE AccountInv'
  <2>1. requests[r] \in Submits /\ requests[r].stage \in {"marked", "compared", "fields"}
    BY <1>9, AtSubmit DEF ApplyAssets, ApplyFields, FailSubmit
  <2>2. PICK stage \in {"compared", "fields", "written", "failing"} : Goto(r, stage)
    BY <1>9 DEF ApplyAssets, ApplyFields, FailSubmit
  <2>3. UNCHANGED <<drafts, tasks, own, rushed>>
    BY <1>9 DEF ApplyAssets, ApplyFields, FailSubmit, history
  <2> QED
    BY <1>3, <2>1, <2>2, <2>3
<1>10. ASSUME NEW r \in Requests, Settle(r) PROVE AccountInv'
  <2>0. requests[r] \in Submits /\ requests[r].stage \in {"written", "failing"} /\ Marked(r)
    BY <1>10, AtSubmit DEF Settle, Marked, Submitting
  <2>1. PICK d \in Drafts : d = requests[r].draft
    BY <1>1, <2>0
  <2> DEFINE end == IF drafts[d].status = "deleted" THEN "deleted"
                    ELSE IF requests[r].stage = "written" THEN "completed" ELSE "failed"
             row == [drafts[d] EXCEPT !.status = end]
  <2>2. d \notin rushed => /\ DraftInv(d) /\ drafts[d].status = "submitted"
                           /\ requests[r].stage = "failing" => Made(d, 0, 0)
    BY <1>1, <2>0, <2>1 DEF Phase
  <2>3. drafts' = [drafts EXCEPT ![d] = row]
    BY <1>10, <2>1 DEF Settle, TypeInv, DraftRows
  <2>4. row.status = end
    BY DEF TypeInv, DraftRows
  <2> HIDE DEF row
  <2>5. drafts'[d].status = end /\ \A e \in Drafts : e # d => drafts'[e] = drafts[e]
    BY <2>3, <2>4 DEF TypeInv
  <2>6. Leave(r) /\ UNCHANGED <<tasks, own, rushed>>
    BY <1>10 DEF Settle, history
  <2>7. requests'[r] = Idle /\ requests' = [q \in Requests |-> IF q = r THEN Idle ELSE requests[q]]
    BY <2>6, LeaveIs
  <2>8. MovesOn(r) /\ ~ Marked(r)'
    BY <2>0, <2>7 DEF MovesOn, Marked, Submitting, Submits, Idle
  <2>9. DraftInv(d)'
    BY <2>0, <2>2, <2>5, <2>6 DEF DraftInv, Made, Fresh, Writes
  <2>10. \A e \in Drafts : e # d => SameDraft(e)
    BY <2>5, <2>6 DEF SameDraft, Writes
  <2> QED
    BY <2>0, <2>1, <2>6, <2>8, <2>9, <2>10, SubmitGoesOn
<1> QED
  BY <1>4, <1>5, <1>6, <1>7, <1>8, <1>9, <1>10 DEF Submit

\* Every step keeps the account.
LEMMA AccountStep == TypeInv /\ AccountInv /\ [Next]_vars => AccountInv'
<1> SUFFICES ASSUME TypeInv, AccountInv, [Next]_vars PROVE AccountInv'
  OBVIOUS
<1>1. ASSUME UNCHANGED <<drafts, tasks, own, rushed>>,
             \A q \in Requests : Marked(q)' => Marked(q) /\ requests'[q] = requests[q]
      PROVE  AccountInv'
  BY <1>1, NothingMarked DEF SameDraft, Writes
<1>2. CASE Confirm \/ People
  <2>1. UNCHANGED <<drafts, tasks, own, rushed>>
    BY <1>2, TokenTypes
  <2> QED
    BY <1>1, <1>2, <2>1, SubmitsStay DEF Marked, Submitting
<1>3. CASE Restart
  <2>1. /\ \A d \in Drafts : drafts'[d].status = drafts[d].status
        /\ \A k \in Workers : tasks'[k].stage = "idle"
        /\ \A r \in Requests : requests'[r] = Idle
        /\ UNCHANGED <<own, rushed>>
    BY <1>3, RestartTypes DEF NoTask
  <2>2. \A r \in Requests : ~ Marked(r)'
    BY <2>1 DEF Marked, Submitting, Submits, Idle
  <2>3. \A d \in Drafts : SameDraft(d)
    BY <2>1 DEF SameDraft, Writes
  <2> QED
    BY <2>1, <2>2, <2>3, NothingMarked
<1>4. CASE UNCHANGED vars
  BY <1>1, <1>4 DEF vars, history, Marked, Submitting
<1> QED
  BY <1>2, <1>3, <1>4, TaskAccount, ReviewAccount, SubmitAccount DEF Next

\* No draft has a project at first.
LEMMA AccountInit == Init => AccountInv
<1>1. Init => \A r \in Requests : ~ Marked(r)
  BY DEF Init, Marked, Submitting, Submits, Idle
<1>2. Init => \A d \in Drafts : DraftInv(d)
  BY DEF Init, DraftInv, Made, NoDraft
<1> QED
  BY <1>1, <1>2 DEF AccountInv

\* Whatever overlaps, a draft is made into at most one project, and has none while
\* it can still be submitted: what a failed submit began was deleted or reported
\* (submit.py), also across restarts.  The exception are drafts that a submit
\* marked when they were no longer ready, or while a task was yet to write them:
\* submit_draft takes no lock between its reading of the status and its mark.
THEOREM EveryProjectAccounted == Spec => []ProjectsAccounted
<1> DEFINE IInv == TypeInv /\ AccountInv
<1>1. Init => IInv
  BY InitTypes, AccountInit
<1>2. IInv /\ [Next]_vars => IInv'
  BY StepTypes, AccountStep
<1>3. AccountInv => ProjectsAccounted
  BY DEF AccountInv, DraftInv, Made, ProjectsAccounted, Fresh
<1> QED
  BY <1>1, <1>2, <1>3, PTL DEF Spec

-----------------------------------------------------------------------------
(***************************************************************************)
(* What was reviewed is kept                                               *)
(***************************************************************************)

\* A task that was not overtaken has what the row has, and an extraction that was
\* not works on a row that nobody has reviewed.
TaskInv(k) ==
  LET d == tasks[k].draft
  IN  tasks[k].stage # "idle" =>
        /\ drafts[d].status # "none"
        /\ k \notin overtaken /\ tasks[k].kind = "extract" => ~ drafts[d].edited
        /\ k \notin overtaken /\ tasks[k].stage = "working" =>
             tasks[k].assets = drafts[d].assets /\ tasks[k].field = drafts[d].field

FillInv ==
  /\ \A d \in Drafts : drafts[d].status = "none" => ~ drafts[d].edited
  /\ \A k \in Workers : TaskInv(k)

\* Task k is where it was, or over; and its draft says what it said, or k was
\* overtaken, or will read the draft again.
Unhurt(k) ==
  tasks'[k].stage # "idle" =>
    /\ tasks'[k] = tasks[k] /\ (k \in overtaken => k \in overtaken')
    /\ LET d == tasks[k].draft
       IN  /\ drafts'[d].status = "none" => drafts[d].status = "none"
           /\ SameContent(d) \/ k \in overtaken' \/ ~ Writes(k, d)

LEMMA UnhurtStays ==
  ASSUME FillInv, NEW k \in Workers, Unhurt(k)
  PROVE  TaskInv(k)'
BY DEF FillInv, TaskInv, Unhurt, SameContent, Writes

\* A step that begins no task: rows are written after their writers are noted.
LEMMA FillStays ==
  ASSUME TypeInv, FillInv,
         \A d \in Drafts : drafts'[d].status = "none" => drafts[d].status = "none" /\ SameContent(d),
         \A k \in Workers : tasks'[k].stage # "idle" => Unhurt(k)
  PROVE  FillInv'
<1>1. \A k \in Workers : TaskInv(k)'
  <2>1. ASSUME NEW k \in Workers PROVE Unhurt(k)
    BY <2>1 DEF Unhurt
  <2> QED
    BY <2>1, UnhurtStays
<1> QED
  BY <1>1 DEF FillInv, SameContent

\* A step that changes no task and notes the writers of what it changes.
LEMMA NotedStays ==
  ASSUME TypeInv, FillInv, UNCHANGED tasks, NEW D \in SUBSET Drafts,
         \A d \in Drafts : drafts'[d].status = "none" => drafts[d].status = "none" /\ SameContent(d),
         \A d \in Drafts \ D : SameContent(d),
         \A d \in D, k \in Workers : Writes(k, d) => k \in overtaken',
         overtaken \subseteq overtaken'
  PROVE  FillInv'
<1>1. ASSUME NEW k \in Workers, tasks'[k].stage # "idle" PROVE Unhurt(k)
  <2>1. tasks[k].draft \in Drafts
    BY <1>1, TaskIs
  <2> QED
    BY <2>1 DEF Unhurt
<1> QED
  BY <1>1, FillStays

\* A step that changes no task and nothing the tasks have read.
LEMMA RowsStay ==
  ASSUME TypeInv, FillInv, UNCHANGED <<tasks, overtaken>>,
         \A d \in Drafts : SameContent(d) /\ (drafts'[d].status = "none" => drafts[d].status = "none")
  PROVE  FillInv'
<1>1. ASSUME NEW k \in Workers, tasks'[k].stage # "idle" PROVE Unhurt(k)
  <2>1. tasks[k].draft \in Drafts
    BY <1>1, TaskIs
  <2> QED
    BY <2>1 DEF Unhurt
<1> QED
  BY <1>1, FillStays

\* Background tasks keep the invariant.
LEMMA TaskFills ==
  ASSUME TypeInv, FillInv, Task
  PROVE  FillInv'
<1> SUFFICES ASSUME NEW k \in Workers,
                    \/ PickUp(k)
                    \/ \E found \in SUBSET Assets, offered \in Fields : Finish(k, found, offered)
                    \/ FailTask(k)
             PROVE  FillInv'
  BY DEF Task
<1>1. PICK d \in Drafts : d = tasks[k].draft
  BY TaskIs DEF PickUp, Finish, FailTask
<1>2. \A j \in Workers : j # k => tasks'[j] = tasks[j]
  BY TaskMoves
<1>3. CASE PickUp(k)
  <2>1. UNCHANGED drafts /\ tasks[k].stage = "queued"
    BY <1>3 DEF PickUp
  <2>2. ASSUME NEW j \in Workers, j # k PROVE TaskInv(j)'
    <3>1. j \in overtaken' <=> j \in overtaken
      BY <1>3, <2>2 DEF PickUp
    <3> QED
      BY <1>2, <2>1, <2>2, <3>1 DEF FillInv, TaskInv
  <2>3. TaskInv(k)'
    <3>1. CASE tasks' = [tasks EXCEPT ![k] = NoTask]
      BY <3>1 DEF TypeInv, NoTask, TaskInv
    <3>2. ASSUME NEW new, tasks' = [tasks EXCEPT ![k] = new], UNCHANGED overtaken,
                 new = [stage |-> "working", kind |-> tasks[k].kind, draft |-> d,
                        assets |-> drafts[d].assets, field |-> drafts[d].field]
          PROVE  TaskInv(k)'
      <4>1. tasks'[k] = new
        BY <3>2 DEF TypeInv
      <4>2. /\ new.kind = tasks[k].kind /\ new.draft = d
            /\ new.assets = drafts[d].assets /\ new.field = drafts[d].field
        BY <3>2
      <4>3. drafts[d].status # "none"
            /\ (k \notin overtaken /\ tasks[k].kind = "extract" => ~ drafts[d].edited)
        BY <1>1, <2>1 DEF FillInv, TaskInv
      <4> QED
        BY <2>1, <3>2, <4>1, <4>2, <4>3 DEF TaskInv
    <3> QED
      BY <1>1, <1>3, <3>1, <3>2 DEF PickUp
  <2> QED
    BY <2>1, <2>2, <2>3 DEF FillInv
\* The other tasks see what the task wrote, or are noted.
<1>4. ASSUME tasks'[k].stage = "idle", drafts'[d].status # "none",
             \A e \in Drafts : e # d => drafts'[e] = drafts[e],
             \/ SameContent(d) /\ overtaken' = overtaken \ {k}
             \/ overtaken' = (overtaken \cup Writers(d)) \ {k}
      PROVE  FillInv'
  <2>1. ASSUME NEW j \in Workers, tasks'[j].stage # "idle" PROVE Unhurt(j)
    <3>1. j # k /\ tasks'[j] = tasks[j] /\ tasks[j].draft \in Drafts
      BY <1>2, <1>4, <2>1, TaskIs
    <3>2. j \in overtaken => j \in overtaken'
      BY <1>4, <3>1
    <3>3. CASE tasks[j].draft # d
      BY <1>4, <3>1, <3>2, <3>3 DEF Unhurt, SameContent
    <3>4. CASE tasks[j].draft = d
      BY <1>4, <3>1, <3>2, <3>4, WritersAre DEF Unhurt
    <3> QED
      BY <3>3, <3>4
  <2>2. \A e \in Drafts : drafts'[e].status = "none" => drafts[e].status = "none" /\ SameContent(e)
    BY <1>4 DEF SameContent
  <2> QED
    BY <2>1, <2>2, FillStays
<1>5. CASE FailTask(k)
  <2>1. tasks'[k].stage = "idle" /\ overtaken' = overtaken \ {k} /\ drafts[d].status # "none"
    BY <1>1, <1>5 DEF FailTask, TypeInv, NoTask, FillInv, TaskInv
  <2> DEFINE row == [drafts[d] EXCEPT !.status = "failed"]
  <2>2. drafts' = drafts \/ drafts' = [drafts EXCEPT ![d] = row]
    BY <1>1, <1>5 DEF FailTask, StatusOnFailure
  <2>3. /\ row.status = "failed" /\ row.assets = drafts[d].assets /\ row.field = drafts[d].field
        /\ row.edited = drafts[d].edited
    BY DEF TypeInv, DraftRows
  <2> HIDE DEF row
  <2>4. /\ drafts'[d].status # "none" /\ SameContent(d)
        /\ \A e \in Drafts : e # d => drafts'[e] = drafts[e]
    BY <2>1, <2>2, <2>3 DEF TypeInv, SameContent
  <2> QED
    BY <1>4, <2>1, <2>4
<1>6. ASSUME NEW found \in SUBSET Assets, NEW offered \in Fields, Finish(k, found, offered)
      PROVE  FillInv'
  <2>1. tasks'[k].stage = "idle" /\ overtaken' = (overtaken \cup Writers(d)) \ {k}
    BY <1>1, <1>6 DEF Finish, TypeInv, NoTask
  <2>2. drafts'[d].status # "none" /\ \A e \in Drafts : e # d => drafts'[e] = drafts[e]
    <3>1. CASE drafts[d].status = "deleted"
      BY <1>1, <1>6, <3>1 DEF Finish
    <3>2. CASE drafts[d].status # "deleted"
      BY <1>1, <1>6, <3>2, FinishIs
    <3> QED
      BY <3>1, <3>2
  <2> QED
    BY <1>4, <2>1, <2>2
<1> QED
  BY <1>3, <1>5, <1>6

\* So do reviewers, whose writes overtake what is at work.
LEMMA ReviewFills ==
  ASSUME TypeInv, FillInv, Review
  PROVE  FillInv'
<1>1. ASSUME NEW d \in Drafts, NEW k \in Workers, NEW update \in BOOLEAN, CreateDraft(d, k, update)
      PROVE  FillInv'
  <2> DEFINE row == [drafts[d] EXCEPT !.status = "extracting", !.update = update]
             new == [stage |-> "queued", kind |-> "extract", draft |-> d]
  <2>1. /\ row.status = "extracting" /\ row.edited = drafts[d].edited
        /\ row.assets = drafts[d].assets /\ row.field = drafts[d].field
    BY DEF TypeInv, DraftRows
  <2>2. drafts' = [drafts EXCEPT ![d] = row] /\ tasks' = [tasks EXCEPT ![k] = new]
    BY <1>1 DEF CreateDraft, TypeInv
  <2>3. drafts[d].status = "none" /\ ~ drafts[d].edited /\ UNCHANGED overtaken
    BY <1>1 DEF CreateDraft, FillInv, history
  <2> HIDE DEF row
  <2>4. /\ drafts'[d].status = "extracting" /\ ~ drafts'[d].edited
        /\ \A e \in Drafts : SameContent(e) /\ (e # d => drafts'[e] = drafts[e])
    BY <2>1, <2>2, <2>3 DEF TypeInv, SameContent
  <2>5. new.draft = d /\ new.stage = "queued"
    OBVIOUS
  <2> HIDE DEF new
  <2>6. tasks'[k] = new /\ \A j \in Workers : j # k => tasks'[j] = tasks[j]
    BY <2>2 DEF TypeInv
  <2>7. TaskInv(k)'
    BY <2>4, <2>5, <2>6 DEF TaskInv
  <2>8. ASSUME NEW j \in Workers, j # k PROVE TaskInv(j)'
    <3>1. tasks[j].stage # "idle" => tasks[j].draft \in Drafts
      BY TaskIs
    <3> QED
      BY <2>3, <2>4, <2>6, <2>8, <3>1, UnhurtStays DEF Unhurt
  <2> QED
    BY <2>3, <2>4, <2>7, <2>8 DEF FillInv
<1>2. ASSUME NEW d \in Drafts, NEW k \in Workers, NEW kind \in {"refine", "controlm"},
             NEW assets \in SUBSET Assets, NEW field \in Fields, StartTask(d, k, kind, assets, field)
      PROVE  FillInv'
  <2> DEFINE new == [stage |-> "queued", kind |-> kind, draft |-> d]
  <2>1. /\ drafts'[d].status = "refining" /\ (kind # "refine" => SameContent(d))
        /\ \A e \in Drafts : e # d => drafts'[e] = drafts[e]
    BY <1>2, StartTaskIs DEF Kinds
  <2>2. tasks' = [tasks EXCEPT ![k] = new]
    BY <1>2 DEF StartTask
  <2>3. new.draft = d /\ new.stage = "queued" /\ new.kind # "extract"
    OBVIOUS
  <2> HIDE DEF new
  <2>4. tasks'[k] = new /\ \A j \in Workers : j # k => tasks'[j] = tasks[j]
    BY <2>2 DEF TypeInv
  <2>5. /\ kind = "refine" => overtaken' = overtaken \cup Writers(d)
        /\ kind # "refine" => UNCHANGED overtaken
    BY <1>2 DEF StartTask
  <2>6. TaskInv(k)'
    BY <2>1, <2>3, <2>4 DEF TaskInv
  <2>7. ASSUME NEW j \in Workers, j # k, tasks[j].stage # "idle" PROVE Unhurt(j)
    <3>1. tasks[j].draft \in Drafts /\ (j \in overtaken => j \in overtaken')
      BY <2>5, <2>7, TaskIs
    <3>2. CASE tasks[j].draft # d
      BY <2>1, <2>4, <2>7, <3>1, <3>2 DEF Unhurt, SameContent
    <3>3. CASE tasks[j].draft = d
      BY <2>1, <2>4, <2>5, <2>7, <3>1, <3>3, WritersAre DEF Unhurt
    <3> QED
      BY <3>2, <3>3
  <2>8. ASSUME NEW j \in Workers, j # k PROVE TaskInv(j)'
    <3>1. Unhurt(j)
      BY <2>4, <2>7, <2>8 DEF Unhurt
    <3> QED
      BY <3>1, UnhurtStays
  <2> QED
    BY <2>1, <2>6, <2>8 DEF FillInv
<1>3. ASSUME NEW d \in Drafts, NEW assets \in SUBSET Assets, NEW field \in Fields,
             Save(d, assets, field)
      PROVE  FillInv'
  <2>1. /\ UNCHANGED tasks /\ overtaken' = overtaken \cup Writers(d)
        /\ drafts'[d].status = "ready" /\ \A e \in Drafts : e # d => drafts'[e] = drafts[e]
    BY <1>3, SaveIs DEF Save
  <2>2. /\ \A e \in Drafts : drafts'[e].status = "none" => drafts[e].status = "none" /\ SameContent(e)
        /\ \A e \in Drafts \ {d} : SameContent(e)
    BY <2>1 DEF SameContent
  <2>3. \A e \in {d}, k \in Workers : Writes(k, e) => k \in overtaken'
    BY <2>1, WritersAre
  <2>4. {d} \in SUBSET Drafts /\ overtaken \subseteq overtaken'
    BY <2>1
  <2> QED
    BY <2>1, <2>2, <2>3, <2>4, NotedStays
<1>4. ASSUME NEW d \in Drafts, NEW e \in Drafts, NEW kept \in SUBSET Assets, Split(d, e, kept)
      PROVE  FillInv'
  <2>1. /\ UNCHANGED tasks /\ overtaken' = overtaken \cup Writers(d) /\ drafts[e].status = "none"
        /\ drafts'[d].status = "ready" /\ drafts'[e].status = "ready"
        /\ \A f \in Drafts \ {d, e} : drafts'[f] = drafts[f]
    BY <1>4, SplitIs DEF Split
  <2>2. /\ \A f \in Drafts : drafts'[f].status = "none" => drafts[f].status = "none" /\ SameContent(f)
        /\ \A f \in Drafts \ {d, e} : SameContent(f)
    BY <2>1 DEF SameContent
  <2>3. \A f \in {d, e}, k \in Workers : Writes(k, f) => k \in overtaken'
    BY <2>1, WritersAre DEF FillInv, TaskInv, Writes
  <2>4. {d, e} \in SUBSET Drafts /\ overtaken \subseteq overtaken'
    BY <2>1
  <2> QED
    BY <2>1, <2>2, <2>3, <2>4, NotedStays
<1>5. ASSUME NEW d \in Drafts, Delete(d) PROVE FillInv'
  <2> DEFINE row == [drafts[d] EXCEPT !.status = "deleted"]
  <2>1. drafts' = [drafts EXCEPT ![d] = row] /\ UNCHANGED <<tasks, overtaken>>
    BY <1>5 DEF Delete, history
  <2>2. /\ row.status = "deleted" /\ row.assets = drafts[d].assets /\ row.field = drafts[d].field
        /\ row.edited = drafts[d].edited
    BY DEF TypeInv, DraftRows
  <2> HIDE DEF row
  <2>3. \A e \in Drafts : SameContent(e) /\ (drafts'[e].status = "none" => drafts[e].status = "none")
    BY <2>1, <2>2 DEF TypeInv, SameContent
  <2> QED
    BY <2>1, <2>3, RowsStay
<1>6. ASSUME NEW d \in Drafts, NEW r \in Requests, BeginSubmit(r, d) PROVE FillInv'
  BY <1>6 DEF BeginSubmit, history, FillInv, TaskInv
<1>7. {} \in SUBSET Assets /\ Blank \in Fields
  BY DEF Fields
<1> QED
  BY <1>1, <1>2, <1>3, <1>4, <1>5, <1>6, <1>7 DEF Review

\* A submit changes statuses, and none to "none".
LEMMA SubmitContent ==
  ASSUME TypeInv, Submit
  PROVE  \A d \in Drafts : /\ SameContent(d) /\ drafts'[d].lost = drafts[d].lost
                           /\ drafts'[d].status = "none" => drafts[d].status = "none"
<1> DEFINE Kept == \A d \in Drafts : /\ SameContent(d) /\ drafts'[d].lost = drafts[d].lost
                                     /\ drafts'[d].status = "none" => drafts[d].status = "none"
<1>1. ASSUME NEW d \in Drafts, NEW status \in {"submitted", "completed", "failed", drafts[d].status},
             drafts' = [drafts EXCEPT ![d].status = status]
      PROVE  Kept
  <2> DEFINE row == [drafts[d] EXCEPT !.status = status]
  <2>1. /\ row.status = status /\ row.assets = drafts[d].assets /\ row.field = drafts[d].field
        /\ row.edited = drafts[d].edited /\ row.lost = drafts[d].lost
    BY DEF TypeInv, DraftRows
  <2>2. drafts' = [drafts EXCEPT ![d] = row]
    BY <1>1
  <2> HIDE DEF row
  <2> QED
    BY <1>1, <2>1, <2>2 DEF TypeInv, SameContent
<1>2. ASSUME UNCHANGED drafts PROVE Kept
  BY <1>2 DEF SameContent
<1> HIDE DEF Kept
<1>3. ASSUME NEW r \in Requests, Mark(r) PROVE Kept
  <2>1. requests[r].draft \in Drafts
    BY <1>3, AtSubmit DEF Mark
  <2> QED
    BY <1>1, <1>2, <1>3, <2>1 DEF Mark
<1>4. ASSUME NEW r \in Requests, Settle(r) PROVE Kept
  <2>1. PICK d \in Drafts : d = requests[r].draft
    BY <1>4, AtSubmit DEF Settle
  <2> DEFINE end == IF drafts[d].status = "deleted" THEN drafts[d].status
                    ELSE IF requests[r].stage = "written" THEN "completed" ELSE "failed"
  <2>2. drafts' = [drafts EXCEPT ![d].status = end]
    BY <1>4, <2>1 DEF Settle, TypeInv, DraftRows
  <2>3. end \in {"submitted", "completed", "failed", drafts[d].status}
    OBVIOUS
  <2> HIDE DEF end
  <2> QED
    BY <1>1, <2>2, <2>3
<1>5. ASSUME NEW r \in Requests,
             \/ CreateProject(r) \/ Populate(r) \/ Compare(r) \/ ApplyAssets(r) \/ ApplyFields(r)
             \/ FailSubmit(r) \/ \E deleted \in BOOLEAN : FailPopulate(r, deleted)
      PROVE  Kept
  BY <1>2, <1>5 DEF CreateProject, Populate, FailPopulate, Compare, ApplyAssets, ApplyFields, FailSubmit
<1>6. Kept
  BY <1>3, <1>4, <1>5 DEF Submit
<1> QED
  BY <1>6 DEF Kept

\* Every step keeps the invariant.
LEMMA FillStep == TypeInv /\ FillInv /\ [Next]_vars => FillInv'
<1> SUFFICES ASSUME TypeInv, FillInv, [Next]_vars PROVE FillInv'
  OBVIOUS
<1>1. ASSUME UNCHANGED <<drafts, tasks, overtaken>> PROVE FillInv'
  BY <1>1 DEF FillInv, TaskInv
<1>2. CASE Submit
  <2>1. UNCHANGED <<tasks, overtaken>>
    BY <1>2, SubmitTypes
  <2>2. \A d \in Drafts : SameContent(d) /\ (drafts'[d].status = "none" => drafts[d].status = "none")
    BY <1>2, SubmitContent
  <2> QED
    BY <2>1, <2>2, RowsStay
<1>3. CASE Restart
  <2>1. \A k \in Workers : tasks'[k].stage = "idle"
    BY <1>3, RestartTypes DEF NoTask
  <2>2. \A d \in Drafts : drafts'[d].status = drafts[d].status /\ SameContent(d)
    BY <1>3, RestartTypes
  <2> QED
    BY <2>1, <2>2, FillStays
<1>4. CASE Confirm \/ People
  BY <1>1, <1>4, TokenTypes
<1>5. CASE UNCHANGED vars
  BY <1>1, <1>5 DEF vars, history
<1> QED
  BY <1>2, <1>3, <1>4, <1>5, TaskFills, ReviewFills DEF Next

\* It holds at first.
LEMMA FillInit == Init => FillInv
BY DEF Init, FillInv, TaskInv, NoDraft, NoTask

\* A task that ends leaves what was reviewed, unless it was overtaken.
KeptBy(k) ==
  LET d == tasks[k].draft
  IN  k \notin overtaken /\ tasks[k].stage = "working" /\ tasks'[k].stage = "idle" /\ drafts[d].edited =>
        /\ drafts[d].assets \subseteq drafts'[d].assets
        /\ drafts[d].field \in {Blank, drafts'[d].field}

\* It does so in every step.
LEMMA KeptStep ==
  ASSUME TypeInv, FillInv, [Next]_vars, NEW k \in Workers
  PROVE  KeptBy(k)
<1>1. ASSUME tasks'[k] = tasks[k] PROVE KeptBy(k)
  BY <1>1 DEF KeptBy
<1>2. ASSUME \A d \in Drafts : SameContent(d) PROVE KeptBy(k)
  <2>1. tasks[k].stage # "idle" => tasks[k].draft \in Drafts
    BY TaskIs
  <2> QED
    BY <1>2, <2>1 DEF KeptBy, SameContent
<1>3. CASE Task
  <2> SUFFICES ASSUME NEW j \in Workers,
                      \/ PickUp(j)
                      \/ \E found \in SUBSET Assets, offered \in Fields : Finish(j, found, offered)
                      \/ FailTask(j)
               PROVE  KeptBy(k)
    BY <1>3 DEF Task
  <2>1. CASE j # k
    BY <1>1, <2>1, TaskMoves
  <2>2. CASE j = k /\ PickUp(k)
    BY <2>2 DEF PickUp, KeptBy
  <2>3. CASE j = k /\ FailTask(k)
    <3>1. PICK d \in Drafts : d = tasks[k].draft
      BY <2>3, TaskIs DEF FailTask
    <3>2. drafts' = drafts \/ drafts' = [drafts EXCEPT ![d].status = "failed"]
      BY <2>3, <3>1 DEF FailTask, StatusOnFailure
    <3>3. SameContent(d)
      BY <3>2 DEF TypeInv, DraftRows, SameContent
    <3> QED
      BY <3>1, <3>3 DEF KeptBy, SameContent
  <2>4. ASSUME j = k, NEW found \in SUBSET Assets, NEW offered \in Fields, Finish(k, found, offered)
        PROVE  KeptBy(k)
    <3>1. PICK d \in Drafts : d = tasks[k].draft
      BY <2>4, TaskIs DEF Finish
    <3>2. CASE drafts[d].status = "deleted"
      BY <2>4, <3>1, <3>2 DEF Finish, KeptBy
    <3>3. ASSUME drafts[d].status # "deleted", drafts[d].edited, k \notin overtaken PROVE KeptBy(k)
      <4>1. /\ tasks[k].stage = "working" /\ tasks[k].kind # "extract"
            /\ tasks[k].assets = drafts[d].assets /\ tasks[k].field = drafts[d].field
        BY <2>4, <3>1, <3>3 DEF Finish, FillInv, TaskInv
      <4>2. Answer(k, found, offered) = MergedPreserving(tasks[k], found, offered)
        BY <4>1 DEF Answer
      <4>3. /\ drafts'[d].assets = tasks[k].assets \cup found
            /\ drafts'[d].field = IF tasks[k].field # Blank THEN tasks[k].field ELSE offered
        BY <2>4, <3>1, <3>3, <4>2, FinishIs DEF MergedPreserving
      <4> QED
        BY <3>1, <4>1, <4>3 DEF KeptBy
    <3> QED
      BY <3>1, <3>2, <3>3 DEF KeptBy
  <2> QED
    BY <2>1, <2>2, <2>3, <2>4
<1>4. CASE Submit
  BY <1>1, <1>4, SubmitTypes
<1>5. CASE Confirm \/ People
  BY <1>1, <1>5, TokenTypes
<1>6. CASE Review
  <2>1. ASSUME NEW d \in Drafts, NEW j \in Workers, NEW kind, NEW assets, NEW field,
               StartTask(d, j, kind, assets, field)
        PROVE  KeptBy(k)
    BY <2>1 DEF StartTask, TypeInv, KeptBy
  <2>2. ASSUME NEW d \in Drafts, NEW j \in Workers, NEW update, CreateDraft(d, j, update) PROVE KeptBy(k)
    BY <2>2 DEF CreateDraft, TypeInv, KeptBy
  <2>3. ASSUME UNCHANGED tasks PROVE KeptBy(k)
    BY <1>1, <2>3
  <2> QED
    BY <1>6, <2>1, <2>2, <2>3 DEF Review, Save, Split, Delete, BeginSubmit
<1>7. CASE Restart
  BY <1>2, <1>7, RestartTypes
<1>8. CASE UNCHANGED vars
  BY <1>1, <1>8 DEF vars
<1> QED
  BY <1>3, <1>4, <1>5, <1>6, <1>7, <1>8 DEF Next

\* Whatever overlaps, fails and restarts, a task takes nothing from a draft its
\* reviewer has saved and changes no field that is set (merge_preserving), unless
\* the draft was written after the task had read it or before an extraction, which
\* does not read it, was through.
THEOREM ReviewedIsKept == Spec => ReviewedKept
<1> DEFINE IInv == TypeInv /\ FillInv
           AllKept == \A k \in Workers : KeptBy(k)
<1>1. Init => IInv
  BY InitTypes, FillInit
<1>2. IInv /\ [Next]_vars => IInv'
  BY StepTypes, FillStep
<1>3. IInv /\ [Next]_vars => AllKept
  BY KeptStep
<1>4. AllKept => \A k \in Workers \ overtaken :
        LET d == tasks[k].draft
        IN  tasks[k].stage = "working" /\ tasks'[k].stage = "idle" /\ drafts[d].edited =>
              /\ drafts[d].assets \subseteq drafts'[d].assets
              /\ drafts[d].field \in {Blank, drafts'[d].field}
  BY DEF KeptBy
<1> HIDE DEF AllKept
<1> QED
  BY <1>1, <1>2, <1>3, <1>4, PTL DEF Spec, ReviewedKept

-----------------------------------------------------------------------------
(***************************************************************************)
(* What is in flight is worked on                                          *)
(***************************************************************************)

Filling(k, d)    == tasks[k].stage # "idle" /\ tasks[k].draft = d
SubmitIsOf(r, d) == Submitting(r) /\ requests[r].draft = d

\* Draft d has what will take it out of its status.  Only an extraction goes on
\* whatever the status is; any task does while the draft is being refined.
HasWork(d) ==
  /\ drafts[d].status = "extracting" => \E k \in Workers : Filling(k, d) /\ tasks[k].kind = "extract"
  /\ drafts[d].status = "refining"   => \E k \in Workers : Filling(k, d)
  /\ drafts[d].status = "submitted"  => \E r \in Requests : SubmitIsOf(r, d)

WorkInv == \A d \in Drafts : drafts[d].lost \/ HasWork(d)

\* The step neither puts draft d into flight nor ends what works on it.
Alike(d) ==
  /\ drafts'[d].status = drafts[d].status /\ drafts'[d].lost = drafts[d].lost
  /\ \A k \in Workers : Filling(k, d) => Filling(k, d)' /\ tasks'[k].kind = tasks[k].kind
  /\ \A r \in Requests : SubmitIsOf(r, d) => SubmitIsOf(r, d)'

LEMMA WorkStays ==
  ASSUME WorkInv,
         \A d \in Drafts : Alike(d) \/ drafts'[d].lost \/ drafts'[d].status \notin InFlight \/ HasWork(d)'
  PROVE  WorkInv'
<1> SUFFICES ASSUME NEW d \in Drafts, ~ drafts'[d].lost PROVE HasWork(d)'
  BY DEF WorkInv
<1>1. CASE drafts'[d].status \notin InFlight
  BY <1>1 DEF HasWork, InFlight
<1>2. CASE Alike(d)
  <2>1. HasWork(d) /\ drafts'[d].status = drafts[d].status
    BY <1>2 DEF Alike, WorkInv
  <2>2. ASSUME drafts'[d].status = "extracting"
        PROVE  \E k \in Workers : Filling(k, d)' /\ tasks'[k].kind = "extract"
    BY <1>2, <2>1, <2>2 DEF HasWork, Alike
  <2>3. ASSUME drafts'[d].status = "refining" PROVE \E k \in Workers : Filling(k, d)'
    BY <1>2, <2>1, <2>3 DEF HasWork, Alike
  <2>4. ASSUME drafts'[d].status = "submitted" PROVE \E r \in Requests : SubmitIsOf(r, d)'
    BY <1>2, <2>1, <2>4 DEF HasWork, Alike
  <2> QED
    BY <2>2, <2>3, <2>4 DEF HasWork
<1> QED
  BY <1>1, <1>2

\* A task that ends takes its draft out of flight, unless it was not what it
\* waits for.
LEMMA TaskWorks ==
  ASSUME TypeInv, WorkInv, Task
  PROVE  WorkInv'
<1> SUFFICES ASSUME NEW k \in Workers,
                    \/ PickUp(k)
                    \/ \E found \in SUBSET Assets, offered \in Fields : Finish(k, found, offered)
                    \/ FailTask(k)
             PROVE  WorkInv'
  BY DEF Task
<1>1. PICK d \in Drafts : d = tasks[k].draft
  BY TaskIs DEF PickUp, Finish, FailTask
<1>2. UNCHANGED requests /\ \A j \in Workers : j # k => tasks'[j] = tasks[j]
  BY TaskMoves DEF PickUp, Finish, FailTask
<1>3. ASSUME NEW e \in Drafts, e # d, drafts'[e] = drafts[e] PROVE Alike(e)
  BY <1>1, <1>2, <1>3 DEF Alike, Filling, SubmitIsOf, Submitting
<1>4. CASE PickUp(k)
  <2>1. UNCHANGED drafts
    BY <1>4 DEF PickUp
  <2>2. ASSUME drafts[d].status = "refining" \/ (drafts[d].status # "deleted" /\ tasks[k].kind = "extract")
        PROVE  Alike(d)
    <3> DEFINE new == [stage |-> "working", kind |-> tasks[k].kind, draft |-> tasks[k].draft,
                       assets |-> drafts[d].assets, field |-> drafts[d].field]
    <3>1. tasks' = [tasks EXCEPT ![k] = new]
      BY <1>1, <1>4, <2>2 DEF PickUp
    <3>2. new.stage = "working" /\ new.kind = tasks[k].kind /\ new.draft = d
      BY <1>1
    <3> HIDE DEF new
    <3>3. tasks'[k] = new
      BY <3>1 DEF TypeInv
    <3> QED
      BY <1>1, <1>2, <2>1, <3>2, <3>3 DEF Alike, Filling, SubmitIsOf, Submitting
  <2>3. ASSUME drafts[d].status \in {"extracting", "submitted"}, tasks[k].kind # "extract"
        PROVE  drafts[d].lost \/ HasWork(d)'
    BY <1>1, <1>2, <2>1, <2>3 DEF WorkInv, HasWork, Filling, SubmitIsOf, Submitting
  <2> QED
    BY <1>3, <2>1, <2>2, <2>3, WorkStays DEF InFlight
<1>5. CASE FailTask(k)
  <2>1. CASE drafts[d].status = "deleted"
    <3>1. UNCHANGED drafts
      BY <1>1, <1>5, <2>1 DEF FailTask
    <3> QED
      BY <1>3, <2>1, <3>1, WorkStays DEF InFlight
  <2>2. CASE drafts[d].status # "deleted"
    <3> DEFINE row == [drafts[d] EXCEPT !.status = "failed"]
    <3>1. drafts' = [drafts EXCEPT ![d] = row]
      BY <1>1, <1>5, <2>2 DEF FailTask, StatusOnFailure
    <3>2. row.status = "failed"
      BY DEF TypeInv, DraftRows
    <3> HIDE DEF row
    <3>3. drafts'[d].status = "failed" /\ \A e \in Drafts : e # d => drafts'[e] = drafts[e]
      BY <3>1, <3>2 DEF TypeInv
    <3> QED
      BY <1>3, <3>3, WorkStays DEF InFlight
  <2> QED
    BY <2>1, <2>2
<1>6. ASSUME NEW found \in SUBSET Assets, NEW offered \in Fields, Finish(k, found, offered)
      PROVE  WorkInv'
  <2>1. CASE drafts[d].status = "deleted"
    <3>1. UNCHANGED drafts
      BY <1>1, <1>6, <2>1 DEF Finish
    <3> QED
      BY <1>3, <2>1, <3>1, WorkStays DEF InFlight
  <2>2. CASE drafts[d].status # "deleted"
    <3>1. drafts'[d].status = "ready" /\ \A e \in Drafts : e # d => drafts'[e] = drafts[e]
      BY <1>1, <1>6, <2>2, FinishIs
    <3> QED
      BY <1>3, <3>1, WorkStays DEF InFlight
  <2> QED
    BY <2>1, <2>2
<1> QED
  BY <1>4, <1>5, <1>6

\* A draft comes to be filled only with its task, and people take none away.
LEMMA ReviewWorks ==
  ASSUME TypeInv, WorkInv, Review
  PROVE  WorkInv'
<1>1. ASSUME NEW e \in Drafts, drafts'[e] = drafts[e], UNCHANGED <<tasks, requests>> PROVE Alike(e)
  BY <1>1 DEF Alike, Filling, SubmitIsOf, Submitting
\* A worker that was idle is given draft d.
<1>2. ASSUME NEW d \in Drafts, NEW k \in Workers, NEW new, tasks[k].stage = "idle",
             tasks' = [tasks EXCEPT ![k] = new], new.stage = "queued", new.draft = d, UNCHANGED requests,
             \/ drafts'[d].status = "refining"
             \/ drafts'[d].status = "extracting" /\ new.kind = "extract",
             \A e \in Drafts : e # d => drafts'[e] = drafts[e]
      PROVE  WorkInv'
  <2>1. tasks'[k] = new /\ \A j \in Workers : j # k => tasks'[j] = tasks[j]
    BY <1>2 DEF TypeInv
  <2>2. HasWork(d)'
    BY <1>2, <2>1 DEF HasWork, Filling
  <2>3. \A e \in Drafts : e # d => Alike(e)
    BY <1>2, <2>1 DEF Alike, Filling, SubmitIsOf, Submitting
  <2> QED
    BY <2>2, <2>3, WorkStays
<1>3. ASSUME NEW d \in Drafts, NEW k \in Workers, NEW update \in BOOLEAN, CreateDraft(d, k, update)
      PROVE  WorkInv'
  <2> DEFINE row == [drafts[d] EXCEPT !.status = "extracting", !.update = update]
             new == [stage |-> "queued", kind |-> "extract", draft |-> d]
  <2>1. row.status = "extracting"
    BY DEF TypeInv, DraftRows
  <2>2. drafts' = [drafts EXCEPT ![d] = row]
    BY <1>3 DEF CreateDraft, TypeInv
  <2> HIDE DEF row
  <2>3. drafts'[d].status = "extracting" /\ \A e \in Drafts : e # d => drafts'[e] = drafts[e]
    BY <2>1, <2>2 DEF TypeInv
  <2>4. /\ tasks[k].stage = "idle" /\ UNCHANGED requests
        /\ tasks' = [tasks EXCEPT ![k] = new]
    BY <1>3 DEF CreateDraft
  <2>5. new.stage = "queued" /\ new.draft = d /\ new.kind = "extract"
    OBVIOUS
  <2> HIDE DEF new
  <2> QED
    BY <1>2, <2>3, <2>4, <2>5
<1>4. ASSUME NEW d \in Drafts, NEW k \in Workers, NEW kind \in Kinds, NEW assets \in SUBSET Assets,
             NEW field \in Fields, StartTask(d, k, kind, assets, field)
      PROVE  WorkInv'
  <2> DEFINE new == [stage |-> "queued", kind |-> kind, draft |-> d]
  <2>1. drafts'[d].status = "refining" /\ \A e \in Drafts : e # d => drafts'[e] = drafts[e]
    BY <1>4, StartTaskIs
  <2>2. /\ tasks[k].stage = "idle" /\ UNCHANGED requests
        /\ tasks' = [tasks EXCEPT ![k] = new]
    BY <1>4 DEF StartTask
  <2>3. new.stage = "queued" /\ new.draft = d
    OBVIOUS
  <2> HIDE DEF new
  <2> QED
    BY <1>2, <2>1, <2>2, <2>3
<1>5. ASSUME NEW d \in Drafts, NEW assets \in SUBSET Assets, NEW field \in Fields,
             Save(d, assets, field)
      PROVE  WorkInv'
  BY <1>1, <1>5, SaveIs, WorkStays DEF Save, InFlight
<1>6. ASSUME NEW d \in Drafts, NEW e \in Drafts, NEW kept \in SUBSET Assets, Split(d, e, kept)
      PROVE  WorkInv'
  <2>1. \A f \in {d, e} : drafts'[f].status \notin InFlight
    BY <1>6, SplitIs DEF InFlight
  <2>2. \A f \in Drafts \ {d, e} : Alike(f)
    BY <1>1, <1>6, SplitIs DEF Split
  <2> QED
    BY <2>1, <2>2, WorkStays
<1>7. ASSUME NEW d \in Drafts, Delete(d) PROVE WorkInv'
  <2>1. /\ drafts'[d].status = "deleted" /\ \A e \in Drafts : e # d => drafts'[e] = drafts[e]
        /\ UNCHANGED <<tasks, requests>>
    BY <1>7 DEF Delete, TypeInv, DraftRows
  <2> QED
    BY <1>1, <2>1, WorkStays DEF InFlight
<1>8. ASSUME NEW d \in Drafts, NEW r \in Requests, BeginSubmit(r, d) PROVE WorkInv'
  <2>1. requests[r] = Idle /\ UNCHANGED <<drafts, tasks>>
    BY <1>8, Stages DEF BeginSubmit
  <2>2. \A q \in Requests : q # r => requests'[q] = requests[q]
    BY <1>8, SubmitBegins DEF BeginSubmitIs
  <2>3. \A e \in Drafts : Alike(e)
    BY <2>1, <2>2 DEF Alike, Filling, SubmitIsOf, Submitting, Submits, Idle
  <2> QED
    BY <2>3, WorkStays
<1>9. {} \in SUBSET Assets /\ Blank \in Fields /\ "refine" \in Kinds /\ "controlm" \in Kinds
  BY DEF Fields, Kinds
<1> QED
  BY <1>3, <1>4, <1>5, <1>6, <1>7, <1>8, <1>9 DEF Review

\* The submit r of draft d moves: on, or out of the draft's status.
SubmitStep(r, d) ==
  /\ Submitting(r) /\ requests[r].draft = d
  /\ \A q \in Requests : q # r => requests'[q] = requests[q]
  /\ \A e \in Drafts : e # d => drafts'[e].status = drafts[e].status
  /\ drafts'[d].status \in {drafts[d].status, "submitted", "completed", "failed"}
  /\ SubmitIsOf(r, d)' \/ drafts'[d].status \notin InFlight

LEMMA SubmitSteps ==
  ASSUME TypeInv, Submit
  PROVE  \E r \in Requests, d \in Drafts : SubmitStep(r, d)
<1>1. ASSUME NEW r \in Requests, requests[r] \in Submits, NEW stage \in SubmitStages, Goto(r, stage),
             NEW d \in Drafts, d = requests[r].draft,
             UNCHANGED drafts \/ drafts' = [drafts EXCEPT ![d].status = "submitted"]
      PROVE  SubmitStep(r, d)
  <2>1. /\ requests'[r] \in Submits /\ requests'[r].draft = d
        /\ \A q \in Requests : q # r => requests'[q] = requests[q]
    BY <1>1, GotoIs DEF Onwards
  <2>2. /\ drafts'[d].status \in {drafts[d].status, "submitted"}
        /\ \A e \in Drafts : e # d => drafts'[e].status = drafts[e].status
    BY <1>1 DEF TypeInv, DraftRows
  <2> QED
    BY <1>1, <2>1, <2>2 DEF SubmitStep, Submitting, SubmitIsOf
<1>2. ASSUME NEW r \in Requests, requests[r] \in Submits, Leave(r),
             NEW d \in Drafts, d = requests[r].draft,
             NEW status \in {"deleted", "completed", "failed"},
             drafts' = [drafts EXCEPT ![d].status = status],
             status = "deleted" => drafts[d].status = "deleted"
      PROVE  SubmitStep(r, d)
  <2>1. \A q \in Requests : q # r => requests'[q] = requests[q]
    BY <1>2, LeaveIs
  <2>2. drafts'[d].status = status /\ \A e \in Drafts : e # d => drafts'[e].status = drafts[e].status
    BY <1>2 DEF TypeInv, DraftRows
  <2> QED
    BY <1>2, <2>1, <2>2 DEF SubmitStep, Submitting, InFlight
<1>3. PICK r \in Requests :
        \/ Mark(r) \/ CreateProject(r) \/ Populate(r)
        \/ \E deleted \in BOOLEAN : FailPopulate(r, deleted)
        \/ Compare(r) \/ ApplyAssets(r) \/ ApplyFields(r) \/ FailSubmit(r) \/ Settle(r)
  BY DEF Submit
<1>4. PICK d \in Drafts : d = requests[r].draft
  BY <1>3, AtSubmit DEF Mark, CreateProject, Populate, FailPopulate, Compare, ApplyAssets,
       ApplyFields, FailSubmit, Settle
<1>5. requests[r] \in Submits
  BY <1>3, AtSubmit DEF Mark, CreateProject, Populate, FailPopulate, Compare, ApplyAssets,
       ApplyFields, FailSubmit, Settle
<1>6. CASE Mark(r)
  <2>1. CASE drafts[d].status = "deleted"
    <3>1. Leave(r) /\ drafts' = [drafts EXCEPT ![d].status = "deleted"]
      BY <1>4, <1>6, <2>1 DEF Mark, TypeInv, DraftRows
    <3> QED
      BY <1>2, <1>4, <1>5, <2>1, <3>1
  <2>2. CASE drafts[d].status # "deleted"
    BY <1>1, <1>4, <1>5, <1>6, <2>2 DEF Mark, SubmitStages
  <2> QED
    BY <2>1, <2>2
<1>7. CASE Compare(r)
  <2>1. /\ requests'[r] \in Submits /\ requests'[r].draft = d /\ UNCHANGED drafts
        /\ \A q \in Requests : q # r => requests'[q] = requests[q]
    BY <1>4, <1>7, CompareIs DEF Compare
  <2> QED
    BY <1>4, <1>5, <2>1 DEF SubmitStep, Submitting, SubmitIsOf
<1>8. CASE Settle(r)
  <2> DEFINE end == IF drafts[d].status = "deleted" THEN "deleted"
                    ELSE IF requests[r].stage = "written" THEN "completed" ELSE "failed"
  <2>1. drafts' = [drafts EXCEPT ![d].status = end] /\ Leave(r)
    BY <1>4, <1>8 DEF Settle, TypeInv, DraftRows
  <2>2. end \in {"deleted", "completed", "failed"} /\ (end = "deleted" => drafts[d].status = "deleted")
    OBVIOUS
  <2> HIDE DEF end
  <2> QED
    BY <1>2, <1>4, <1>5, <2>1, <2>2
<1>9. ASSUME \/ CreateProject(r) \/ Populate(r) \/ ApplyAssets(r) \/ ApplyFields(r) \/ FailSubmit(r)
             \/ \E deleted \in BOOLEAN : FailPopulate(r, deleted)
      PROVE  SubmitStep(r, d)
  <2>1. UNCHANGED drafts /\ \E stage \in SubmitStages : Goto(r, stage)
    BY <1>9 DEF CreateProject, Populate, ApplyAssets, ApplyFields, FailSubmit, FailPopulate, SubmitStages
  <2> QED
    BY <1>1, <1>4, <1>5, <2>1
<1> QED
  BY <1>3, <1>6, <1>7, <1>8, <1>9

\* A submit that ends takes its draft out of flight.
LEMMA SubmitWorks ==
  ASSUME TypeInv, WorkInv, Submit
  PROVE  WorkInv'
<1>1. PICK r \in Requests, d \in Drafts : SubmitStep(r, d)
  BY SubmitSteps
<1>2. UNCHANGED tasks /\ \A e \in Drafts : drafts'[e].lost = drafts[e].lost
  BY SubmitTypes, SubmitContent
<1>3. ASSUME NEW e \in Drafts, e # d PROVE Alike(e)
  BY <1>1, <1>2, <1>3 DEF SubmitStep, Alike, Filling, SubmitIsOf, Submitting
<1>4. ASSUME SubmitIsOf(r, d)', drafts'[d].status = drafts[d].status PROVE Alike(d)
  BY <1>1, <1>2, <1>4 DEF SubmitStep, Alike, Filling, SubmitIsOf, Submitting
<1>5. ASSUME SubmitIsOf(r, d)', drafts'[d].status = "submitted" PROVE HasWork(d)'
  BY <1>5 DEF HasWork
<1>6. Alike(d) \/ drafts'[d].status \notin InFlight \/ HasWork(d)'
  BY <1>1, <1>4, <1>5 DEF SubmitStep, InFlight
<1> QED
  BY <1>3, <1>6, WorkStays

\* Every step keeps the invariant; a restart marks what it takes.
LEMMA WorkStep == TypeInv /\ WorkInv /\ [Next]_vars => WorkInv'
<1> SUFFICES ASSUME TypeInv, WorkInv, [Next]_vars PROVE WorkInv'
  OBVIOUS
<1>1. CASE Restart
  <2>1. ASSUME NEW d \in Drafts PROVE drafts'[d].lost \/ drafts'[d].status \notin InFlight
    <3>1. /\ drafts'[d].status = drafts[d].status
          /\ drafts'[d].lost = (drafts[d].lost \/ TaskOf(d) # {} \/ SubmitOf(d))
      BY <1>1, RestartTypes
    <3>2. ASSUME NEW k \in Workers, Filling(k, d) PROVE TaskOf(d) # {}
      BY <3>2 DEF TaskOf, Filling
    <3>3. ASSUME NEW r \in Requests, SubmitIsOf(r, d) PROVE SubmitOf(d)
      BY <3>3 DEF SubmitOf, SubmitIsOf, Submitting, Submits, SubmitStages, Work
    <3> QED
      BY <3>1, <3>2, <3>3 DEF WorkInv, HasWork, InFlight
  <2> QED
    BY <2>1, WorkStays
<1>2. CASE Confirm \/ People
  <2>1. \A d \in Drafts : Alike(d)
    BY <1>2, TokenTypes, SubmitsStay DEF Alike, Filling, SubmitIsOf, Submitting
  <2> QED
    BY <2>1, WorkStays
<1>3. CASE UNCHANGED vars
  BY <1>3 DEF vars, WorkInv, HasWork, Filling, SubmitIsOf, Submitting
<1> QED
  BY <1>1, <1>2, <1>3, TaskWorks, ReviewWorks, SubmitWorks DEF Next

\* Nothing is in flight at first.
LEMMA WorkInit == Init => WorkInv
BY DEF Init, WorkInv, HasWork, NoDraft

\* What the invariant says of a draft.
LEMMA WorkIs == TypeInv /\ WorkInv => InFlightIsWorkedOn
<1> SUFFICES ASSUME TypeInv, WorkInv, NEW d \in Drafts, drafts[d].status \in InFlight, ~ drafts[d].lost
             PROVE  IF drafts[d].status = "submitted" THEN SubmitOf(d) ELSE TaskOf(d) # {}
  BY DEF InFlightIsWorkedOn
<1>1. ASSUME NEW k \in Workers, Filling(k, d) PROVE TaskOf(d) # {}
  BY <1>1 DEF TaskOf, Filling
<1>2. ASSUME NEW r \in Requests, SubmitIsOf(r, d) PROVE SubmitOf(d)
  BY <1>2 DEF SubmitOf, SubmitIsOf, Submitting, Submits, SubmitStages, Work
<1> QED
  BY <1>1, <1>2 DEF WorkInv, HasWork, InFlight

\* Whatever overlaps and fails, a draft shown as being filled or submitted has the
\* task or the submit that will end it, unless a restart took it: no task is left
\* out by a save, a split or a submit that crosses it (delete_draft refuses such a
\* draft until it ends).
THEOREM InFlightHasWork == Spec => []InFlightIsWorkedOn
<1> DEFINE IInv == TypeInv /\ WorkInv
<1>1. Init => IInv
  BY InitTypes, WorkInit
<1>2. IInv /\ [Next]_vars => IInv'
  BY StepTypes, WorkStep
<1>3. IInv => InFlightIsWorkedOn
  BY WorkIs
<1> QED
  BY <1>1, <1>2, <1>3, PTL DEF Spec
=============================================================================
