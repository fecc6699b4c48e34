----------------------------- MODULE AgentDrafts -----------------------------
(***************************************************************************)
(* What the agent prepares and a person lets happen: onboarding drafts     *)
(* (draft_service.py, onboarding_graph.py, submit.py, project_update.py)   *)
(* and write proposals (write.py, write_proposal_store.py,                 *)
(* agent_actions.py).                                                      *)
(*                                                                         *)
(* A draft is filled by background tasks, edited by its reviewer and       *)
(* submitted by a request of several transactions: into a project of its   *)
(* own, or into a project that exists.  A proposal waits under a token for *)
(* a confirmation.  Faults: tasks, writes and the compensation of a        *)
(* submit that fail; restarts of the server, which lose what is under way. *)
(***************************************************************************)
EXTENDS Naturals, FiniteSets

CONSTANTS Drafts,    \* identities of onboarding drafts
          Assets,    \* jobs and applications, by the keys they are matched on
          Flawed,    \* those of them that validation refuses
          Values,    \* what a project field may be set to
          Blank,     \* the field is not set
          Tokens,    \* confirm tokens
          Workers,   \* background tasks that may be at work at once
          Requests,  \* submits and confirms that may be under way at once
          MaxSteps   \* bound on the requests of a behaviour

ASSUME AgentAssumption == /\ Flawed \subseteq Assets /\ Blank \notin Values
                          /\ MaxSteps \in Nat

VARIABLES
  drafts,     \* the onboarding_drafts table
  tasks,      \* the background tasks under way
  requests,   \* submits and confirms under way
  own,        \* the projects made from each draft, by how far they got
  target,     \* the project that update drafts are for
  tokens,     \* the agent_write_proposals table, and how often each was written
  rushed,     \* history: drafts submitted on a row or beside a task they should not
  raced,      \* history: assets added while an update that adds them was under way
  overtaken,  \* history: tasks whose draft was written since they read it
  steps       \* requests so far

history == <<rushed, raced, overtaken>>
vars == <<drafts, tasks, requests, own, target, tokens, history, steps>>

Fields == Values \cup {Blank}
\* update: for the target project.  split: part of a split group.  edited: saved
\* by its reviewer.  lost: a restart lost its task or its submit.
NoDraft == [status |-> "none", update |-> FALSE, split |-> FALSE, assets |-> {}, field |-> Blank,
            edited |-> FALSE, lost |-> FALSE]
NoTask  == [stage |-> "idle"]
Idle    == [stage |-> "idle"]

Init ==
  /\ drafts = [d \in Drafts |-> NoDraft]
  /\ tasks = [k \in Workers |-> NoTask]
  /\ requests = [r \in Requests |-> Idle]
  /\ own = [d \in Drafts |-> [begun |-> 0, whole |-> 0, orphaned |-> 0]]
  /\ target = [copies |-> [a \in Assets |-> 0], field |-> Blank, setBy |-> "nobody"]
  /\ tokens = [t \in Tokens |-> [state |-> "none", value |-> Blank, writes |-> 0]]
  /\ rushed = {} /\ raced = {} /\ overtaken = {}
  /\ steps = 0

OnTarget == {a \in Assets : target.copies[a] > 0}

Work(r) == requests[r].stage # "idle"

\* A submit of draft d is under way; a background task is.
SubmitOf(d) == \E r \in Requests : Work(r) /\ requests[r].op = "submit" /\ requests[r].draft = d
TaskOf(d)   == {k \in Workers : tasks[k].stage # "idle" /\ tasks[k].draft = d}

\* The tasks that will write draft d without reading its row again: those that
\* have read it, and an extraction, which has no use for what the row says.
Writers(d) == {k \in TaskOf(d) : tasks[k].stage = "working" \/ tasks[k].kind = "extract"}

Counted == steps < MaxSteps /\ steps' = steps + 1

-----------------------------------------------------------------------------
(***************************************************************************)
(* Drafts and the tasks that fill them                                     *)
(***************************************************************************)

\* POST /onboarding-drafts: for a new project, or for the target project.
CreateDraft(d, k, update) ==
  /\ Counted
  /\ drafts[d].status = "none" /\ tasks[k].stage = "idle"
  /\ drafts' = [drafts EXCEPT ![d].status = "extracting", ![d].update = update]
  /\ tasks' = [tasks EXCEPT ![k] = [stage |-> "queued", kind |-> "extract", draft |-> d]]
  /\ UNCHANGED <<requests, own, target, tokens, history>>

\* POST .../refine saves the reviewer's edits, POST .../controlm does not;
\* either starts a task that fills what is blank.
StartTask(d, k, kind, assets, field) ==
  /\ Counted
  /\ drafts[d].status \in {"ready", "failed"} /\ tasks[k].stage = "idle"
  /\ drafts' = [drafts EXCEPT ![d] =
       IF kind = "refine"
       THEN [@ EXCEPT !.status = "refining", !.assets = assets, !.field = field, !.edited = TRUE]
       ELSE [@ EXCEPT !.status = "refining"]]
  /\ tasks' = [tasks EXCEPT ![k] = [stage |-> "queued", kind |-> kind, draft |-> d]]
  /\ overtaken' = IF kind = "refine" THEN overtaken \cup Writers(d) ELSE overtaken
  /\ UNCHANGED <<requests, own, target, tokens, rushed, raced>>

\* The task reads the row.  Only the extraction does not look at its status.
PickUp(k) ==
  /\ tasks[k].stage = "queued"
  /\ LET row == drafts[tasks[k].draft]
     IN  IF row.status = "deleted" \/ (tasks[k].kind # "extract" /\ row.status # "refining")
         THEN /\ tasks' = [tasks EXCEPT ![k] = NoTask]
              /\ overtaken' = overtaken \ {k}
         ELSE /\ tasks' = [tasks EXCEPT ![k] =
                   [stage |-> "working", kind |-> tasks[k].kind, draft |-> tasks[k].draft,
                    assets |-> row.assets, field |-> row.field]]
              /\ UNCHANGED overtaken
  /\ UNCHANGED <<drafts, requests, own, target, tokens, rushed, raced, steps>>

\* merge_into_snapshot: all the project has, what the document adds, and of
\* the project fields only those that are blank.
MergedIntoTarget(found, offered) ==
  [assets |-> OnTarget \cup found, field |-> IF target.field # Blank THEN target.field ELSE offered]

\* Mutant: the model's answer replaces the reviewed draft.
AnswerReplaces(t, found, offered) == [assets |-> found, field |-> offered]

\* merge_preserving: the values of the draft stay, its blanks are filled and
\* what is new is appended.
MergedPreserving(t, found, offered) ==
  [assets |-> t.assets \cup found, field |-> IF t.field # Blank THEN t.field ELSE offered]

\* What the model makes of the document.
Answer(k, found, offered) ==
  IF tasks[k].kind # "extract" THEN MergedPreserving(tasks[k], found, offered)
  ELSE IF drafts[tasks[k].draft].update THEN MergedIntoTarget(found, offered)
  ELSE [assets |-> found, field |-> offered]

\* The task writes what it made of the row, whatever its status is by now; a
\* row that is gone makes the commit fail.
Finish(k, found, offered) ==
  LET d == tasks[k].draft
  IN  /\ tasks[k].stage = "working"
      /\ tasks' = [tasks EXCEPT ![k] = NoTask]
      /\ drafts' = IF drafts[d].status = "deleted" THEN drafts
                   ELSE [drafts EXCEPT ![d].status = "ready",
                                       ![d].assets = Answer(k, found, offered).assets,
                                       ![d].field  = Answer(k, found, offered).field]
      /\ overtaken' = (overtaken \cup Writers(d)) \ {k}
      /\ UNCHANGED <<requests, own, target, tokens, rushed, raced, steps>>

\* Mutant: a failing task leaves the status as it is.
StatusKept(d) == drafts[d].status

StatusOnFailure(d) == "failed"

FailTask(k) ==
  LET d == tasks[k].draft
  IN  /\ tasks[k].stage = "working"
      /\ tasks' = [tasks EXCEPT ![k] = NoTask]
      /\ drafts' = IF drafts[d].status = "deleted" THEN drafts
                   ELSE [drafts EXCEPT ![d].status = StatusOnFailure(d)]
      /\ overtaken' = overtaken \ {k}
      /\ UNCHANGED <<requests, own, target, tokens, rushed, raced, steps>>

\* save_draft: any reviewed payload, also for a draft whose task is at work.
Save(d, assets, field) ==
  /\ Counted
  /\ drafts[d].status \in {"extracting", "refining", "ready", "failed"}
  /\ drafts' = [drafts EXCEPT ![d] =
       [@ EXCEPT !.status = "ready", !.assets = assets, !.field = field, !.edited = TRUE]]
  /\ overtaken' = overtaken \cup Writers(d)
  /\ UNCHANGED <<tasks, requests, own, target, tokens, rushed, raced>>

\* partition_payload_by_cml_project: by the CML project each asset binds to.
Parts(assets) == SUBSET assets \ {{}, assets}

\* split_draft: the draft keeps a part of its assets, a new one has the rest.
Split(d, e, kept) ==
  /\ Counted
  /\ drafts[d].status \in {"extracting", "refining", "ready", "failed"}
  /\ ~drafts[d].update /\ ~drafts[d].split
  /\ kept \in Parts(drafts[d].assets)
  /\ drafts[e].status = "none"
  /\ drafts' = [drafts EXCEPT
       ![d] = [@ EXCEPT !.status = "ready", !.split = TRUE, !.assets = kept],
       ![e] = [drafts[d] EXCEPT !.status = "ready", !.split = TRUE, !.lost = FALSE,
                                !.assets = drafts[d].assets \ kept]]
  /\ overtaken' = overtaken \cup Writers(d)
  /\ UNCHANGED <<tasks, requests, own, target, tokens, rushed, raced>>

\* _IN_FLIGHT
InFlight == {"extracting", "refining", "submitted"}

\* delete_draft
Delete(d) ==
  /\ Counted
  /\ drafts[d].status \notin InFlight \cup {"none", "deleted"}
  /\ drafts' = [drafts EXCEPT ![d].status = "deleted"]
  /\ UNCHANGED <<tasks, requests, own, target, tokens, history>>

-----------------------------------------------------------------------------
(***************************************************************************)
(* Submitting a draft                                                      *)
(***************************************************************************)

At(r, op, stage) == Work(r) /\ requests[r].op = op /\ requests[r].stage = stage

Goto(r, stage) == requests' = [requests EXCEPT ![r].stage = stage]
Leave(r)       == requests' = [requests EXCEPT ![r] = Idle]

\* validate_payload finds no error.
Valid(d) == drafts[d].assets \cap Flawed = {}

\* submit_draft has read a ready, valid draft ...
BeginSubmit(r, d) ==
  /\ Counted
  /\ ~Work(r)
  /\ drafts[d].status = "ready" /\ Valid(d)
  /\ requests' = [requests EXCEPT ![r] =
       [op |-> "submit", stage |-> "read", draft |-> d, update |-> drafts[d].update,
        edited |-> drafts[d].edited, assets |-> drafts[d].assets, field |-> drafts[d].field,
        new |-> {}, setField |-> FALSE]]
  /\ UNCHANGED <<drafts, tasks, own, target, tokens, history>>

\* ... and marks it, whatever its status is by now; if the row was deleted
\* meanwhile, the commit fails.
Mark(r) ==
  LET d == requests[r].draft
  IN  /\ At(r, "submit", "read")
      /\ IF drafts[d].status = "deleted"
         THEN Leave(r) /\ UNCHANGED <<drafts, rushed>>
         ELSE /\ drafts' = [drafts EXCEPT ![d].status = "submitted"]
              /\ rushed' = IF drafts[d].status = "ready" /\ Writers(d) = {}
                           THEN rushed ELSE rushed \cup {d}
              /\ Goto(r, "marked")
      /\ UNCHANGED <<tasks, own, target, tokens, raced, overtaken, steps>>

\* submit_payload: the project first, in its own transaction ...
CreateProject(r) ==
  /\ At(r, "submit", "marked") /\ ~requests[r].update
  /\ own' = [own EXCEPT ![requests[r].draft].begun = @ + 1]
  /\ Goto(r, "created")
  /\ UNCHANGED <<drafts, tasks, target, tokens, history, steps>>

\* ... then all that is in it ...
Populate(r) ==
  /\ At(r, "submit", "created")
  /\ own' = [own EXCEPT ![requests[r].draft].begun = @ - 1, ![requests[r].draft].whole = @ + 1]
  /\ Goto(r, "written")
  /\ UNCHANGED <<drafts, tasks, target, tokens, history, steps>>

\* Mutant: a failure leaves the project as it is.
NotCompensated(p, deleted) == p

\* ... or, when that fails, the project is deleted again, if that works.
Compensated(p, deleted) ==
  [p EXCEPT !.begun = @ - 1, !.orphaned = IF deleted THEN @ ELSE @ + 1]

FailPopulate(r, deleted) ==
  /\ At(r, "submit", "created")
  /\ own' = [own EXCEPT ![requests[r].draft] = Compensated(@, deleted)]
  /\ Goto(r, "failing")
  /\ UNCHANGED <<drafts, tasks, target, tokens, history, steps>>

\* Mutant: every asset of the draft is created.
AllOfDraft(r) == requests[r].assets

\* annotate: what the project does not have yet.
NewAssets(r) == requests[r].assets \ OnTarget

\* update_payload compares the draft with the project as it is now ...
Compare(r) ==
  /\ At(r, "submit", "marked") /\ requests[r].update
  /\ requests' = [requests EXCEPT ![r] = [@ EXCEPT !.stage = "compared", !.new = NewAssets(r),
                                                   !.setField = (requests[r].field # target.field)]]
  /\ UNCHANGED <<drafts, tasks, own, target, tokens, history, steps>>

\* What the updates among others have found missing and are about to add.
Adding(others) == UNION {requests[q].new : q \in {q \in others : At(q, "submit", "compared")}}

\* ... creates in one transaction what is new ...
ApplyAssets(r) ==
  /\ At(r, "submit", "compared")
  /\ target' = [target EXCEPT !.copies =
       [a \in Assets |-> IF a \in requests[r].new THEN target.copies[a] + 1 ELSE target.copies[a]]]
  /\ raced' = raced \cup (requests[r].new \cap Adding(Requests \ {r}))
  /\ Goto(r, IF requests[r].setField THEN "fields" ELSE "written")
  /\ UNCHANGED <<drafts, tasks, own, tokens, rushed, overtaken, steps>>

\* ... and in another the project fields that differed, blank ones too.
ApplyFields(r) ==
  /\ At(r, "submit", "fields")
  /\ target' = [target EXCEPT !.field = requests[r].field,
                              !.setBy = IF requests[r].edited THEN "person" ELSE "document"]
  /\ Goto(r, "written")
  /\ UNCHANGED <<drafts, tasks, own, tokens, history, steps>>

\* A transaction fails: nothing of it is written.
FailSubmit(r) ==
  /\ At(r, "submit", "marked") \/ At(r, "submit", "compared") \/ At(r, "submit", "fields")
  /\ Goto(r, "failing")
  /\ UNCHANGED <<drafts, tasks, own, target, tokens, history, steps>>

\* The end of submit_draft, and _mark when it failed.  A row is written only
\* if it is still there.
Settle(r) ==
  /\ At(r, "submit", "written") \/ At(r, "submit", "failing")
  /\ drafts' = [drafts EXCEPT ![requests[r].draft].status =
       IF @ = "deleted" THEN @
       ELSE IF requests[r].stage = "written" THEN "completed" ELSE "failed"]
  /\ Leave(r)
  /\ UNCHANGED <<tasks, own, target, tokens, history, steps>>

-----------------------------------------------------------------------------
(***************************************************************************)
(* People and proposals on the target project                              *)
(***************************************************************************)

SetField(value) ==
  /\ target' = [target EXCEPT !.field = value, !.setBy = IF value = Blank THEN "nobody" ELSE "person"]

\* The project and job pages.
EditField(value) ==
  /\ Counted
  /\ value # target.field /\ SetField(value)
  /\ UNCHANGED <<drafts, tasks, requests, own, tokens, history>>

AddAsset(a) ==
  /\ Counted
  /\ target.copies[a] = 0
  /\ target' = [target EXCEPT !.copies[a] = 1]
  /\ raced' = raced \cup ({a} \cap Adding(Requests))
  /\ UNCHANGED <<drafts, tasks, requests, own, tokens, rushed, overtaken>>

\* A turn of the write agent stores a proposal under a fresh token.
Propose(t, value) ==
  /\ Counted
  /\ tokens[t].state = "none"
  /\ tokens' = [tokens EXCEPT ![t].state = "pending", ![t].value = value]
  /\ UNCHANGED <<drafts, tasks, requests, own, target, history>>

\* take_valid: there, its actor's own, not consumed and not expired.
BeginConfirm(r, t) ==
  /\ Counted
  /\ ~Work(r) /\ tokens[t].state = "pending"
  /\ requests' = [requests EXCEPT ![r] = [op |-> "confirm", stage |-> "taken", token |-> t]]
  /\ UNCHANGED <<drafts, tasks, own, target, tokens, history>>

\* consume: one UPDATE on the token that is not consumed yet; its row must
\* still be there.  Expiry is not looked at again.
Claimable(t) == tokens[t].state \in {"pending", "expired"}

Consume(r) ==
  /\ At(r, "confirm", "taken")
  /\ IF Claimable(requests[r].token)
     THEN /\ tokens' = [tokens EXCEPT ![requests[r].token].state = "consumed"]
          /\ Goto(r, "claimed")
     ELSE /\ Leave(r) /\ UNCHANGED tokens
  /\ UNCHANGED <<drafts, tasks, own, target, history, steps>>

\* _commit_proposal; a refused write leaves its token consumed.
Write(r) ==
  /\ At(r, "confirm", "claimed")
  /\ tokens' = [tokens EXCEPT ![requests[r].token].writes = @ + 1]
  /\ SetField(tokens[requests[r].token].value)
  /\ Leave(r)
  /\ UNCHANGED <<drafts, tasks, own, history, steps>>

Refuse(r) ==
  /\ At(r, "confirm", "claimed")
  /\ Leave(r)
  /\ UNCHANGED <<drafts, tasks, own, target, tokens, history, steps>>

\* Fifteen minutes pass; purge_expired.
Expire(t) ==
  /\ tokens[t].state = "pending"
  /\ tokens' = [tokens EXCEPT ![t].state = "expired"]
  /\ UNCHANGED <<drafts, tasks, requests, own, target, history, steps>>

Purge ==
  /\ \E t \in Tokens : tokens[t].state \in {"expired", "consumed"}
  /\ tokens' = [t \in Tokens |-> IF tokens[t].state \in {"expired", "consumed"}
                                 THEN [tokens[t] EXCEPT !.state = "purged"] ELSE tokens[t]]
  /\ UNCHANGED <<drafts, tasks, requests, own, target, history, steps>>

\* The server restarts: background tasks and requests are gone.
Restart ==
  /\ Counted
  /\ \/ \E k \in Workers : tasks[k].stage # "idle"
     \/ \E r \in Requests : Work(r)
  /\ tasks' = [k \in Workers |-> NoTask]
  /\ requests' = [r \in Requests |-> Idle]
  /\ drafts' = [d \in Drafts |-> [drafts[d] EXCEPT !.lost = @ \/ TaskOf(d) # {} \/ SubmitOf(d)]]
  /\ overtaken' = {}
  /\ UNCHANGED <<own, target, tokens, rushed, raced>>

-----------------------------------------------------------------------------
Task == \E k \in Workers :
  \/ PickUp(k)
  \/ \E found \in SUBSET Assets, offered \in Fields : Finish(k, found, offered)
  \/ FailTask(k)

Submit == \E r \in Requests :
  \/ Mark(r) \/ CreateProject(r) \/ Populate(r)
  \/ \E deleted \in BOOLEAN : FailPopulate(r, deleted)
  \/ Compare(r) \/ ApplyAssets(r) \/ ApplyFields(r)
  \/ FailSubmit(r) \/ Settle(r)

Confirm == \E r \in Requests : Consume(r) \/ Write(r) \/ Refuse(r)

Review == \E d \in Drafts :
  \/ \E k \in Workers, update \in BOOLEAN : CreateDraft(d, k, update)
  \/ \E k \in Workers, assets \in SUBSET Assets, field \in Fields : StartTask(d, k, "refine", assets, field)
  \/ \E k \in Workers : StartTask(d, k, "controlm", {}, Blank)
  \/ \E assets \in SUBSET Assets, field \in Fields : Save(d, assets, field)
  \/ \E e \in Drafts, kept \in SUBSET Assets : Split(d, e, kept)
  \/ Delete(d)
  \/ \E r \in Requests : BeginSubmit(r, d)

People ==
  \/ \E value \in Fields : EditField(value)
  \/ \E a \in Assets : AddAsset(a)
  \/ \E t \in Tokens :
       \/ \E value \in Values : Propose(t, value)
       \/ \E r \in Requests : BeginConfirm(r, t)
       \/ Expire(t)
  \/ Purge

Next == Task \/ Submit \/ Confirm \/ Review \/ People \/ Restart

Spec == Init /\ [][Next]_vars

-----------------------------------------------------------------------------
\* A draft is made into at most one project, and a draft that can be submitted
\* again has left none behind that was not reported for manual cleanup
\* (submit.py: a failed submit leaves no half-onboarded project behind).  Nothing
\* but the status guards it (submit_draft): what two submits that read the row at
\* once, or a submit beside a task, can do to a draft, they do only if one of
\* them marked it when it was no longer ready, or a task was yet to write it.
ProjectsAccounted == \A d \in Drafts \ rushed :
  /\ own[d].begun + own[d].whole <= 1
  /\ drafts[d].status \in {"none", "extracting", "refining", "ready", "failed"} =>
       own[d].begun + own[d].whole = 0

\* Updates that fail halfway and are submitted again, and several drafts for
\* one project, never put the same job or application on it twice, unless it was
\* added while an update that found it missing was under way (update_payload
\* compares and writes in two transactions); and however its confirmations
\* overlap, a proposal is written once.
NothingTwice ==
  /\ \A a \in Assets \ raced : target.copies[a] <= 1
  /\ \A t \in Tokens : tokens[t].writes <= 1

\* What the reviewer settled survives every round of the model, also when people
\* save, split and submit a draft that a task is at work on: a task takes nothing
\* from a reviewed draft and changes no field that is set, unless the draft was
\* written after the task had read it, or before an extraction was through.
ReviewedKept == [][\A k \in Workers \ overtaken :
  LET d == tasks[k].draft
  IN  tasks[k].stage = "working" /\ tasks'[k].stage = "idle" /\ drafts[d].edited =>
        /\ drafts[d].assets \subseteq drafts'[d].assets
        /\ drafts[d].field \in {Blank, drafts'[d].field}]_vars

\* A document never changes a project field that a person has set: fields are
\* filled only where the project has none (project_update.py).
DocumentNeverRepoints == [][target.setBy = "person" => target'.setBy # "document"]_vars

\* A draft that is shown as being filled or submitted has a task or a submit under
\* way that will take it out of that status, whatever its reviewer does meanwhile,
\* unless a restart lost it (delete_draft tells its reviewer to wait for it).
InFlightIsWorkedOn == \A d \in Drafts :
  drafts[d].status \in InFlight /\ ~drafts[d].lost =>
    IF drafts[d].status = "submitted" THEN SubmitOf(d) ELSE TaskOf(d) # {}
==============================================================================
