---------------------------- MODULE IssueMailProofs ----------------------------
(***************************************************************************)
(* Theorems about the desk and the mail it sends: that an assignee was     *)
(* told and that a notice that says so was mailed (IssueDesk, for any      *)
(* number of people, issues and requests under way); that nobody gets a    *)
(* mail twice, and that the breaker, if its cooldown outlasts a send,      *)
(* never waits for a probe that is not there (MailCircuit, for any number  *)
(* of mails, threads, workers and addresses and any threshold).  The two   *)
(* specifications share no variable.                                       *)
(***************************************************************************)
EXTENDS IssueDesk, MailCircuit, FiniteSetTheorems, TLAPS

-----------------------------------------------------------------------------
(* The desk.                                                                  *)

Status == {"none"} \cup Live \cup Ended
Person == People \cup {Nobody}

Rows == [status : Status, who : Person, born : Nat,
         told : SUBSET Person, took : SUBSET Person,
         warned : SUBSET Person, repeated : BOOLEAN, missed : BOOLEAN,
         mailed : SUBSET Person, said : SUBSET Person]

Writes == [op : {"write"}, issue : Issues, was : [status : Status, who : Person],
           status : Status, who : Person, born : Nat,
           told : SUBSET Person, took : SUBSET Person, mail : BOOLEAN]

TypeInv ==
  /\ clock \in Nat
  /\ duty \subseteq Members
  /\ issues \in [Issues -> Rows]
  /\ requests \in [Clerks -> Writes \cup {Idle}]
  /\ mails.sending \subseteq Issues \X Person

\* Who has the row was told, or took it.
Known(row) == row.status # "none" /\ row.who # Nobody => row.who \in row.told \cup row.took

\* Nobody has an issue that is not there yet.
Fresh(row) == row.status = "none" => row.who = Nobody

\* What a request under way wants: it tells whom it makes the assignee, and
\* unless it creates the issue, the issue is there.
Telling(r, rows) ==
  /\ r.status # "none"
  /\ r.who = r.was.who \/ r.who \in r.told \cup r.took \cup {Nobody}
  /\ r.was.status = "none" \/ rows[r.issue].status # "none"

DeskInv ==
  /\ TypeInv
  /\ \A i \in Issues : Known(issues[i]) /\ Fresh(issues[i])
  /\ \A c \in Clerks : requests[c] # Idle => Telling(requests[c], issues)

-----------------------------------------------------------------------------
\* A request that begins as it should leaves everybody told.
LEMMA BeginKeeps ==
  ASSUME DeskInv, NEW c \in Clerks, NEW r \in Writes, Telling(r, issues), Begin(c, r)
  PROVE  DeskInv'
<1>1. /\ clock' = clock /\ duty' = duty /\ issues' = issues /\ mails' = mails
      /\ requests' = [d \in Clerks |-> IF d = c THEN r ELSE requests[d]]
  BY DEF Begin, DeskInv, TypeInv
<1>2. TypeInv'
  BY <1>1 DEF DeskInv, TypeInv
<1>3. \A d \in Clerks : requests'[d] # Idle => Telling(requests'[d], issues')
  BY <1>1 DEF DeskInv, Telling
<1> QED
  BY <1>1, <1>2, <1>3 DEF DeskInv, Known, Fresh

\* A change of the issues that keeps each row known.
LEMMA RowsKeep ==
  ASSUME DeskInv, clock' \in Nat, duty' \subseteq Members,
         issues' \in [Issues -> Rows],
         \A i \in Issues : /\ Known(issues'[i]) /\ Fresh(issues'[i])
                           /\ issues[i].status # "none" => issues'[i].status # "none",
         \A c \in Clerks : requests'[c] # Idle => requests'[c] = requests[c],
         requests' \in [Clerks -> Writes \cup {Idle}],
         mails'.sending \subseteq Issues \X Person
  PROVE  DeskInv'
<1>1. TypeInv'
  BY DEF TypeInv
<1>2. ASSUME NEW c \in Clerks, requests'[c] # Idle PROVE Telling(requests'[c], issues')
  <2>1. requests'[c] = requests[c] /\ requests[c] \in Writes /\ Telling(requests[c], issues)
    BY <1>2 DEF DeskInv, TypeInv
  <2>2. requests[c].issue \in Issues
    BY <2>1 DEF Writes
  <2> QED
    BY <2>1, <2>2 DEF Telling
<1> QED
  BY <1>1, <1>2 DEF DeskInv
\* A request need only tell whom it makes the assignee.
LEMMA AskedKeeps ==
  ASSUME DeskInv, NEW c \in Clerks, NEW i \in Issues,
         NEW status \in Live \cup Ended, NEW who \in Person,
         NEW told \in SUBSET Person, NEW took \in SUBSET Person, NEW due \in BOOLEAN,
         who = issues[i].who \/ who \in told \cup took,
         Begin(c, Asking(i, status, who, told, took, due))
  PROVE  DeskInv'
<1> DEFINE r == Asking(i, status, who, told, took, due)
<1>1. r \in Writes
  BY DEF DeskInv, TypeInv, Rows, Row, Writes, Status, Asking
<1>2. Telling(r, issues)
  BY DEF Telling, Row, Live, Ended, Asking
<1> QED
  BY <1>1, <1>2, BeginKeeps

\* Whoever asks for what.
LEMMA RequestKeeps ==
  ASSUME DeskInv, NEW c \in Clerks, NEW i \in Issues, Request(c, i)
  PROVE  DeskInv'
<1>0. /\ issues[i].status \in Status /\ issues[i].who \in Person
      /\ People \subseteq Person
      /\ Live \cup Ended = Status \ {"none"} /\ {} \in SUBSET Person
      /\ "open" \in Live /\ "in_progress" \in Live /\ "ended" \in Ended
  BY DEF DeskInv, TypeInv, Rows, Person, People, Status, Live, Ended
<1>1. CASE Create(c, i)
  <2>1. PICK m \in Candidates : Begin(c, Asking(i, "open", m, {m}, {}, TRUE))
    BY <1>1 DEF Create
  <2>2. m \in Person
    BY DeskAssumption DEF Candidates, Person, People, DeskInv, TypeInv
  <2>3. {m} \in SUBSET Person /\ m \in {m} \cup {}
    BY <2>2
  <2> QED
    BY <1>0, <2>1, <2>2, <2>3, AskedKeeps
<1>2. ASSUME NEW by \in People, Claim(c, i, by) PROVE DeskInv'
  <2>1. by \in Person /\ {by} \in SUBSET Person /\ by \in {} \cup {by}
    BY <1>0
  <2>2. Begin(c, Asking(i, "open", by, {}, {by}, FALSE))
    BY <1>2 DEF Claim
  <2> QED
    BY <1>0, <2>1, <2>2, AskedKeeps
<1>3. ASSUME NEW by \in People, Work(c, i, by) PROVE DeskInv'
  BY <1>0, <1>3, AskedKeeps DEF Work
<1>4. ASSUME NEW by \in People, Finish(c, i, by) PROVE DeskInv'
  BY <1>0, <1>4, AskedKeeps DEF Finish
<1>5. ASSUME NEW by \in People, ReturnToOwner(c, i, by) PROVE DeskInv'
  <2>1. Begin(c, Asking(i, "open", Owner, {Owner} \ {by}, {Owner} \cap {by}, FALSE))
    BY <1>5 DEF ReturnToOwner
  <2>2. Owner \in Person
    BY DEF Person, People
  <2>3. Owner \in ({Owner} \ {by}) \cup ({Owner} \cap {by})
    OBVIOUS
  <2> QED
    BY <1>0, <2>1, <2>2, <2>3, AskedKeeps
<1>6. ASSUME NEW by \in People, NEW status \in Live \cup Ended, Update(c, i, by, status)
      PROVE  DeskInv'
  BY <1>0, <1>6, AskedKeeps DEF Update
<1>7. ASSUME NEW by \in People, NEW to \in People, Reassign(c, i, by, to) PROVE DeskInv'
  <2>1. /\ issues[i].status # "none"
        /\ Begin(c, Asking(i, issues[i].status, to, ReassignmentTells(i, to), {}, to # issues[i].who))
    BY <1>7 DEF Reassign
  <2>2. ReassignmentTells(i, to) \in SUBSET Person /\ (to # issues[i].who) \in BOOLEAN /\ to \in Person
    BY <1>0 DEF ReassignmentTells
  <2>3. to = issues[i].who \/ to \in ReassignmentTells(i, to) \cup {}
    BY DEF ReassignmentTells
  <2>4. issues[i].status \in Live \cup Ended
    BY <1>0, <2>1
  <2> HIDE DEF ReassignmentTells
  <2> QED
    BY <1>0, <2>1, <2>2, <2>3, <2>4, AskedKeeps
<1> QED
  BY <1>1, <1>2, <1>3, <1>4, <1>5, <1>6, <1>7 DEF Request

\* The commit of a request: whatever was committed in between, the row it leaves has an
\* assignee who was told.
LEMMA CommitKeeps ==
  ASSUME DeskInv, NEW c \in Clerks, Commit(c)
  PROVE  DeskInv'
<1> DEFINE r == requests[c]
           i == r.issue
           row == issues[i]
           new == Written(r, row)
<1>1. r \in Writes /\ Telling(r, issues) /\ i \in Issues /\ row \in Rows
      /\ Known(row) /\ Fresh(row) /\ r.was \in [status : Status, who : Person]
  BY DEF Commit, DeskInv, TypeInv, Writes
<1>2. /\ issues' = [issues EXCEPT ![i] = new]
      /\ requests' = [requests EXCEPT ![c] = Idle]
      /\ clock' = clock /\ duty' = duty /\ mails'.sending = mails.sending
  BY DEF Commit
<1> HIDE DEF r, i
<1>3. /\ new.status = IF r.status # r.was.status THEN r.status ELSE row.status
      /\ new.who = IF r.who # r.was.who THEN r.who ELSE row.who
      /\ new.told = row.told \cup r.told /\ new.took = row.took \cup r.took
      /\ new \in Rows
  BY <1>1 DEF Written, Rows, Writes
<1>4. new.status # "none"
  BY <1>1, <1>3 DEF Telling, i
<1>5. Known(new) /\ Fresh(new)
  BY <1>1, <1>3, <1>4 DEF Telling, Known, Fresh
<1> HIDE DEF new
<1>6. issues' \in [Issues -> Rows]
  BY <1>1, <1>2, <1>3 DEF DeskInv, TypeInv
<1>7. \A j \in Issues : /\ Known(issues'[j]) /\ Fresh(issues'[j])
                        /\ issues[j].status # "none" => issues'[j].status # "none"
  BY <1>1, <1>2, <1>4, <1>5 DEF DeskInv, TypeInv
<1>8. /\ requests' \in [Clerks -> Writes \cup {Idle}]
      /\ \A d \in Clerks : requests'[d] # Idle => requests'[d] = requests[d]
  BY <1>2 DEF DeskInv, TypeInv
<1>9. clock' \in Nat /\ duty' \subseteq Members /\ mails'.sending \subseteq Issues \X Person
  BY <1>2 DEF DeskInv, TypeInv
<1> QED
  BY <1>6, <1>7, <1>8, <1>9, RowsKeep
\* A change of the table alone, row by row.
RowwiseSafe(new) ==
  /\ new \in [Issues -> Rows]
  /\ \A i \in Issues : /\ Known(new[i]) /\ Fresh(new[i])
                       /\ issues[i].status # "none" => new[i].status # "none"

\* Such a change keeps the invariant.
LEMMA TableKeeps ==
  ASSUME DeskInv, RowwiseSafe(issues'), UNCHANGED requests,
         clock' \in Nat, duty' \subseteq Members, mails'.sending \subseteq Issues \X Person
  PROVE  DeskInv'
BY RowsKeep DEF RowwiseSafe, DeskInv, TypeInv

\* The roster: whoever is handed an issue is told.
LEMMA RosterKeeps ==
  ASSUME DeskInv, NEW m \in Members, NEW from, NEW to, PutOnDuty(m, from, to)
  PROVE  DeskInv'
<1>1. m \in Person
  BY DEF Person, People
<1>2. ASSUME NEW row \in Rows, NEW new, new = [row EXCEPT !.who = m, !.told = @ \cup {m}]
      PROVE  new \in Rows /\ Known(new) /\ new.status = row.status
  BY <1>1, <1>2 DEF Rows, Known
<1>3. issues' = [i \in Issues |->
        IF i \in InWindow(m, from, to)
        THEN [issues[i] EXCEPT !.who = m, !.told = @ \cup {m}] ELSE issues[i]]
  BY DEF PutOnDuty
<1>4. ASSUME NEW i \in Issues
      PROVE  /\ issues'[i] \in Rows /\ Known(issues'[i]) /\ Fresh(issues'[i])
             /\ issues[i].status # "none" => issues'[i].status # "none"
  <2>0. issues[i] \in Rows /\ Known(issues[i]) /\ Fresh(issues[i])
    BY DEF DeskInv, TypeInv
  <2>1. CASE i \in InWindow(m, from, to)
    <3>1. issues'[i] = [issues[i] EXCEPT !.who = m, !.told = @ \cup {m}]
      BY <1>3, <2>1
    <3>2. issues'[i] \in Rows /\ Known(issues'[i]) /\ issues'[i].status = issues[i].status
      BY <1>2, <2>0, <3>1
    <3>3. issues[i].status # "none"
      BY <2>1 DEF InWindow, LiveIssues, Live
    <3> QED
      BY <3>2, <3>3 DEF Fresh
  <2>2. CASE i \notin InWindow(m, from, to)
    BY <1>3, <2>0, <2>2
  <2> QED
    BY <2>1, <2>2
<1>5. RowwiseSafe(issues')
  BY <1>3, <1>4 DEF RowwiseSafe
<1> QED
  BY <1>5, TableKeeps DEF PutOnDuty, DeskInv, TypeInv

\* The overdue check, and a restart: only what is known of the warnings changes.
LEMMA WarningsKeep ==
  ASSUME DeskInv, CheckOverdue \/ Restart
  PROVE  DeskInv'
<1> DEFINE Warned(row, ws, b) == [row EXCEPT !.warned = @ \cup ws, !.repeated = b]
           Missed(row, b) == [row EXCEPT !.missed = b]
<1>1. ASSUME NEW row \in Rows, Known(row), Fresh(row), NEW new,
             \/ \E ws \in SUBSET Person, b \in BOOLEAN : new = Warned(row, ws, b)
             \/ \E b \in BOOLEAN : new = Missed(row, b)
             \/ new = row
      PROVE  new \in Rows /\ Known(new) /\ Fresh(new) /\ (row.status # "none" => new.status # "none")
  BY <1>1 DEF Rows, Known, Fresh
<1>2. ASSUME NEW i \in Issues
      PROVE  /\ issues[i] \in Rows /\ Known(issues[i]) /\ Fresh(issues[i])
             /\ Warnings(i) \in SUBSET Person
             /\ (issues[i].repeated \/ Warnings(i) \cap issues[i].warned # {}) \in BOOLEAN
  BY DEF DeskInv, TypeInv, Rows, Warnings, Person, People
<1>3. RowwiseSafe(issues')
  <2>1. CASE CheckOverdue
    <3>1. PICK committed \in BOOLEAN : issues' = [i \in Issues |->
         IF i \notin Unseen THEN issues[i]
         ELSE IF committed
              THEN Warned(issues[i], Warnings(i),
                          issues[i].repeated \/ Warnings(i) \cap issues[i].warned # {})
              ELSE Missed(issues[i], TRUE)]
      BY <2>1 DEF CheckOverdue
    <3> HIDE DEF Warned, Missed
    <3>2. ASSUME NEW i \in Issues
          PROVE  /\ issues'[i] \in Rows /\ Known(issues'[i]) /\ Fresh(issues'[i])
                 /\ issues[i].status # "none" => issues'[i].status # "none"
      <4>1. \/ issues'[i] = issues[i]
            \/ issues'[i] = Warned(issues[i], Warnings(i),
                          issues[i].repeated \/ Warnings(i) \cap issues[i].warned # {})
            \/ issues'[i] = Missed(issues[i], TRUE)
        BY <3>1
      <4> QED
        BY <1>1, <1>2, <4>1
    <3> QED
      BY <3>1, <3>2 DEF RowwiseSafe
  <2>2. CASE Restart
    <3>1. issues' = [i \in Issues |-> Missed(issues[i], FALSE)]
      BY <2>2 DEF Restart
    <3> HIDE DEF Warned, Missed
    <3> QED
      BY <1>1, <1>2, <3>1 DEF RowwiseSafe
  <2> QED
    BY <2>1, <2>2
<1> QED
  BY <1>3, TableKeeps DEF CheckOverdue, Restart, DeskInv, TypeInv

\* Mails change only who was mailed and whose notice says so.
LEMMA MailsKeep ==
  ASSUME DeskInv, NEW i \in Issues, Reload(i) \/ AutoClose(i) \/ \E to \in People : Send(i, to)
  PROVE  DeskInv'
<1>0. issues[i] \in Rows /\ Known(issues[i]) /\ Fresh(issues[i])
  BY DEF DeskInv, TypeInv
<1>1. CASE Reload(i)
  <2>1. RowwiseSafe(issues')
    BY <1>1 DEF Reload, RowwiseSafe, DeskInv, TypeInv
  <2>2. mails'.sending \subseteq Issues \X Person
    BY <1>0, <1>1 DEF Reload, DeskInv, TypeInv, Rows
  <2> QED
    BY <1>1, <2>1, <2>2, TableKeeps DEF Reload, DeskInv, TypeInv
<1>2. CASE AutoClose(i)
  <2> DEFINE new == [issues[i] EXCEPT !.status = "ended"]
  <2>1. new \in Rows /\ Known(new) /\ Fresh(new) /\ new.status # "none"
    BY <1>0, <1>2 DEF AutoClose, LiveIssues, Live, Rows, Known, Fresh, Status, Ended
  <2>2. issues' = [issues EXCEPT ![i] = new]
    BY <1>2 DEF AutoClose
  <2> HIDE DEF new
  <2>3. RowwiseSafe(issues')
    BY <2>1, <2>2 DEF RowwiseSafe, DeskInv, TypeInv
  <2> QED
    BY <1>2, <2>3, TableKeeps DEF AutoClose, DeskInv, TypeInv
<1>3. ASSUME NEW to \in People, Send(i, to) PROVE DeskInv'
  <2>1. CASE UNCHANGED issues
    <3>1. RowwiseSafe(issues')
      BY <2>1 DEF RowwiseSafe, DeskInv, TypeInv
    <3>2. mails'.sending \subseteq Issues \X Person
      BY <1>3 DEF Send, DeskInv, TypeInv
    <3> QED
      BY <1>3, <3>1, <3>2, TableKeeps DEF Send, DeskInv, TypeInv
  <2>2. CASE ~ UNCHANGED issues
    <3> DEFINE new == [issues[i] EXCEPT !.mailed = @ \cup {to}, !.said = @ \cup Annotated(i, to)]
    <3>1. Annotated(i, to) \subseteq {to} /\ to \in Person
      BY DEF Annotated, Person
    <3>2. new \in Rows /\ Known(new) /\ Fresh(new) /\ new.status = issues[i].status
      BY <1>0, <3>1 DEF Rows, Known, Fresh
    <3>3. issues' = [issues EXCEPT ![i] = new]
      BY <1>3, <2>2 DEF Send
    <3> HIDE DEF new
    <3>4. RowwiseSafe(issues')
      BY <3>2, <3>3 DEF RowwiseSafe, DeskInv, TypeInv
    <3>5. mails'.sending \subseteq Issues \X Person
      BY <1>3 DEF Send, DeskInv, TypeInv
    <3> QED
      BY <1>3, <3>4, <3>5, TableKeeps DEF Send, DeskInv, TypeInv
  <2> QED
    BY <2>1, <2>2
<1> QED
  BY <1>1, <1>2, <1>3

\* The desk at any time: types, who has an issue, and what requests under way want.
THEOREM DeskInvariance == Spec => []DeskInv
<1>1. Init => DeskInv
  BY DEF Init, DeskInv, TypeInv, NewIssue, Rows, Status, Person, Known, Fresh, Idle
<1>2. DeskInv /\ [Next]_vars => DeskInv'
  <2> SUFFICES ASSUME DeskInv, [Next]_vars PROVE DeskInv'
    OBVIOUS
  <2>1. ASSUME NEW m \in Members, TakeOffDuty(m) PROVE DeskInv'
    <3>1. RowwiseSafe(issues')
      BY <2>1 DEF TakeOffDuty, RowwiseSafe, DeskInv, TypeInv
    <3> QED
      BY <2>1, <3>1, TableKeeps DEF TakeOffDuty, DeskInv, TypeInv
  <2>2. CASE Advance
    <3>1. RowwiseSafe(issues')
      BY <2>2 DEF Advance, RowwiseSafe, DeskInv, TypeInv
    <3> QED
      BY <2>2, <3>1, TableKeeps DEF Advance, DeskInv, TypeInv
  <2>3. CASE UNCHANGED vars
    BY <2>3 DEF vars, DeskInv, TypeInv
  <2> QED
    BY <2>1, <2>2, <2>3, RequestKeeps, CommitKeeps, RosterKeeps, WarningsKeep, MailsKeep DEF Next
<1> QED
  BY <1>1, <1>2, PTL DEF Spec

\* Whoever has a live issue was told that it is theirs, or took it, however requests,
\* the roster and the monitoring overlap.
THEOREM AssigneesTold == Spec => []AssigneeTold
<1>1. DeskInv => AssigneeTold
  BY DEF DeskInv, Known, AssigneeTold, LiveIssues, Live
<1> QED
  BY <1>1, DeskInvariance, PTL
\* Of the mails only the dispatcher knows: a step leaves a row's mails and the notices
\* about them, or mails one person more and says so of nobody else.
Noted(row, new) ==
  \/ new.said = row.said /\ new.mailed = row.mailed
  \/ \E to \in Person : /\ new.mailed = row.mailed \cup {to}
                        /\ new.said \subseteq row.said \cup {to}

\* Every step.
LEMMA StepNotes ==
  ASSUME DeskInv, [Next]_vars, NEW i \in Issues
  PROVE  Noted(issues[i], issues'[i])
<1>0. issues \in [Issues -> Rows] /\ issues[i] \in Rows
  BY DEF DeskInv, TypeInv
<1>1. CASE UNCHANGED issues
  BY <1>1 DEF Noted
<1>2. ASSUME NEW c \in Clerks, Commit(c) PROVE Noted(issues[i], issues'[i])
  <2> DEFINE r == requests[c]
             new == Written(r, issues[r.issue])
  <2>1. r.issue \in Issues /\ issues[r.issue] \in Rows
    BY <1>2 DEF Commit, DeskInv, TypeInv, Writes
  <2>2. new.said = issues[r.issue].said /\ new.mailed = issues[r.issue].mailed
    BY <2>1 DEF Written, Rows
  <2>3. issues' = [issues EXCEPT ![r.issue] = new]
    BY <1>2 DEF Commit
  <2> HIDE DEF new
  <2> QED
    BY <1>0, <2>1, <2>2, <2>3 DEF Noted
<1>3. ASSUME NEW m \in Members, NEW from, NEW to, PutOnDuty(m, from, to)
      PROVE  Noted(issues[i], issues'[i])
  <2>1. \/ issues'[i] = issues[i]
        \/ issues'[i] = [issues[i] EXCEPT !.who = m, !.told = @ \cup {m}]
    BY <1>3 DEF PutOnDuty
  <2> QED
    BY <1>0, <2>1 DEF Noted, Rows
<1>4. CASE CheckOverdue
  <2> DEFINE b == issues[i].repeated \/ Warnings(i) \cap issues[i].warned # {}
             ws == issues[i].warned \cup Warnings(i)
  <2>1. \/ issues'[i] = issues[i]
        \/ issues'[i] = [issues[i] EXCEPT !.warned = ws, !.repeated = b]
        \/ issues'[i] = [issues[i] EXCEPT !.missed = TRUE]
    BY <1>4 DEF CheckOverdue
  <2> HIDE DEF b, ws
  <2> QED
    BY <1>0, <2>1 DEF Noted, Rows
<1>5. CASE Restart
  <2>1. issues'[i] = [issues[i] EXCEPT !.missed = FALSE]
    BY <1>5 DEF Restart
  <2> QED
    BY <1>0, <2>1 DEF Noted, Rows
<1>6. ASSUME NEW j \in Issues, AutoClose(j) PROVE Noted(issues[i], issues'[i])
  BY <1>0, <1>6 DEF AutoClose, Noted, Rows
<1>7. ASSUME NEW j \in Issues, NEW to \in People, Send(j, to), ~ UNCHANGED issues
      PROVE  Noted(issues[i], issues'[i])
  <2> DEFINE new == [issues[j] EXCEPT !.mailed = @ \cup {to}, !.said = @ \cup Annotated(j, to)]
  <2>1. issues' = [issues EXCEPT ![j] = new]
    BY <1>7 DEF Send
  <2>2. to \in Person /\ Annotated(j, to) \subseteq {to} /\ issues[j] \in Rows
    BY <1>0 DEF Person, Annotated
  <2>3. /\ new.mailed = issues[j].mailed \cup {to}
        /\ new.said = issues[j].said \cup Annotated(j, to)
    BY <2>2 DEF Rows
  <2> HIDE DEF new
  <2>4. Noted(issues[j], new)
    BY <2>2, <2>3 DEF Noted
  <2>5. issues'[i] = IF i = j THEN new ELSE issues[i]
    BY <1>0, <2>1
  <2> QED
    BY <2>4, <2>5 DEF Noted
<1>8. ASSUME NEW c \in Clerks, NEW j \in Issues, Request(c, j) PROVE UNCHANGED issues
  BY <1>8 DEF Request, Create, Claim, Work, ReturnToOwner, Finish, Update, Reassign, Begin
<1> QED
  BY <1>1, <1>2, <1>3, <1>4, <1>5, <1>6, <1>7, <1>8
  DEF Next, Reload, Advance, TakeOffDuty, vars

\* A notice that says its owner was mailed tells the truth: the annotation goes by whom
\* the mail went to, not by who has the issue when it is written.
THEOREM SaidMailed == Spec => []SaidIsMailed
<1>1. Init => SaidIsMailed
  BY DEF Init, NewIssue, SaidIsMailed
<1>2. DeskInv /\ SaidIsMailed /\ [Next]_vars => SaidIsMailed'
  BY StepNotes DEF SaidIsMailed, Noted
<1> QED
  BY <1>1, <1>2, DeskInvariance, PTL DEF Spec

-----------------------------------------------------------------------------
(* The mail.                                                                  *)

Circuit == [open : BOOLEAN, cooled : BOOLEAN, timeouts : Nat, probe : BOOLEAN]

\* left is any integer here: no property counts the addresses.
Entry == [phase : Phase, left : Int, probe : BOOLEAN, stale : BOOLEAN,
          late : BOOLEAN, gone : BOOLEAN, got : Nat, broken : Nat]

\* Before its answer a mail was delivered by broken conversations only; afterwards
\* at most once more, and by a send that was given up only if that was not so.
Owed(phase, late, got, broken) ==
  /\ late => phase = "done"
  /\ late \/ phase \notin {"done", "answered"} => got = broken
  /\ got <= 1 + broken

Sound == {e \in Entry : Owed(e.phase, e.late, e.got, e.broken)}

\* The inductive invariant.
DeliveryInv == /\ mail \in [Mails -> Sound]
               /\ circuit \in Circuit
               /\ relay \in {"up", "hangs"}

-----------------------------------------------------------------------------
LEMMA Phases ==
  /\ "done" \in Phase /\ "ready" \in Phase /\ "granted" \in Phase /\ "queued" \in Phase
  /\ "running" \in Phase /\ "hung" \in Phase /\ "answered" \in Phase /\ "raised" \in Phase /\ "cancelled" \in Phase
BY DEF Phase

LEMMA SoundFields ==
  ASSUME NEW e \in Sound
  PROVE  /\ e \in Entry /\ Owed(e.phase, e.late, e.got, e.broken)
         /\ e.phase \in Phase /\ e.left \in Int /\ e.got \in Nat /\ e.broken \in Nat /\ e.probe \in BOOLEAN
         /\ e.stale \in BOOLEAN /\ e.late \in BOOLEAN /\ e.gone \in BOOLEAN
BY DEF Sound, Entry

\* What the steps make of a mail is sound if its phase, rest and count are.
LEMMA Edited ==
  ASSUME NEW e \in Entry
  PROVE  /\ \A phase \in Phase : Owed(phase, e.late, e.got, e.broken) =>
              [e EXCEPT !.phase = phase] \in Sound
         /\ \A phase \in Phase, left \in Int : Owed(phase, e.late, e.got, e.broken) =>
              [e EXCEPT !.phase = phase, !.left = left] \in Sound
         /\ \A phase \in Phase, left \in Int, probe \in BOOLEAN, stale \in BOOLEAN :
              Owed(phase, e.late, e.got, e.broken) =>
                [e EXCEPT !.phase = phase, !.left = left, !.probe = probe, !.stale = stale] \in Sound
         /\ \A phase \in Phase, got \in Nat : Owed(phase, e.late, got, e.broken) =>
              [e EXCEPT !.phase = phase, !.got = got] \in Sound
         /\ \A phase \in Phase, got \in Nat, broken \in Nat : Owed(phase, e.late, got, broken) =>
              [e EXCEPT !.phase = phase, !.got = got, !.broken = broken] \in Sound
         /\ \A phase \in Phase, probe \in BOOLEAN : Owed(phase, e.late, e.got, e.broken) =>
              [e EXCEPT !.phase = phase, !.probe = probe] \in Sound
         /\ \A phase \in Phase, probe \in BOOLEAN, late \in BOOLEAN, gone \in BOOLEAN :
              Owed(phase, late, e.got, e.broken) =>
                [e EXCEPT !.phase = phase, !.probe = probe, !.late = late, !.gone = gone] \in Sound
         /\ \A late \in BOOLEAN, gone \in BOOLEAN, got \in Nat : Owed(e.phase, late, got, e.broken) =>
              [e EXCEPT !.late = late, !.gone = gone, !.got = got] \in Sound
         /\ \A phase \in Phase, stale \in BOOLEAN, gone \in BOOLEAN : Owed(phase, e.late, e.got, e.broken) =>
              [e EXCEPT !.phase = phase, !.stale = stale, !.gone = gone] \in Sound
BY DEF Entry, Sound

LEMMA Zero == 0 \in Nat
OBVIOUS

\* Recording an outcome leaves a breaker a breaker.
LEMMA RecordedType ==
  ASSUME NEW c \in Circuit, NEW timedOut \in BOOLEAN, NEW probe \in BOOLEAN
  PROVE  Recorded(c, timedOut, probe) \in Circuit
<1> DEFINE cleared == [c EXCEPT !.probe = @ /\ ~ probe]
<1>1. cleared \in Circuit
  <2>1. ASSUME NEW p \in BOOLEAN PROVE [c EXCEPT !.probe = p] \in Circuit
    BY DEF Circuit
  <2>2. (c.probe /\ ~ probe) \in BOOLEAN
    OBVIOUS
  <2> QED BY <2>1, <2>2, Zenon
<1>2. Recorded(c, timedOut, probe) =
        IF timedOut THEN IF Trips(c) THEN Tripped(cleared)
                                     ELSE [cleared EXCEPT !.timeouts = @ + 1]
        ELSE [cleared EXCEPT !.timeouts = 0, !.open = FALSE, !.cooled = FALSE]
  BY DEF Recorded
<1> HIDE DEF cleared
<1>3. Tripped(cleared) \in Circuit
  <2>1. \A open \in BOOLEAN, cooled \in BOOLEAN, timeouts \in Nat, p \in BOOLEAN :
          [cleared EXCEPT !.open = open, !.cooled = cooled, !.timeouts = timeouts, !.probe = p] \in Circuit
    BY <1>1 DEF Circuit
  <2> QED BY <2>1, Zero, Zenon DEF Tripped
<1>4. [cleared EXCEPT !.timeouts = @ + 1] \in Circuit
  <2>1. \A timeouts \in Nat : [cleared EXCEPT !.timeouts = timeouts] \in Circuit
    BY <1>1 DEF Circuit
  <2>2. cleared.timeouts + 1 \in Nat
    BY <1>1 DEF Circuit
  <2> QED BY <2>1, <2>2
<1>5. [cleared EXCEPT !.timeouts = 0, !.open = FALSE, !.cooled = FALSE] \in Circuit
  <2>1. \A timeouts \in Nat, open \in BOOLEAN, cooled \in BOOLEAN :
          [cleared EXCEPT !.timeouts = timeouts, !.open = open, !.cooled = cooled] \in Circuit
    BY <1>1 DEF Circuit
  <2> QED BY <2>1, Zero, Zenon
<1> QED BY <1>2, <1>3, <1>4, <1>5

\* What a trip does to a mail in a worker's hands delivers nothing.
LEMMA AbandonedSound ==
  ASSUME NEW e \in Sound
  PROVE  Abandoned(e) \in Sound
<1> DEFINE phase == IF e.phase = "queued" THEN "cancelled" ELSE e.phase
           stale == e.stale \/ e.phase \in InFlight
           gone  == e.gone \/ e.late
<1>1. Abandoned(e) = [e EXCEPT !.phase = phase, !.stale = stale, !.gone = gone]
  BY DEF Abandoned
<1>2. phase \in Phase /\ stale \in BOOLEAN /\ gone \in BOOLEAN
  BY SoundFields, Phases
<1>3. Owed(phase, e.late, e.got, e.broken)
  BY SoundFields DEF Owed
<1> HIDE DEF phase, stale, gone
<1>4. e \in Entry
  BY SoundFields
<1>5. [e EXCEPT !.phase = phase, !.stale = stale, !.gone = gone] \in Sound
  BY <1>2, <1>3, <1>4, Edited, Zenon
<1> QED BY <1>1, <1>5

\* The mail an outcome is recorded for goes on, the others may be abandoned.
LEMMA ReportSound ==
  ASSUME DeliveryInv, NEW m \in Mails, NEW e \in Sound,
         NEW timedOut \in BOOLEAN, Report(m, e, timedOut), relay' = relay
  PROVE  DeliveryInv'
<1>1. circuit' \in Circuit
  BY RecordedType, SoundFields DEF Report, DeliveryInv
<1>2. CASE timedOut /\ Trips(circuit)
  <2>1. mail' = [n \in Mails |-> Abandoned(IF n = m THEN e ELSE mail[n])]
    BY <1>2 DEF Report
  <2>2. \A n \in Mails : Abandoned(IF n = m THEN e ELSE mail[n]) \in Sound
    BY AbandonedSound DEF DeliveryInv
  <2> QED BY <1>1, <2>1, <2>2 DEF DeliveryInv
<1>3. CASE ~ (timedOut /\ Trips(circuit))
  <2>1. mail' = [mail EXCEPT ![m] = e]
    BY <1>3 DEF Report
  <2> QED BY <1>1, <2>1 DEF DeliveryInv
<1> QED BY <1>2, <1>3

\* A step that replaces one mail and keeps a breaker.
LEMMA OneMailSound ==
  ASSUME DeliveryInv, NEW m \in Mails, NEW e \in Sound,
         mail' = [mail EXCEPT ![m] = e], circuit' \in Circuit, relay' = relay
  PROVE  DeliveryInv'
BY DEF DeliveryInv

-----------------------------------------------------------------------------
LEMMA NewMailSound == NewMail \in Sound
BY Phases DEF NewMail, Sound, Entry, Owed

LEMMA InitDelivery == MailInit => DeliveryInv
<1>1. ASSUME MailInit PROVE DeliveryInv
  <2>2. Closed \in Circuit
    BY DEF Closed, Circuit
  <2> QED BY <1>1, <2>2, NewMailSound DEF MailInit, DeliveryInv
<1> QED BY <1>1

LEMMA StepDelivery == DeliveryInv /\ [MailNext]_mailVars => DeliveryInv'
<1> SUFFICES ASSUME DeliveryInv, [MailNext]_mailVars PROVE DeliveryInv'
  OBVIOUS
<1>0. circuit \in Circuit /\ \A m \in Mails : mail[m] \in Sound
  BY DEF DeliveryInv
<1>1. ASSUME NEW m \in Mails, TakeUp(m) PROVE DeliveryInv'
  <2> DEFINE e == [NewMail EXCEPT !.phase = "ready", !.left = Addresses]
  <2>1. NewMail \in Entry /\ Addresses \in Int /\ Owed("ready", NewMail.late, NewMail.got, NewMail.broken)
    BY NewMailSound, SoundFields, MailAssumption DEF NewMail, Owed
  <2>2. e \in Sound
    BY <2>1, Edited, Phases, Zenon
  <2> QED BY <1>1, <1>0, <2>2, OneMailSound DEF TakeUp
<1>2. ASSUME NEW m \in Mails, Acquire(m) PROVE DeliveryInv'
  <2> DEFINE probes == circuit.open /\ circuit.cooled /\ ~ circuit.probe
             left == mail[m].left - 1
  <2>0. /\ mail[m] \in Entry /\ left \in Int /\ probes \in BOOLEAN
        /\ Owed("granted", mail[m].late, mail[m].got, mail[m].broken) /\ Owed("done", mail[m].late, mail[m].got, mail[m].broken)
    BY <1>0, <1>2, SoundFields DEF Acquire, Owed
  <2>1. CASE ~ circuit.open \/ probes
    <3> DEFINE e == [mail[m] EXCEPT !.phase = "granted", !.left = left,
                                    !.probe = probes, !.stale = FALSE]
    <3>1. mail' = [mail EXCEPT ![m] = e] /\ relay' = relay
      BY <1>2, <2>1 DEF Acquire
    <3>2. circuit' \in Circuit
      BY <1>2, <1>0, <2>1 DEF Acquire, Circuit
    <3>3. e \in Sound
      <4> HIDE DEF left, probes
      <4> QED BY <2>0, Edited, Phases, Zenon
    <3> QED BY <3>1, <3>2, <3>3, OneMailSound
  <2>2. CASE ~ (~ circuit.open \/ probes)
    <3> DEFINE e == [mail[m] EXCEPT !.phase = "done"]
    <3>1. mail' = [mail EXCEPT ![m] = e] /\ circuit' = circuit /\ relay' = relay
      BY <1>2, <2>2 DEF Acquire
    <3>2. e \in Sound
      BY <2>0, Edited, Phases, Zenon
    <3> QED BY <1>0, <3>1, <3>2, OneMailSound
  <2> QED BY <2>1, <2>2
<1>3. ASSUME NEW m \in Mails, Submit(m) PROVE DeliveryInv'
  <2>0. /\ mail[m] \in Entry
        /\ Owed("done", mail[m].late, mail[m].got, mail[m].broken) /\ Owed("queued", mail[m].late, mail[m].got, mail[m].broken)
    BY <1>0, <1>3, SoundFields DEF Submit, Owed
  <2>1. CASE mail[m].stale
    <3> DEFINE e == [mail[m] EXCEPT !.phase = "done"]
    <3>1. e \in Sound
      BY <2>0, Edited, Phases, Zenon
    <3> QED BY <1>3, <2>1, <3>1, ReportSound DEF Submit
  <2>2. CASE ~ mail[m].stale
    <3> DEFINE e == [mail[m] EXCEPT !.phase = "queued"]
    <3>1. e \in Sound
      BY <2>0, Edited, Phases, Zenon
    <3>2. mail' = [mail EXCEPT ![m] = e] /\ circuit' = circuit /\ relay' = relay
      BY <1>3, <2>2 DEF Submit
    <3> QED BY <1>0, <3>1, <3>2, OneMailSound
  <2> QED BY <2>1, <2>2
<1>4. ASSUME NEW m \in Mails, Start(m) PROVE DeliveryInv'
  <2>1. PICK phase \in {"running", "hung"} : mail' = [mail EXCEPT ![m].phase = phase]
    BY <1>4 DEF Start
  <2> DEFINE e == [mail[m] EXCEPT !.phase = phase]
  <2>2. phase \in Phase /\ mail[m] \in Entry /\ Owed(phase, mail[m].late, mail[m].got, mail[m].broken)
    BY <1>0, <1>4, SoundFields, Phases DEF Start, Owed
  <2>3. e \in Sound
    BY <2>2, Edited, Zenon
  <2>4. mail' = [mail EXCEPT ![m] = e] /\ circuit' = circuit /\ relay' = relay
    BY <1>4, <2>1 DEF Start
  <2> QED BY <1>0, <2>3, <2>4, OneMailSound
<1>5. ASSUME NEW m \in Mails, Accept(m) PROVE DeliveryInv'
  <2> DEFINE got == mail[m].got + 1
             e == [mail[m] EXCEPT !.phase = "answered", !.got = got]
  <2>1. got \in Nat /\ mail[m] \in Entry /\ Owed("answered", mail[m].late, got, mail[m].broken)
    BY <1>0, <1>5, SoundFields DEF Accept, Owed
  <2>2. e \in Sound
    <3> HIDE DEF got
    <3> QED BY <2>1, Edited, Phases, Zenon
  <2>3. mail' = [mail EXCEPT ![m] = e] /\ circuit' = circuit /\ relay' = relay
    BY <1>5 DEF Accept
  <2> QED BY <1>0, <2>2, <2>3, OneMailSound
<1>12. ASSUME NEW m \in Mails, Raise(m) PROVE DeliveryInv'
  <2>1. PICK taken \in {0, 1} :
          mail' = [mail EXCEPT ![m].phase = "raised", ![m].got = @ + taken, ![m].broken = @ + taken]
    BY <1>12 DEF Raise
  <2> DEFINE got == mail[m].got + taken
             broken == mail[m].broken + taken
             e == [mail[m] EXCEPT !.phase = "raised", !.got = got, !.broken = broken]
  <2>2. /\ got \in Nat /\ broken \in Nat /\ mail[m] \in Entry
        /\ Owed("raised", mail[m].late, got, broken)
    BY <1>0, <1>12, SoundFields DEF Raise, Owed
  <2>3. mail' = [mail EXCEPT ![m] = e] /\ circuit' = circuit /\ relay' = relay
    BY <1>12, <2>1 DEF Raise
  <2>4. e \in Sound
    <3> HIDE DEF got, broken
    <3> QED BY <2>2, Edited, Phases, Zenon
  <2> QED BY <1>0, <2>3, <2>4, OneMailSound
<1>6. ASSUME NEW m \in Mails, Return(m) PROVE DeliveryInv'
  <2> DEFINE ok == mail[m].phase = "answered"
             phase == IF ok \/ mail[m].left = 0 THEN "done" ELSE "ready"
  <2>1. Settled(mail[m], ok) = [mail[m] EXCEPT !.phase = phase, !.probe = FALSE]
    BY DEF Settled
  <2>2. phase \in Phase /\ mail[m] \in Entry /\ Owed(phase, mail[m].late, mail[m].got, mail[m].broken)
    BY <1>0, <1>6, SoundFields, Phases DEF Return, Owed
  <2>3. Settled(mail[m], ok) \in Sound
    <3> HIDE DEF ok, phase
    <3> QED BY <2>1, <2>2, Edited, Zenon
  <2> QED BY <1>6, <2>3, ReportSound DEF Return
<1>7. ASSUME NEW m \in Mails, TimeOut(m) PROVE DeliveryInv'
  <2> DEFINE late == mail[m].phase = "hung"
             gone == mail[m].stale
  <2>1. AfterTimeout(mail[m]) = [mail[m] EXCEPT !.phase = "done", !.probe = FALSE,
                                                !.late = late, !.gone = gone]
    BY DEF AfterTimeout
  <2>2. /\ late \in BOOLEAN /\ gone \in BOOLEAN
        /\ mail[m] \in Entry /\ Owed("done", late, mail[m].got, mail[m].broken)
    BY <1>0, <1>7, SoundFields DEF TimeOut, Owed
  <2>3. AfterTimeout(mail[m]) \in Sound
    <3> HIDE DEF late, gone
    <3>0. \A p \in BOOLEAN, l \in BOOLEAN, g \in BOOLEAN : Owed("done", l, mail[m].got, mail[m].broken) =>
            [mail[m] EXCEPT !.phase = "done", !.probe = p, !.late = l, !.gone = g] \in Sound
      BY <2>2, Edited, Phases
    <3>1. [mail[m] EXCEPT !.phase = "done", !.probe = FALSE, !.late = late, !.gone = gone] \in Sound
      BY <2>2, <3>0, Zenon
    <3> QED BY <2>1, <3>1
  <2> QED BY <1>7, <2>3, ReportSound DEF TimeOut
<1>8. ASSUME NEW m \in Mails, Drain(m) PROVE DeliveryInv'
  <2>0. mail[m].got = mail[m].broken
    BY <1>0, <1>8, SoundFields DEF Drain, Owed
  <2>1. PICK got \in {mail[m].got, mail[m].got + 1} :
          mail' = [mail EXCEPT ![m].late = FALSE, ![m].gone = FALSE, ![m].got = got]
    <3>1. PICK ok \in BOOLEAN :
            mail' = [mail EXCEPT ![m].late = FALSE, ![m].gone = FALSE,
                                 ![m].got = IF ok THEN @ + 1 ELSE @]
      BY <1>8 DEF Drain
    <3>2. CASE ok
      BY <2>0, <3>1, <3>2
    <3>3. CASE ~ ok
      BY <2>0, <3>1, <3>3
    <3> QED BY <3>2, <3>3
  <2> DEFINE e == [mail[m] EXCEPT !.late = FALSE, !.gone = FALSE, !.got = got]
  <2>2. got \in Nat /\ mail[m] \in Entry /\ Owed(mail[m].phase, FALSE, got, mail[m].broken)
    BY <1>0, <1>8, SoundFields DEF Drain, Owed
  <2>3. e \in Sound
    BY <2>2, Edited, Zenon
  <2>4. mail' = [mail EXCEPT ![m] = e] /\ circuit' = circuit /\ relay' = relay
    BY <1>8, <2>1 DEF Drain
  <2> QED BY <1>0, <2>3, <2>4, OneMailSound
<1>9. CASE Cool
  BY <1>9, <1>0 DEF Cool, DeliveryInv, Circuit
<1>10. CASE RelayChanges
  <2> DEFINE e(n) == IF relay = "up" /\ mail[n].phase = "running"
                     THEN [mail[n] EXCEPT !.phase = "hung"] ELSE mail[n]
  <2>1. ASSUME NEW n \in Mails PROVE e(n) \in Sound
    <3>1. CASE mail[n].phase = "running"
      <4>1. mail[n] \in Entry /\ Owed("hung", mail[n].late, mail[n].got, mail[n].broken)
        BY <1>0, <3>1, SoundFields DEF Owed
      <4>2. [mail[n] EXCEPT !.phase = "hung"] \in Sound
        BY <4>1, Edited, Phases, Zenon
      <4> QED BY <1>0, <4>2
    <3> QED BY <1>0, <3>1
  <2>2. mail' = [n \in Mails |-> e(n)] /\ circuit' = circuit /\ relay' \in {"up", "hangs"}
    BY <1>10 DEF RelayChanges
  <2> HIDE DEF e
  <2> QED BY <1>0, <2>1, <2>2 DEF DeliveryInv
<1>11. CASE UNCHANGED mailVars
  BY <1>11 DEF mailVars, DeliveryInv
<1> QED BY <1>1, <1>2, <1>3, <1>4, <1>5, <1>6, <1>7, <1>8, <1>9, <1>10, <1>11, <1>12 DEF MailNext, Thread

-----------------------------------------------------------------------------
\* Nobody gets a mail again but for conversations that broke off after the relay had
\* taken it, whatever was given up, cancelled, abandoned or delivered late
\* (EmailConnector.send, _SendCircuit).
THEOREM MailRepeatsAreBroken == MailSpec => []RepeatsAreBroken
<1>1. DeliveryInv => RepeatsAreBroken
  BY SoundFields DEF DeliveryInv, Owed, RepeatsAreBroken
<1> QED BY InitDelivery, StepDelivery, <1>1, PTL DEF MailSpec

-----------------------------------------------------------------------------
\* The strengthening of ProbeAccounted.  While the breaker is half-open, nothing
\* but its probe is in flight: the cooldown has outlasted the sends from before.
\* So nobody else's outcome can trip or close it, which would strand the probe.
ProbeInv ==
  /\ \A m \in Mails : mail[m].probe => mail[m].phase \in InFlight /\ ~ mail[m].stale
  /\ circuit.probe <=> \E m \in Mails : mail[m].probe
  /\ circuit.probe => circuit.open /\ circuit.cooled
  /\ circuit.open /\ circuit.cooled =>
       \A m \in Mails : mail[m].phase \in InFlight => mail[m].probe
  /\ \A m, n \in Mails : mail[m].probe /\ mail[n].probe => m = n

\* Steps that leave the breaker alone, and put nothing in flight or out of it.
LEMMA QuietProbes ==
  ASSUME ProbeInv, circuit' = circuit,
         \A n \in Mails : /\ mail'[n].probe <=> mail[n].probe
                          /\ mail'[n].stale => mail[n].stale
                          /\ mail'[n].phase \in InFlight <=> mail[n].phase \in InFlight
  PROVE  ProbeInv'
BY DEF ProbeInv, InFlight

\* An outcome is recorded for a mail in flight, which thereby leaves the air.  If
\* there is a probe it is that mail, whatever the outcome.
LEMMA ReportProbes ==
  ASSUME ProbeInv, DeliveryInv, NEW m \in Mails, NEW e \in Sound, NEW timedOut \in BOOLEAN,
         mail[m].phase \in InFlight, e.phase \notin InFlight, ~ e.probe,
         Report(m, e, timedOut)
  PROVE  ProbeInv'
<1>1. \A n \in Mails : n # m => ~ mail[n].probe
  BY DEF ProbeInv
<1>2. ~ circuit.probe \/ mail[m].probe
  BY <1>1 DEF ProbeInv
<1>3. ~ circuit'.probe
  BY <1>2 DEF Report, Recorded, Tripped, DeliveryInv, Circuit
<1>4. \A n \in Mails : ~ mail'[n].probe
  <2>1. CASE timedOut /\ Trips(circuit)
    <3>1. \A n \in Mails : mail'[n] = Abandoned(IF n = m THEN e ELSE mail[n])
      BY <2>1 DEF Report
    <3>2. \A d \in Sound : Abandoned(d).probe = d.probe
      BY SoundFields DEF Abandoned, Entry
    <3>3. \A n \in Mails : (IF n = m THEN e ELSE mail[n]) \in Sound
                           /\ ~ (IF n = m THEN e ELSE mail[n]).probe
      BY <1>1 DEF DeliveryInv
    <3> QED BY <3>1, <3>2, <3>3
  <2>2. CASE ~ (timedOut /\ Trips(circuit))
    BY <1>1, <2>2 DEF Report, DeliveryInv
  <2> QED BY <2>1, <2>2
<1>5. ~ (circuit'.open /\ circuit'.cooled)
  <2>1. CASE timedOut /\ Trips(circuit)
    BY <2>1 DEF Report, Recorded, Tripped, DeliveryInv, Circuit
  <2>2. CASE timedOut /\ ~ Trips(circuit)
    BY <2>2 DEF Report, Recorded, Trips, DeliveryInv, Circuit
  <2>3. CASE ~ timedOut
    BY <2>3 DEF Report, Recorded, DeliveryInv, Circuit
  <2> QED BY <2>1, <2>2, <2>3
<1> QED BY <1>3, <1>4, <1>5 DEF ProbeInv

LEMMA StepProbes == Outlasts /\ DeliveryInv /\ ProbeInv /\ [MailNext]_mailVars => ProbeInv'
<1> SUFFICES ASSUME Outlasts, DeliveryInv, ProbeInv, [MailNext]_mailVars PROVE ProbeInv'
  OBVIOUS
<1>0. circuit \in Circuit /\ mail \in [Mails -> Sound]
  BY DEF DeliveryInv
<1>00. \A m \in Mails : mail[m] \in Sound /\ mail[m] \in Entry
  BY <1>0, SoundFields
<1>1. ASSUME NEW m \in Mails, TakeUp(m) PROVE ProbeInv'
  <2>1. ~ mail[m].probe
    BY <1>1 DEF TakeUp, ProbeInv, InFlight
  <2> QED BY <1>0, <1>00, <1>1, <2>1, QuietProbes DEF TakeUp, NewMail, InFlight
<1>2. ASSUME NEW m \in Mails, Acquire(m) PROVE ProbeInv'
  <2> DEFINE probes == circuit.open /\ circuit.cooled /\ ~ circuit.probe
  <2>0. ~ mail[m].probe
    BY <1>2 DEF Acquire, ProbeInv, InFlight
  <2>1. CASE probes
    <3>1. \A n \in Mails : ~ mail[n].probe /\ mail[n].phase \notin InFlight
      BY <2>1 DEF ProbeInv
    <3>2. /\ mail'[m].probe /\ ~ mail'[m].stale /\ mail'[m].phase = "granted"
          /\ \A n \in Mails : n # m => mail'[n] = mail[n]
      BY <1>0, <1>00, <1>2, <2>1 DEF Acquire, Entry
    <3>3. circuit'.open /\ circuit'.cooled /\ circuit'.probe
      BY <1>0, <1>2, <2>1 DEF Acquire, Circuit
    <3>4. "granted" \in InFlight
      BY DEF InFlight, Phase
    <3> QED BY <3>1, <3>2, <3>3, <3>4 DEF ProbeInv
  <2>2. CASE ~ circuit.open
    <3>1. \A n \in Mails : ~ mail[n].probe
      BY <2>2 DEF ProbeInv
    <3>2. \A n \in Mails : ~ mail'[n].probe
      BY <1>0, <1>00, <1>2, <2>2, <3>1 DEF Acquire, Entry
    <3>3. ~ circuit'.open /\ ~ circuit'.probe
      BY <1>0, <1>2, <2>2 DEF Acquire, Circuit, ProbeInv
    <3> QED BY <3>2, <3>3 DEF ProbeInv
  <2>3. CASE circuit.open /\ ~ probes
    BY <1>0, <1>00, <1>2, <2>3, QuietProbes DEF Acquire, InFlight, Entry
  <2> QED BY <2>1, <2>2, <2>3
<1>3. ASSUME NEW m \in Mails, Submit(m) PROVE ProbeInv'
  <2>0. mail[m].phase = "granted" /\ mail[m].phase \in InFlight
    BY <1>3 DEF Submit, InFlight, Phase
  <2>1. CASE mail[m].stale
    <3> DEFINE e == [mail[m] EXCEPT !.phase = "done"]
    <3>1. mail[m] \in Entry /\ Owed("done", mail[m].late, mail[m].got, mail[m].broken)
      BY <1>0, <1>00, <2>0, SoundFields DEF Owed
    <3>2. e \in Sound
      BY <3>1, Edited, Phases, Zenon
    <3>3. e.phase \notin InFlight /\ ~ e.probe
      BY <2>1, <3>1 DEF ProbeInv, InFlight, Entry
    <3> QED BY <1>3, <2>0, <2>1, <3>2, <3>3, ReportProbes DEF Submit
  <2>2. CASE ~ mail[m].stale
    BY <1>0, <1>00, <1>3, <2>2, QuietProbes DEF Submit, InFlight, Phase, Entry
  <2> QED BY <2>1, <2>2
<1>4. ASSUME NEW m \in Mails, Start(m) PROVE ProbeInv'
  BY <1>0, <1>00, <1>4, QuietProbes DEF Start, InFlight, Phase, Entry
<1>5. ASSUME NEW m \in Mails, Accept(m) PROVE ProbeInv'
  BY <1>0, <1>00, <1>5, QuietProbes DEF Accept, InFlight, Phase, Entry
<1>12. ASSUME NEW m \in Mails, Raise(m) PROVE ProbeInv'
  <2>1. PICK taken \in {0, 1} :
          mail' = [mail EXCEPT ![m].phase = "raised", ![m].got = @ + taken, ![m].broken = @ + taken]
    BY <1>12 DEF Raise
  <2> QED BY <1>0, <1>00, <1>12, <2>1, QuietProbes DEF Raise, InFlight, Phase, Entry
<1>6. ASSUME NEW m \in Mails, Return(m) PROVE ProbeInv'
  <2> DEFINE ok == mail[m].phase = "answered"
             phase == IF ok \/ mail[m].left = 0 THEN "done" ELSE "ready"
             e == Settled(mail[m], ok)
  <2>1. e = [mail[m] EXCEPT !.phase = phase, !.probe = FALSE]
    BY DEF Settled
  <2>2. phase \in Phase /\ Owed(phase, mail[m].late, mail[m].got, mail[m].broken) /\ phase \notin InFlight
    BY <1>0, <1>6, SoundFields, Phases DEF Return, Owed, InFlight
  <2>3. e \in Sound /\ e.phase \notin InFlight /\ ~ e.probe
    <3>1. e \in Sound
      <4> HIDE DEF ok, phase, e
      <4> QED BY <1>00, <2>1, <2>2, Edited, Zenon
    <3>2. e.phase = phase /\ ~ e.probe
      BY <1>00, <2>1 DEF Entry
    <3> QED BY <2>2, <3>1, <3>2
  <2>4. mail[m].phase \in InFlight
    BY <1>6 DEF Return, InFlight, Phase
  <2> QED BY <1>6, <2>3, <2>4, ReportProbes DEF Return
<1>7. ASSUME NEW m \in Mails, TimeOut(m) PROVE ProbeInv'
  <2> DEFINE e == AfterTimeout(mail[m])
             late == mail[m].phase = "hung"
  <2>1. e = [mail[m] EXCEPT !.phase = "done", !.probe = FALSE, !.late = late, !.gone = mail[m].stale]
    BY DEF AfterTimeout
  <2>2. late \in BOOLEAN /\ mail[m].stale \in BOOLEAN /\ Owed("done", late, mail[m].got, mail[m].broken)
    BY <1>0, <1>7, SoundFields DEF TimeOut, Owed
  <2>3. e \in Sound
    <3> HIDE DEF late, e
    <3>1. \A p \in BOOLEAN, l \in BOOLEAN, g \in BOOLEAN : Owed("done", l, mail[m].got, mail[m].broken) =>
            [mail[m] EXCEPT !.phase = "done", !.probe = p, !.late = l, !.gone = g] \in Sound
      BY <1>00, Edited, Phases
    <3> QED BY <2>1, <2>2, <3>1, Zenon
  <2>4. e.phase = "done" /\ ~ e.probe
    BY <1>00, <2>1 DEF Entry
  <2>5. e.phase \notin InFlight /\ mail[m].phase \in InFlight
    BY <1>7, <2>4 DEF TimeOut, InFlight, Phase
  <2> QED BY <1>7, <2>3, <2>4, <2>5, ReportProbes DEF TimeOut
<1>8. ASSUME NEW m \in Mails, Drain(m) PROVE ProbeInv'
  BY <1>0, <1>00, <1>8, QuietProbes DEF Drain, Entry
<1>9. CASE Cool
  BY <1>0, <1>9 DEF Cool, ProbeInv, Circuit
<1>10. CASE RelayChanges
  BY <1>0, <1>00, <1>10, QuietProbes DEF RelayChanges, InFlight, Phase, Entry
<1>11. CASE UNCHANGED mailVars
  BY <1>11, QuietProbes DEF mailVars
<1> QED BY <1>1, <1>2, <1>3, <1>4, <1>5, <1>6, <1>7, <1>8, <1>9, <1>10, <1>11, <1>12 DEF MailNext, Thread

LEMMA InitProbes == MailInit => ProbeInv
BY DEF MailInit, ProbeInv, NewMail, Closed, InFlight

LEMMA ProbesCounted == ProbeInv => ProbeAccounted
<1> SUFFICES ASSUME ProbeInv PROVE ProbeAccounted
  OBVIOUS
<1>1. Probes = {m \in Mails : mail[m].probe}
  BY DEF Probes, ProbeInv
<1>2. circuit.probe <=> Probes # {}
  BY <1>1 DEF ProbeInv
<1>3. Cardinality(Probes) <= 1
  <2>1. CASE Probes = {}
    <3>1. Cardinality({}) = 0
      BY FS_EmptySet
    <3> QED BY <2>1, <3>1
  <2>2. CASE Probes # {}
    <3>0. PICK m \in Mails : mail[m].probe
      BY <1>1, <2>2
    <3>1. Probes = {m}
      BY <1>1, <3>0 DEF ProbeInv
    <3>2. Cardinality({m}) = 1
      BY FS_Singleton
    <3> QED BY <3>1, <3>2
  <2> QED BY <2>1, <2>2
<1> QED BY <1>2, <1>3 DEF ProbeAccounted

\* If the cooldown outlasts a send, as configured, the breaker waits for a probe
\* exactly while one is in flight, and lets a single one through: its outcome is
\* never lost, so the breaker never refuses mail for good (_SendCircuit).
THEOREM ProbesAccounted == Outlasts => (MailSpec => []ProbeAccounted)
<1>1. ASSUME Outlasts PROVE MailSpec => []ProbeAccounted
  <2>1. Outlasts /\ DeliveryInv /\ ProbeInv /\ [MailNext]_mailVars => (DeliveryInv /\ ProbeInv)'
    BY StepDelivery, StepProbes
  <2>2. DeliveryInv /\ ProbeInv /\ [MailNext]_mailVars => (DeliveryInv /\ ProbeInv)'
    BY <1>1, <2>1
  <2>3. MailInit => DeliveryInv /\ ProbeInv
    BY InitDelivery, InitProbes
  <2> QED BY <2>2, <2>3, ProbesCounted, PTL DEF MailSpec
<1> QED BY <1>1
===============================================================================
