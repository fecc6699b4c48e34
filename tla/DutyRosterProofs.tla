---------------------------- MODULE DutyRosterProofs ----------------------------
(***************************************************************************)
(* Theorems about DutyRoster, for any members, slots and times: however    *)
(* many requests edit the roster at once, two rows clash only if their     *)
(* edits overlapped; if one controller checks it, nobody is told of a      *)
(* shift twice.                                                            *)
(***************************************************************************)
EXTENDS DutyRoster, TLAPS

\* A request under way was accepted.  What it was accepted against may have lost
\* rows since, its own row among them; what was written since is in during.
Valid(edit) ==
  /\ edit.slot \in Slots /\ edit.shift \in Shift
  /\ Conflicts(edit.slot, edit.shift) \subseteq edit.during
  /\ \/ edit.was = shifts[edit.slot]
     \/ edit.was # NoShift /\ edit.slot \notin Rows
     \/ edit.slot \in edit.during
  /\ edit.was \in Shift \cup {NoShift}

\* The inductive invariant.
RosterInv ==
  /\ shifts \in [Slots -> Shift \cup {NoShift}]
  /\ DOMAIN edits = Editors
  /\ \A e \in Editors : edits[e] # Idle => Valid(edits[e])
  /\ ClashesWereRaced

-----------------------------------------------------------------------------
LEMMA OverlapIsMutual == \A a, b : Overlap(a, b) <=> Overlap(b, a)
BY DEF Overlap

LEMMA InitRoster == Init => RosterInv
BY DEF Init, RosterInv, ClashesWereRaced, Rows

\* A request is accepted.
LEMMA BeginRoster ==
  ASSUME RosterInv, NEW e \in Editors, NEW s \in Slots, NEW shift \in Shift, Begin(e, s, shift)
  PROVE  RosterInv'
<1> DEFINE edit == [slot |-> s, shift |-> shift, was |-> shifts[s], during |-> {}]
<1>1. /\ edits' = [edits EXCEPT ![e] = edit] /\ shifts' = shifts /\ raced' = raced
      /\ Conflicts(s, shift) = {}
  BY DEF Begin, Accepted
<1>2. shifts[s] \in Shift \cup {NoShift}
  BY DEF RosterInv
<1>3. Valid(edit)
  BY <1>1, <1>2 DEF Valid
<1>4. \A d : Valid(d) => Valid(d)'
  BY <1>1 DEF Valid, Conflicts, Rows
<1>5. ClashesWereRaced'
  BY <1>1 DEF ClashesWereRaced, Clash, Rows, RosterInv
<1> HIDE DEF edit
<1> QED BY <1>1, <1>3, <1>4, <1>5 DEF RosterInv

\* What a request writes is a shift, and the one it was accepted with if its row
\* is the one it read.
LEMMA MergedIsShift ==
  ASSUME RosterInv, NEW edit, Valid(edit), edit.was = NoShift \/ edit.slot \in Rows
  PROVE  /\ Merged(edit, shifts[edit.slot]) \in Shift
         /\ edit.was = shifts[edit.slot] => Merged(edit, shifts[edit.slot]) = edit.shift
<1>1. CASE edit.was = NoShift
  BY <1>1 DEF Merged, Valid
<1>2. CASE edit.was # NoShift
  <2> DEFINE row == shifts[edit.slot]
             shift == edit.shift
             merged == [f \in DOMAIN row |-> IF shift[f] # edit.was[f] THEN shift[f] ELSE row[f]]
  <2>1. row \in Shift /\ shift \in Shift
    BY <1>2 DEF Valid, RosterInv, Rows
  <2>2. Merged(edit, row) = merged
    BY <1>2 DEF Merged
  <2>3. DOMAIN row = DOMAIN shift /\ DOMAIN row = {"who", "from", "to", "primary"}
    BY <2>1 DEF Shift
  <2>4. /\ merged.who \in Members /\ merged.from \in Times /\ merged.to \in Times
        /\ merged.primary \in BOOLEAN
    BY <2>1, <2>3 DEF Shift
  <2>5. merged \in Shift
    <3>1. merged = [who |-> merged.who, from |-> merged.from, to |-> merged.to, primary |-> merged.primary]
      BY <2>3
    <3> HIDE DEF merged
    <3> QED BY <2>4, <3>1 DEF Shift
  <2>6. ASSUME edit.was = row PROVE merged = shift
    <3>1. merged = [f \in DOMAIN shift |-> shift[f]]
      BY <2>3, <2>6
    <3>2. shift = [f \in DOMAIN shift |-> shift[f]]
      BY <2>1 DEF Shift
    <3> QED BY <3>1, <3>2
  <2> QED BY <2>2, <2>5, <2>6
<1> QED BY <1>1, <1>2

LEMMA CommitRoster ==
  ASSUME RosterInv, NEW e \in Editors, CommitEdit(e)
  PROVE  RosterInv'
<1> DEFINE edit == edits[e]
           s == edit.slot
           dropped == edit.was # NoShift /\ s \notin Rows
<1>1. edit # Idle /\ Valid(edit)
  BY DEF CommitEdit, RosterInv
<1>2. s \in Slots /\ edit.shift \in Shift
  BY <1>1 DEF Valid
<1>3. CASE dropped
  <2>1. shifts' = shifts /\ raced' = raced /\ edits' = [edits EXCEPT ![e] = Idle]
    BY <1>3 DEF CommitEdit
  <2>2. \A d : Valid(d) => Valid(d)'
    BY <2>1 DEF Valid, Conflicts, Rows
  <2>3. ClashesWereRaced'
    BY <2>1 DEF ClashesWereRaced, Clash, Rows, RosterInv
  <2> QED BY <2>1, <2>2, <2>3 DEF RosterInv
<1>4. CASE ~ dropped
  <2> DEFINE new == Merged(edit, shifts[s])
  <2>1. /\ shifts' = [shifts EXCEPT ![s] = new]
        /\ raced' = RacedWithout(s) \cup {{s, r} : r \in edit.during}
        /\ edits' = [d \in Editors |-> IF d = e \/ edits[d] = Idle THEN Idle
                                       ELSE Overtaken(edits[d], s)]
    BY <1>4 DEF CommitEdit
  <2>2. /\ new \in Shift
        /\ edit.was = shifts[s] => new = edit.shift
        /\ (edit.was = shifts[s]) \/ (s \in edit.during)
    BY <1>1, <1>4, MergedIsShift DEF Valid
  <2> HIDE DEF new
  <2>3. \A x \in Slots : shifts'[x] = IF x = s THEN new ELSE shifts[x]
    BY <1>2, <2>1 DEF RosterInv
  <2>4. shifts' \in [Slots -> Shift \cup {NoShift}]
    BY <1>2, <2>1, <2>2 DEF RosterInv
  <2>5. Rows' \subseteq Rows \cup {s}
    BY <2>3 DEF Rows
  <2>6. ASSUME NEW d \in Editors, edits'[d] # Idle PROVE Valid(edits[d])'
    <3>1. d # e /\ edits[d] # Idle /\ Valid(edits[d])
      BY <2>1, <2>6 DEF RosterInv
    <3>2. PICK old : old = edits[d]
      OBVIOUS
    <3>3. PICK late : late = edits'[d]
      OBVIOUS
    <3>4. /\ late.slot = old.slot /\ late.shift = old.shift /\ late.was = old.was
          /\ late.during = old.during \cup {s}
      BY <2>1, <3>1, <3>2, <3>3 DEF Overtaken
    <3>5. /\ old.slot \in Slots /\ old.shift \in Shift /\ old.was \in Shift \cup {NoShift}
          /\ Conflicts(old.slot, old.shift) \subseteq old.during
      BY <3>1, <3>2 DEF Valid
    <3>6. Conflicts(old.slot, old.shift)' \subseteq Conflicts(old.slot, old.shift) \cup {s}
      <4>1. ASSUME NEW x \in Rows', x # s PROVE x \in Rows /\ shifts'[x] = shifts[x]
        BY <2>3, <2>5, <4>1 DEF Rows
      <4> QED BY <4>1 DEF Conflicts
    <3>7. \/ late.was = shifts'[late.slot]
          \/ late.was # NoShift /\ late.slot \notin Rows'
          \/ late.slot \in late.during
      BY <2>3, <2>5, <3>1, <3>2, <3>4, <3>5 DEF Valid, Rows
    <3>8. Valid(late)'
      BY <3>4, <3>5, <3>6, <3>7 DEF Valid
    <3> QED BY <3>3, <3>8
  <2>7. ASSUME NEW r \in Rows', NEW t \in Rows', r # t, Clash(r, t)', t # s
        PROVE  {{r, t}, {r}, {t}} \cap raced' # {}
    <3>1. t \in Slots /\ t \in Rows /\ r \in Slots /\ (r # s => r \in Rows) /\ shifts'[t] = shifts[t]
      BY <2>3, <2>5, <2>7 DEF Rows
    <3>2. CASE r = s /\ s \in edit.during
      BY <2>1, <3>2
    <3>3. CASE r = s /\ s \notin edit.during
      <4>1. shifts'[r] = edit.shift
        BY <2>2, <2>3, <3>1, <3>3
      <4>2. t \in Conflicts(s, edit.shift)
        BY <2>7, <3>1, <3>3, <4>1, OverlapIsMutual DEF Clash, Conflicts
      <4>3. t \in edit.during
        BY <1>1, <4>2 DEF Valid
      <4> QED BY <2>1, <3>3, <4>3
    <3>4. CASE r # s
      <4>1. Clash(r, t)
        BY <2>3, <2>7, <3>1, <3>4 DEF Clash
      <4>2. {{r, t}, {r}, {t}} \cap raced # {}
        BY <2>7, <3>1, <3>4, <4>1 DEF RosterInv, ClashesWereRaced
      <4> QED BY <2>1, <2>7, <3>4, <4>2 DEF RacedWithout
    <3> QED BY <3>2, <3>3, <3>4
  <2>8. ASSUME NEW r \in Rows', NEW t \in Rows', r # t, Clash(r, t)'
        PROVE  {{r, t}, {r}, {t}} \cap raced' # {}
    <3>1. CASE t # s
      BY <2>7, <2>8, <3>1
    <3>2. CASE t = s
      <4>1. Clash(t, r)' /\ r # s
        BY <2>8, <3>2, OverlapIsMutual DEF Clash
      <4>2. {{t, r}, {t}, {r}} \cap raced' # {}
        BY <2>7, <2>8, <4>1
      <4> QED BY <4>2
    <3> QED BY <3>1, <3>2
  <2>9. ClashesWereRaced'
    BY <2>8 DEF ClashesWereRaced
  <2>10. DOMAIN edits' = Editors
    BY <2>1
  <2> QED BY <2>4, <2>6, <2>9, <2>10 DEF RosterInv
<1> QED BY <1>3, <1>4

LEMMA DeleteRoster ==
  ASSUME RosterInv, NEW s \in Slots, DeleteShift(s)
  PROVE  RosterInv'
<1>1. \A x \in Slots : shifts'[x] = IF x = s THEN NoShift ELSE shifts[x]
  BY DEF DeleteShift, RosterInv
<1>2. Rows' \subseteq Rows \ {s}
  BY <1>1 DEF Rows
<1>3. ASSUME NEW e \in Editors, edits[e] # Idle
      PROVE  Valid(edits[e])'
  <2>1. Valid(edits[e]) /\ edits' = edits
    BY <1>3 DEF RosterInv, DeleteShift
  <2>2. (Conflicts(edits[e].slot, edits[e].shift) \subseteq edits[e].during)'
    BY <1>1, <1>2, <2>1 DEF Valid, Conflicts, Rows
  <2>3. (\/ edits[e].was = shifts[edits[e].slot]
         \/ edits[e].was # NoShift /\ edits[e].slot \notin Rows
         \/ edits[e].slot \in edits[e].during)'
    BY <1>1, <1>2, <2>1 DEF Valid, Rows, DeleteShift
  <2> QED BY <2>1, <2>2, <2>3 DEF Valid
<1>4. ClashesWereRaced'
  <2>1. ASSUME NEW r \in Rows', NEW t \in Rows', r # t, Clash(r, t)'
        PROVE  {{r, t}, {r}, {t}} \cap raced' # {}
    <3>1. r \in Rows /\ t \in Rows /\ r # s /\ t # s
      BY <1>2
    <3>2. Clash(r, t)
      BY <1>1, <2>1, <3>1 DEF Clash, Rows
    <3>3. {{r, t}, {r}, {t}} \cap raced # {}
      BY <2>1, <3>1, <3>2 DEF RosterInv, ClashesWereRaced
    <3> QED BY <3>1, <3>3 DEF DeleteShift, RacedWithout
  <2> QED BY <2>1 DEF ClashesWereRaced
<1>5. shifts' \in [Slots -> Shift \cup {NoShift}] /\ edits' = edits
  BY DEF DeleteShift, RosterInv
<1> QED BY <1>3, <1>4, <1>5 DEF RosterInv

LEMMA StepRoster == RosterInv /\ [Next]_vars => RosterInv'
<1> SUFFICES ASSUME RosterInv, [Next]_vars PROVE RosterInv'
  OBVIOUS
<1>1. ASSUME NEW e \in Editors, NEW shift \in Shift, RequestCreate(e, shift)
      PROVE  RosterInv'
  <2> DEFINE s == CHOOSE r \in Unused : TRUE
  <2>1. s \in Slots
    <3>1. s \in Unused
      BY <1>1 DEF RequestCreate
    <3> QED BY <3>1 DEF Unused
  <2>2. Begin(e, s, shift)
    BY <1>1 DEF RequestCreate
  <2> HIDE DEF s
  <2> QED BY <2>1, <2>2, BeginRoster
<1>2. ASSUME NEW e \in Editors, NEW s \in Slots, NEW shift \in Shift, RequestUpdate(e, s, shift)
      PROVE  RosterInv'
  BY <1>2, BeginRoster DEF RequestUpdate
<1>3. CASE UNCHANGED <<shifts, edits, raced>>
  <2>1. \A d : Valid(d) => Valid(d)'
    BY <1>3 DEF Valid, Conflicts, Rows
  <2>2. ClashesWereRaced'
    BY <1>3 DEF ClashesWereRaced, Clash, Rows, RosterInv
  <2> QED BY <1>3, <2>1, <2>2 DEF RosterInv
<1>4. ASSUME NEW c \in Controllers, Check(c) PROVE UNCHANGED <<shifts, edits, raced>>
  BY <1>4 DEF Check, BeginCheck, CommitCheck, LoseCheck
<1>5. CASE Advance \/ UNCHANGED vars
  BY <1>3, <1>5 DEF Advance, vars
<1> QED BY <1>1, <1>2, <1>3, <1>4, <1>5, CommitRoster, DeleteRoster DEF Next

-----------------------------------------------------------------------------
\* However many requests edit the roster, and whatever is written or deleted
\* between the checks of a request and its commit, two rows clash only if the last
\* edits of them overlapped, or those of one of them did (create_schedule and
\* update_schedule of schedules.py).
THEOREM ClashesRaced == Spec => []ClashesWereRaced
<1>1. RosterInv => ClashesWereRaced
  BY DEF RosterInv
<1> QED BY InitRoster, StepRoster, <1>1, PTL DEF Spec

-----------------------------------------------------------------------------
(* Notices.                                                                   *)

OneController == \A c, d \in Controllers : c = d

\* A check that is about to commit writes only notices that nobody has: what it
\* read of them is still so, since nobody else writes any.
NoticeInv ==
  /\ announced \in [Slots -> [Members -> {0, 1}]]
  /\ DOMAIN checks = Controllers
  /\ \A c \in Controllers : checks[c] # Idle =>
       \A s \in Slots, m \in Members : <<s, m>> \in checks[c].due => announced[s][m] = 0

LEMMA InitNotices == Init => NoticeInv
BY DEF Init, NoticeInv

\* A check begins with what is due, which is what has not been announced.
LEMMA BeginNotices ==
  ASSUME NoticeInv, NEW c \in Controllers, BeginCheck(c)
  PROVE  NoticeInv'
<1>1. ASSUME NEW d \in Controllers, checks'[d] # Idle, NEW s \in Slots, NEW m \in Members,
             <<s, m>> \in checks'[d].due
      PROVE  announced'[s][m] = 0
  <2>1. CASE d = c
    <3>1. <<s, m>> \in Due
      BY <1>1, <2>1 DEF BeginCheck, NoticeInv
    <3> QED BY <3>1 DEF Due, BeginCheck
  <2>2. CASE d # c
    BY <1>1, <2>2 DEF BeginCheck, NoticeInv
  <2> QED BY <2>1, <2>2
<1> QED BY <1>1 DEF BeginCheck, NoticeInv

\* The commit of the only check adds to nothing that is there.
LEMMA CommitNotices ==
  ASSUME OneController, NoticeInv, NEW c \in Controllers, CommitCheck(c)
  PROVE  NoticeInv'
<1>1. DOMAIN checks' = Controllers /\ \A d \in Controllers : checks'[d] = Idle
  BY DEF CommitCheck, NoticeInv, OneController
<1>2. ASSUME NEW s \in Slots, NEW m \in Members
      PROVE  announced[s][m] + (IF <<s, m>> \in checks[c].due THEN 1 ELSE 0) \in {0, 1}
  BY DEF CommitCheck, NoticeInv
<1>3. announced' \in [Slots -> [Members -> {0, 1}]]
  BY <1>2 DEF CommitCheck
<1> QED BY <1>1, <1>3 DEF NoticeInv

LEMMA StepNotices == OneController /\ NoticeInv /\ [Next]_vars => NoticeInv'
<1> SUFFICES ASSUME OneController, NoticeInv, [Next]_vars PROVE NoticeInv'
  OBVIOUS
<1>1. CASE UNCHANGED <<announced, checks>>
  BY <1>1 DEF NoticeInv
<1>2. ASSUME NEW e \in Editors, NEW s \in Slots, NEW shift \in Shift,
             RequestUpdate(e, s, shift)
      PROVE  NoticeInv'
  BY <1>1, <1>2 DEF RequestUpdate, Begin
<1>7. ASSUME NEW e \in Editors, NEW shift \in Shift, RequestCreate(e, shift) PROVE NoticeInv'
  BY <1>1, <1>7 DEF RequestCreate, Begin
<1>3. ASSUME NEW e \in Editors, CommitEdit(e) PROVE NoticeInv'
  BY <1>1, <1>3 DEF CommitEdit
<1>4. ASSUME NEW s \in Slots, DeleteShift(s) PROVE NoticeInv'
  BY <1>1, <1>4 DEF DeleteShift
<1>5. ASSUME NEW c \in Controllers, LoseCheck(c) PROVE NoticeInv'
  BY <1>5 DEF LoseCheck, NoticeInv
<1>6. CASE Advance \/ UNCHANGED vars
  BY <1>1, <1>6 DEF Advance, vars
<1> QED BY <1>2, <1>3, <1>4, <1>5, <1>6, <1>7, BeginNotices, CommitNotices DEF Next, Check

\* With one controller nobody is told twice that a shift of his has begun,
\* however often commits fail and whatever changes in the roster while a check is
\* under way: the stored notices are what check_duty_start looks at (assign.py).
THEOREM NobodyToldTwice == OneController => (Spec => []AnnouncedOnce)
<1>1. ASSUME OneController PROVE Spec => []AnnouncedOnce
  <2>1. NoticeInv /\ [Next]_vars => NoticeInv'
    BY <1>1, StepNotices
  <2>2. NoticeInv => AnnouncedOnce
    BY DEF NoticeInv, AnnouncedOnce
  <2> QED BY InitNotices, <2>1, <2>2, PTL DEF Spec
<1> QED BY <1>1
=============================================================================
