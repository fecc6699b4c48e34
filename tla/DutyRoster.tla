----------------------------- MODULE DutyRoster -----------------------------
(***************************************************************************)
(* The duty roster: its editors (api/routers/schedules.py) and the notice  *)
(* that a shift has begun (check_duty_start of issue_management/assign.py).*)
(*                                                                         *)
(* A request and a check of the controller read what is committed, and     *)
(* write in a step of their own: between the two, others may commit.       *)
(***************************************************************************)
EXTENDS Integers, FiniteSets

CONSTANTS Members,     \* the users that may be put on duty
          Slots,       \* identities of schedule rows
          Horizon,     \* the clock runs from 0 to Horizon
          Editors,     \* requests that may be under way at once
          Controllers, \* processes that run the monitoring tick
          MaxEdits,    \* bound on the requests of a behaviour
          NoShift

ASSUME RosterAssumption == Horizon \in Nat /\ IsFiniteSet(Slots)

VARIABLES
  clock,
  shifts,    \* the schedules table
  announced, \* how many duty_started notices each member has of each shift
  edits,     \* what each request under way is about to write
  checks,    \* the notices each controller is about to write, if it checks
  begun,     \* requests so far
  raced      \* history: the pairs of rows whose last edits overlapped

vars == <<clock, shifts, announced, edits, checks, begun, raced>>

Times == 0..Horizon
Shift == [who : Members, from : Times, to : Times, primary : BOOLEAN]
Idle  == [slot |-> "none"]

Init ==
  /\ clock = 0
  /\ shifts = [s \in Slots |-> NoShift]
  /\ announced = [s \in Slots |-> [m \in Members |-> 0]]
  /\ edits = [e \in Editors |-> Idle]
  /\ checks = [c \in Controllers |-> Idle]
  /\ begun = 0 /\ raced = {}

Rows == {s \in Slots : shifts[s] # NoShift}

-----------------------------------------------------------------------------
(***************************************************************************)
(* Editing the roster *)
(***************************************************************************)

Overlap(a, b) == a.from < b.to /\ b.from < a.to

\* Mutant: only the Primary duties are compared.
ConflictsPrimary(s, shift) ==
  {r \in Rows \ {s} : Overlap(shifts[r], shift) /\ shifts[r].primary /\ shift.primary}

\* The rows other than s that stand in the way of putting shift into s.
Conflicts(s, shift) ==
  {r \in Rows \ {s} : /\ Overlap(shifts[r], shift)
                      /\ \/ shifts[r].who = shift.who
                         \/ shifts[r].primary /\ shift.primary}

\* What a request lets through; a refused one changes nothing.
Accepted(s, shift) == shift.to > shift.from /\ Conflicts(s, shift) = {}

\* A request that has made its checks.  during: whose edits were committed since.
Begin(e, s, shift) ==
  /\ begun < MaxEdits /\ begun' = begun + 1
  /\ edits[e] = Idle /\ Accepted(s, shift)
  /\ edits' = [edits EXCEPT ![e] = [slot |-> s, shift |-> shift, was |-> shifts[s], during |-> {}]]
  /\ UNCHANGED <<clock, shifts, announced, checks, raced>>

\* The identities no row has, had, or is about to get.
Unused == {s \in Slots \ Rows : /\ \A m \in Members : announced[s][m] = 0
                                /\ \A d \in Editors : edits[d].slot # s}

\* create_schedule, up to its checks.
RequestCreate(e, shift) ==
  /\ Unused # {}
  /\ Begin(e, CHOOSE s \in Unused : TRUE, shift)

\* update_schedule, up to its checks: any of the fields given is changed.
RequestUpdate(e, s, shift) ==
  /\ s \in Rows /\ shift # shifts[s]
  /\ Begin(e, s, shift)

\* The fields a request found or made different from what it loaded.
Merged(edit, row) ==
  IF edit.was = NoShift THEN edit.shift
  ELSE [f \in DOMAIN row |-> IF edit.shift[f] # edit.was[f] THEN edit.shift[f] ELSE row[f]]

\* The pairs of rows left once s is written, or deleted: it is checked anew.
RacedWithout(s) == {pair \in raced : s \notin pair}

\* A request under way while row s is written.
Overtaken(edit, s) ==
  [slot |-> edit.slot, shift |-> edit.shift, was |-> edit.was, during |-> edit.during \cup {s}]

\* The commit of a request: an update of a row deleted meanwhile fails.
CommitEdit(e) ==
  /\ edits[e] # Idle
  /\ LET s == edits[e].slot
     IN IF edits[e].was # NoShift /\ s \notin Rows
        THEN /\ edits' = [edits EXCEPT ![e] = Idle]
             /\ UNCHANGED <<shifts, raced>>
        ELSE /\ shifts' = [shifts EXCEPT ![s] = Merged(edits[e], @)]
             /\ raced' = RacedWithout(s) \cup {{s, r} : r \in edits[e].during}
             /\ edits' = [d \in Editors |->
                  IF d = e \/ edits[d] = Idle THEN Idle ELSE Overtaken(edits[d], s)]
  /\ UNCHANGED <<clock, announced, checks, begun>>

\* delete_schedule
DeleteShift(s) ==
  /\ begun < MaxEdits /\ begun' = begun + 1
  /\ s \in Rows
  /\ shifts' = [shifts EXCEPT ![s] = NoShift]
  /\ raced' = RacedWithout(s)
  /\ UNCHANGED <<clock, announced, edits, checks>>

-----------------------------------------------------------------------------
(***************************************************************************)
(* check_duty_start *)
(***************************************************************************)

\* get_current_on_duty_schedules: both ends of a shift belong to it.
Active == {s \in Rows : shifts[s].from <= clock /\ clock <= shifts[s].to}

\* Mutant: one notice per member, not per row.
DuePerMember ==
  {<<s, shifts[s].who>> : s \in {r \in Active : \A q \in Slots : announced[q][shifts[r].who] = 0}}

\* The shifts that are on and whose member has no notice of this row yet.
Due == {<<s, shifts[s].who>> : s \in {r \in Active : announced[r][shifts[r].who] = 0}}

BeginCheck(c) ==
  /\ checks[c] = Idle
  /\ Due # {}
  /\ checks' = [checks EXCEPT ![c] = [slot |-> "all", due |-> Due]]
  /\ UNCHANGED <<clock, shifts, announced, edits, begun, raced>>

\* The commit of the notices of one check.
CommitCheck(c) ==
  /\ checks[c] # Idle
  /\ checks' = [checks EXCEPT ![c] = Idle]
  /\ announced' = [s \in Slots |-> [m \in Members |->
                     announced[s][m] + IF <<s, m>> \in checks[c].due THEN 1 ELSE 0]]
  /\ UNCHANGED <<clock, shifts, edits, begun, raced>>

\* The commit fails, or the process dies: nothing is remembered.
LoseCheck(c) ==
  /\ checks[c] # Idle
  /\ checks' = [checks EXCEPT ![c] = Idle]
  /\ UNCHANGED <<clock, shifts, announced, edits, begun, raced>>

Advance ==
  /\ clock < Horizon
  /\ clock' = clock + 1
  /\ UNCHANGED <<shifts, announced, edits, checks, begun, raced>>

-----------------------------------------------------------------------------
Check(c) == BeginCheck(c) \/ CommitCheck(c) \/ LoseCheck(c)

Next ==
  \/ \E e \in Editors, shift \in Shift :
       RequestCreate(e, shift) \/ \E s \in Slots : RequestUpdate(e, s, shift)
  \/ \E e \in Editors : CommitEdit(e)
  \/ \E s \in Slots : DeleteShift(s)
  \/ \E c \in Controllers : Check(c)
  \/ Advance

\* The daemon loop checks at every tick, and commits do not fail forever.
Fairness == \A c \in Controllers : WF_vars(Check(c)) /\ SF_vars(CommitCheck(c))

Spec == Init /\ [][Next]_vars /\ Fairness

-----------------------------------------------------------------------------
(***************************************************************************)
(* Properties *)
(***************************************************************************)

\* Rows that exclude each other: one member twice at a time, or two Primaries.
Clash(r, s) ==
  /\ Overlap(shifts[r], shifts[s])
  /\ shifts[r].who = shifts[s].who \/ (shifts[r].primary /\ shifts[s].primary)

\* Two rows clash only if their edits overlapped, or those of one of them did: one
\* was committed between the checks and the commit of the other.  Requests that
\* come one after the other keep the roster consistent, and an edit that is alone
\* repairs what it touches (create_schedule and update_schedule).
ClashesWereRaced ==
  \A r, s \in Rows : r # s /\ Clash(r, s) => {{r, s}, {r}, {s}} \cap raced # {}

\* No two rows clash, as "This user already has an overlapping duty" and "A Primary
\* duty already exists in this time range" say (schedules.py).
RosterConsistent == \A r, s \in Rows : r # s => ~ Clash(r, s)

\* Nobody is told twice of a shift.
AnnouncedOnce == \A s \in Slots, m \in Members : announced[s][m] <= 1

\* A shift that is on, whose member has no notice of it.
Unannounced(s) == s \in Active /\ announced[s][shifts[s].who] = 0

\* Whoever is on duty is told, unless the shift ends first, whoever it is given to
\* meanwhile - and told once, however long the shift lasts and however often checks
\* fail (check_duty_start deduplicates on the stored notices).
AnnouncedExactlyOnce ==
  /\ []AnnouncedOnce
  /\ \A s \in Slots : Unannounced(s) ~> ~ Unannounced(s)
=============================================================================
