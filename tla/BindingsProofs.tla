---------------------------- MODULE BindingsProofs ----------------------------
(***************************************************************************)
(* That an asset is polled in the CML project it means, and that its       *)
(* cached pair is one CML gave together, for any number of projects,       *)
(* assets, CML projects and requests.                                      *)
(***************************************************************************)
EXTENDS Bindings, TLAPS

\* The rows have the columns of their tables, and an asset's home is there.
RowsInv ==
  /\ project \in [Project -> ProjectRow \cup {Missing, Gone}]
  /\ asset \in [Asset -> AssetRow \cup {Missing, Gone}]
  /\ disturbed \subseteq Project
  /\ \A a \in Assets : asset[a].home \in Projects

\* The two properties, row by row: an inheriting row follows the row of its home; an
\* override is polled where it says or nowhere and a cached pair is one CML gave; and
\* a named row without an error has an id.
Follows(row, owning) == Inherits(row) => row.project = owning.id
Paired(row) ==
  /\ ~Inherits(row) => row.project \in {Missing, row.override}
  /\ row.found \in {Missing, row.project}
Settled(row) == Paired(row) /\ (row.named /\ ~row.error => row.found # Missing)

\* The rows of a version are rows its project had.
Versioned(rows, p) ==
  \A a \in DOMAIN rows :
    a \in Asset /\ rows[a] \in AssetRow /\ rows[a].home = p /\ (overlapped \/ Paired(rows[a]))
VersionsInv ==
  /\ version = [p \in Project |-> version[p]]
  /\ \A p \in Project : version[p] # Missing => Versioned(version[p], p)

\* An asset that was read in project p: its row may be gone since, and its id is
\* not used again.
Came(a, p) ==
  /\ a \in Asset /\ asset[a] # Missing
  /\ a \in Assets => asset[a].home = p

\* Rows read as those of project p.
RowsOf(rows, p) ==
  /\ rows = [a \in DOMAIN rows |-> rows[a]]
  /\ \A a \in DOMAIN rows : Came(a, p) /\ rows[a] \in AssetRow /\ rows[a].home = p

\* An edit of the service level leaves what the binding depends on, and the binding.
SameBinding(row, saw) ==
  /\ row.override = saw.override /\ row.named = saw.named
  /\ row.project = saw.project /\ row.found = saw.found /\ row.error = saw.error

\* What a request in flight holds, whatever was written since it read.
ReadInv(call) ==
  /\ call.op \in {"project", "rebind", "resolve", "drop", "copy", "add", "edit", "remove", "rollback"}
  /\ call.op = "project" => call.project \in Project /\ <<call.name, call.hint>> \in Picks
  /\ call.op = "rebind" => <<call.name, call.hint>> \in Picks
  /\ call.op \in {"rebind", "resolve"} =>
       /\ call.project \in Project /\ call.saw.project \in ProjectRow
       /\ RowsOf(call.saw.rows, call.project)
  /\ call.op = "drop" => call.project \in Project
  /\ call.op = "copy" =>
       /\ call.into \in Project /\ call.from \in Project
       /\ call.saw.project \in ProjectRow
       /\ RowsOf(call.saw.rows, call.from)
  /\ call.op = "add" =>
       /\ call.project \in Project /\ call.kind \in {Job, App} /\ call.owning \in ProjectRow
       /\ call.row \in AssetRow /\ call.row.home = call.project
  /\ call.op = "edit" =>
       /\ call.look \in BOOLEAN /\ call.owning \in ProjectRow
       /\ call.saw \in AssetRow /\ call.row \in AssetRow
       /\ Came(call.asset, call.saw.home) /\ call.row.home = call.saw.home
       /\ call.look \/ SameBinding(call.row, call.saw)
  /\ call.op = "remove" => call.asset \in Asset /\ asset[call.asset] # Missing
  /\ call.op = "rollback" => call.project \in Project /\ Versioned(call.rows, call.project)

\* The projects whose bindings a request read.
Touched(call) ==
  CASE call.op \in {"rebind", "resolve", "drop", "add"} -> {call.project}
    [] call.op = "copy" -> {call.from}
    [] call.op = "edit" -> {call.saw.home}
    [] OTHER -> {}

\* What it read is what the tables hold.
Current(call) ==
  /\ call.op \in {"rebind", "resolve"} => call.saw = Scope(call.project)
  /\ call.op = "copy" =>
       /\ call.saw.project = project[call.from]
       /\ \A a \in DOMAIN call.saw.rows : call.saw.rows[a] = asset[a]
  /\ call.op = "add" => call.owning = project[call.project]
  /\ call.op = "edit" => call.saw = asset[call.asset] /\ call.owning = project[call.saw.home]

RequestInv(r) ==
  /\ ReadInv(request[r])
  /\ \A p \in Touched(request[r]) : p \in Project /\ project[p] # Missing
  /\ IF r \in alone THEN InFlight = {r} /\ Current(request[r])
     ELSE overlapped /\ Touched(request[r]) \subseteq disturbed

RequestsInv ==
  /\ request = [r \in Request |-> request[r]]
  /\ \A r \in InFlight : RequestInv(r)

FollowInv ==
  \A a \in Assets : asset[a].home \notin disturbed /\ a \notin restored => Follows(asset[a], project[asset[a].home])
SettledInv == overlapped \/ \A a \in Assets : Paired(asset[a]) /\ (a \notin restored => Settled(asset[a]))

BindingsInv == RowsInv /\ VersionsInv /\ RequestsInv /\ FollowInv /\ SettledInv

-----------------------------------------------------------------------------
(***************************************************************************)
(* Rows                                                                    *)
(***************************************************************************)

\* A row is neither one that is not there yet nor one that was deleted.
LEMMA RowIsNoMark ==
  /\ Missing # Gone /\ Missing \notin CmlProject
  /\ \A row \in ProjectRow \cup AssetRow : row # Missing /\ row # Gone
  BY BindingsAssumption

\* The live rows are those that have columns.
LEMMA LiveRows ==
  ASSUME RowsInv
  PROVE  /\ \A p : p \in Projects <=> p \in Project /\ project[p] \in ProjectRow
         /\ \A a : a \in Assets <=> a \in Asset /\ asset[a] \in AssetRow
  BY RowIsNoMark DEF RowsInv, Projects, Assets, Live

\* The same of the rows a step leaves.
LEMMA LiveRowsNext ==
  ASSUME project' \in [Project -> ProjectRow \cup {Missing, Gone}],
         asset' \in [Asset -> AssetRow \cup {Missing, Gone}]
  PROVE  /\ \A p : p \in Projects' <=> p \in Project /\ project'[p] \in ProjectRow
         /\ \A a : a \in Assets' <=> a \in Asset /\ asset'[a] \in AssetRow
  BY RowIsNoMark DEF Projects, Assets, Live

\* The two properties are those of every row.
LEMMA RowByRow ==
  (FollowInv /\ SettledInv) <=> (PolledWhereMeant /\ CacheIsWhole)
  BY DEF FollowInv, SettledInv, PolledWhereMeant, CacheIsWhole, Follows, Settled, FollowsHome, Paired

\* The columns of an asset's row.
LEMMA Columns ==
  ASSUME NEW row \in AssetRow
  PROVE  /\ row.home \in Project /\ row.override \in Names /\ row.named \in BOOLEAN
         /\ row.preset \in BOOLEAN /\ row.custom \in BOOLEAN
         /\ row.project \in Names /\ row.found \in Names /\ row.error \in BOOLEAN
         /\ row = [home |-> row.home, override |-> row.override, named |-> row.named,
                   preset |-> row.preset, custom |-> row.custom,
                   project |-> row.project, found |-> row.found, error |-> row.error]
  BY DEF AssetRow

\* An answer is written over the three columns it is about.
LEMMA AnsweredRow ==
  ASSUME NEW row \in AssetRow, NEW b, b.project \in Names, b.found \in Names, b.error \in BOOLEAN
  PROVE  /\ Answered(row, b) \in AssetRow
         /\ Answered(row, b).home = row.home
         /\ Answered(row, b).override = row.override /\ Answered(row, b).named = row.named
         /\ Answered(row, b).project = b.project /\ Answered(row, b).found = b.found
         /\ Answered(row, b).error = b.error
  BY DEF Answered, AssetRow

\* What a lookup by name makes of a project's row.
LEMMA LookupRow ==
  ASSUME NEW name \in Names, NEW b \in NameLookup(name)
  PROVE  b \in ProjectRow
<1>1. \A n, i \in Names : \A e \in BOOLEAN : [name |-> n, id |-> i, error |-> e] \in ProjectRow
  BY DEF ProjectRow
<1>2. Missing \in Names
  BY DEF Names
<1> QED
  BY <1>1, <1>2, Zenon DEF NameLookup

\* What a name and a pick are bound to has the columns of a project.
LEMMA BoundRow ==
  ASSUME NEW name \in Names, NEW hint \in Names, NEW b \in Bound(name, hint)
  PROVE  b \in ProjectRow
<1>1. Missing \in Names
  BY DEF Names
<1>2. CASE b = Unbound
  BY <1>1, <1>2 DEF Unbound, ProjectRow
<1>3. CASE b = [name |-> name, id |-> hint, error |-> FALSE]
  BY <1>3 DEF ProjectRow
<1>4. CASE b \in NameLookup(name)
  BY <1>4, LookupRow
<1> QED
  BY <1>2, <1>3, <1>4 DEF Bound

\* What CML answers about a job or an application of a project.
LEMMA WithinFits ==
  ASSUME NEW c \in CmlProject, NEW named \in BOOLEAN, NEW b \in Within(c, named)
  PROVE  /\ b.project = c /\ b.found \in {Missing, c} /\ b.error \in BOOLEAN
         /\ named /\ ~b.error => b.found # Missing
<1>1. Missing # c
  BY RowIsNoMark
<1>2. CASE b = [project |-> c, found |-> c, error |-> FALSE]
  BY <1>1, <1>2
<1>3. CASE b = [project |-> c, found |-> Missing, error |-> TRUE]
  BY <1>1, <1>3
<1>4. CASE ~named /\ b = [project |-> c, found |-> Missing, error |-> FALSE]
  BY <1>1, <1>4
<1> QED
  BY <1>2, <1>3, <1>4 DEF Within

\* An answer that means a row with this override and name, of this project.
Fits(b, owning, override, named) ==
  /\ b.project \in Names /\ b.found \in Names /\ b.error \in BOOLEAN
  /\ b.project \in IF override = Missing THEN {owning.id} ELSE {Missing, override}
  /\ b.found \in {Missing, b.project}
  /\ named /\ ~b.error => b.found # Missing

LEMMA ResolvedFits ==
  ASSUME NEW owning \in ProjectRow, NEW override \in Names, NEW named \in BOOLEAN,
         NEW b \in Resolved(owning, override, named)
  PROVE  Fits(b, owning, override, named)
<1>1. owning.id \in Names /\ Missing \in Names
  BY DEF ProjectRow, Names
<1>2. CASE b = Unresolved /\ (override = Missing => owning.id = Missing)
  BY <1>1, <1>2 DEF Fits, Unresolved
<1>3. CASE override # Missing /\ b \in Within(override, named)
  <2>1. override \in CmlProject
    BY <1>3 DEF Names
  <2> QED
    BY <1>1, <1>3, <2>1, WithinFits DEF Fits, Names
<1>4. CASE override = Missing /\ owning.id # Missing /\ b \in Within(owning.id, named)
  <2>1. owning.id \in CmlProject
    BY <1>1, <1>4 DEF Names
  <2> QED
    BY <1>1, <1>4, <2>1, WithinFits DEF Fits, Names
<1> QED
  BY <1>2, <1>3, <1>4 DEF Resolved

\* A row that takes an answer that means it follows its project and is settled.
LEMMA AnsweredSettles ==
  ASSUME NEW owning \in ProjectRow, NEW row \in AssetRow, NEW b, Fits(b, owning, row.override, row.named)
  PROVE  /\ Answered(row, b) \in AssetRow /\ Answered(row, b).home = row.home
         /\ Follows(Answered(row, b), owning) /\ Settled(Answered(row, b))
<1>1. b.project \in Names /\ b.found \in Names /\ b.error \in BOOLEAN
  BY DEF Fits
<1> QED
  BY <1>1, AnsweredRow DEF Fits, Follows, Settled, Paired, Inherits

\* A cascade leaves an override alone and resolves every other row.
LEMMA ReboundFits ==
  ASSUME NEW owning \in ProjectRow, NEW row \in AssetRow, NEW after \in Rebound(owning, row)
  PROVE  /\ after \in AssetRow /\ after.home = row.home
         /\ Follows(after, owning)
         /\ IF Inherits(row) THEN Settled(after) ELSE after = row
<1>1. CASE ~Inherits(row)
  BY <1>1 DEF Rebound, Follows
<1>2. CASE Inherits(row) /\ owning.id = Missing
  <2>1. PICK b : b = [Unresolved EXCEPT !.error = row.named] /\ after = Answered(row, b)
    BY <1>2 DEF Rebound
  <2>2. b.project = Missing /\ b.found = Missing /\ b.error = row.named
    BY <2>1 DEF Unresolved
  <2>3. Fits(b, owning, row.override, row.named)
    BY <1>2, <2>2, Columns DEF Fits, Inherits, Names
  <2> QED
    BY <1>2, <2>1, <2>3, AnsweredSettles
<1>3. CASE Inherits(row) /\ owning.id # Missing
  <2>1. PICK b \in Within(owning.id, row.named) : after = Answered(row, b)
    BY <1>3 DEF Rebound
  <2>2. owning.id \in CmlProject /\ row.named \in BOOLEAN
    BY <1>3, Columns DEF ProjectRow, Names
  <2>3. Fits(b, owning, row.override, row.named)
    BY <1>3, <2>1, <2>2, WithinFits DEF Fits, Inherits, Names
  <2> QED
    BY <1>3, <2>1, <2>3, AnsweredSettles
<1> QED
  BY <1>1, <1>2, <1>3

\* A write leaves a row in its project, and is what was to be written when the row
\* is still the one that was read.
LEMMA WrittenRow ==
  ASSUME NEW now \in AssetRow, NEW saw \in AssetRow, NEW new \in AssetRow
  PROVE  /\ Written(now, saw, new) \in AssetRow /\ Written(now, saw, new).home = now.home
         /\ now = saw /\ new.home = saw.home => Written(now, saw, new) = new
<1>1. Written(now, saw, new) \in AssetRow /\ Written(now, saw, new).home = now.home
  BY DEF Written, Kept, AssetRow
<1>2. ASSUME now = saw, new.home = saw.home
      PROVE  Written(now, saw, new) = new
  <2>1. /\ Kept(now.override, saw.override, new.override) = new.override
        /\ Kept(now.named, saw.named, new.named) = new.named
        /\ Kept(now.preset, saw.preset, new.preset) = new.preset
        /\ Kept(now.custom, saw.custom, new.custom) = new.custom
        /\ Kept(now.project, saw.project, new.project) = new.project
        /\ Kept(now.found, saw.found, new.found) = new.found
        /\ Kept(now.error, saw.error, new.error) = new.error
    BY <1>2 DEF Kept
  <2>2. new = [home |-> new.home, override |-> new.override, named |-> new.named,
               preset |-> new.preset, custom |-> new.custom,
               project |-> new.project, found |-> new.found, error |-> new.error]
    BY Columns
  <2> QED
    BY <1>2, <2>1, <2>2 DEF Written
<1> QED
  BY <1>1, <1>2

LEMMA WrittenProjectRow ==
  ASSUME NEW now \in ProjectRow, NEW saw \in ProjectRow, NEW new \in ProjectRow
  PROVE  /\ WrittenProject(now, saw, new) \in ProjectRow
         /\ now = saw => WrittenProject(now, saw, new) = new
<1>1. WrittenProject(now, saw, new) \in ProjectRow
  BY DEF WrittenProject, Kept, ProjectRow
<1>2. ASSUME now = saw
      PROVE  WrittenProject(now, saw, new) = new
  <2>1. /\ Kept(now.name, saw.name, new.name) = new.name /\ Kept(now.id, saw.id, new.id) = new.id
        /\ Kept(now.error, saw.error, new.error) = new.error
    BY <1>2 DEF Kept
  <2>2. new = [name |-> new.name, id |-> new.id, error |-> new.error]
    BY DEF ProjectRow
  <2> QED
    BY <2>1, <2>2 DEF WrittenProject
<1> QED
  BY <1>1, <1>2

-----------------------------------------------------------------------------
(***************************************************************************)
(* Requests                                                                *)
(***************************************************************************)

\* Two requests in flight do not have the rows to themselves.
LEMMA OtherRequest ==
  ASSUME RequestsInv, NEW r \in InFlight, NEW q \in InFlight, q # r
  PROVE  /\ q \notin alone /\ r \notin alone
         /\ overlapped /\ Touched(request[q]) \subseteq disturbed
  BY DEF RequestsInv, RequestInv

\* A step that writes rows: no row comes back, no asset changes its project, and a
\* project stops being disturbed only when it is new or the request is alone.
Onward(r) ==
  /\ project' \in [Project -> ProjectRow \cup {Missing, Gone}]
  /\ asset' \in [Asset -> AssetRow \cup {Missing, Gone}]
  /\ \A p \in Project : project[p] # Missing => project'[p] # Missing
  /\ \A a \in Asset : asset[a] # Missing =>
       asset'[a] # Missing /\ (a \in Assets' => a \in Assets /\ asset'[a].home = asset[a].home)
  /\ \A p \in disturbed : p \in disturbed' \/ r \in alone \/ project[p] = Missing
  /\ version' = [p \in Project |-> version'[p]]
  /\ \A p \in Project : version'[p] \in {version[p], Missing}
  /\ overlapped' = overlapped

\* What a request holds stays as it is when another one writes.
LEMMA ReadStays ==
  ASSUME RowsInv, NEW r, Onward(r), NEW call, ReadInv(call)
  PROVE  ReadInv(call)'
<1>1. \A a, p : Came(a, p) => Came(a, p)'
  BY DEF Came, Onward, Asset, Assets
<1>2. \A rows, p : RowsOf(rows, p) => RowsOf(rows, p)'
  BY <1>1 DEF RowsOf
<1>3. \A a \in Asset : asset[a] # Missing => asset'[a] # Missing
  BY DEF Onward
<1>4. \A rows, p : Versioned(rows, p) => Versioned(rows, p)'
  BY DEF Versioned, Onward
<1> QED
  BY <1>1, <1>2, <1>3, <1>4 DEF ReadInv

\* A request that ends leaves the others what they hold.
LEMMA RequestEnds ==
  ASSUME RowsInv, RequestsInv, NEW r \in InFlight, Onward(r), End(r)
  PROVE  RequestsInv'
<1>1. /\ request' = [request EXCEPT ![r] = Idle] /\ request = [q \in Request |-> request[q]]
      /\ alone' = alone \ {r} /\ r \in Request
  BY DEF End, RequestsInv, InFlight
<1>2. request' = [q \in Request |-> request'[q]]
  BY <1>1
<1>3. ASSUME NEW q \in InFlight'
      PROVE  RequestInv(q)'
  <2>1. q \in InFlight /\ q # r /\ request'[q] = request[q]
    BY <1>1, <1>3 DEF InFlight
  <2>2. q \notin alone /\ r \notin alone /\ overlapped /\ Touched(request[q]) \subseteq disturbed
    BY <2>1, OtherRequest
  <2> PICK call : call = request[q]
    OBVIOUS
  <2>3. ReadInv(call) /\ \A p \in Touched(call) : p \in Project /\ project[p] # Missing
    BY <2>1 DEF RequestsInv, RequestInv
  <2>4. ReadInv(call)'
    BY <2>3, ReadStays
  <2>5. \A p \in Touched(call) : p \in Project /\ project'[p] # Missing /\ p \in disturbed'
    BY <2>2, <2>3 DEF Onward
  <2>6. q \notin alone' /\ overlapped' /\ request'[q] = call
    BY <1>1, <2>1, <2>2 DEF Onward
  <2> QED
    BY <2>4, <2>5, <2>6 DEF RequestInv
<1> QED
  BY <1>2, <1>3 DEF RequestsInv

\* A request that begins has just read the rows; when it is not the only one, all the
\* projects are disturbed.
LEMMA RequestBegins ==
  ASSUME BindingsInv, NEW r \in Request, NEW call, Begin(r, call), ReadInv(call), Current(call),
         \A p \in Touched(call) : p \in Project /\ project[p] # Missing
  PROVE  BindingsInv'
<1>1. /\ request[r] = Idle /\ request' = [request EXCEPT ![r] = call]
      /\ alone' = IF InFlight = {} THEN {r} ELSE {}
      /\ overlapped' = (overlapped \/ InFlight # {})
      /\ disturbed' = IF InFlight = {} THEN disturbed ELSE Project
      /\ project' = project /\ asset' = asset /\ version' = version /\ restored' = restored
  BY DEF Begin
<1>2. request = [q \in Request |-> request[q]] /\ RowsInv
  BY DEF BindingsInv, RequestsInv
<1>3. call # Idle
  BY DEF ReadInv, Idle
<1>4. disturbed \subseteq disturbed' /\ disturbed' \subseteq Project
  BY <1>1, <1>2 DEF RowsInv
<1>5. Projects' = Projects /\ Assets' = Assets
  BY <1>1 DEF Projects, Assets, Live
<1>6. RowsInv'
  BY <1>1, <1>2, <1>4, <1>5 DEF RowsInv
<1>7. FollowInv'
  BY <1>1, <1>4, <1>5 DEF BindingsInv, FollowInv
<1>8. SettledInv'
  BY <1>1, <1>5 DEF BindingsInv, SettledInv
<1>9. \A c : ReadInv(c) => ReadInv(c)'
  <2>1. \A rows, p : Versioned(rows, p) => Versioned(rows, p)'
    BY <1>1 DEF Versioned
  <2>2. \A rows, p : RowsOf(rows, p) => RowsOf(rows, p)'
    BY <1>1, <1>5 DEF RowsOf, Came
  <2>3. \A a, p : Came(a, p) => Came(a, p)'
    BY <1>1, <1>5 DEF Came
  <2> QED
    BY <1>1, <2>1, <2>2, <2>3 DEF ReadInv
<1>10. Current(call)'
  BY <1>1, <1>5 DEF Current, Scope, Of
<1>11. request' = [q \in Request |-> request'[q]]
  BY <1>1, <1>2
<1>12. request'[r] = call /\ \A q \in Request : q # r => request'[q] = request[q]
  BY <1>1, <1>2
<1>13. ASSUME NEW q \in InFlight'
       PROVE  RequestInv(q)'
  <2> PICK c : c = request'[q]
    OBVIOUS
  <2>1. q \in Request /\ c # Idle
    BY <1>13 DEF InFlight
  <2>2. ReadInv(c) /\ \A p \in Touched(c) : p \in Project /\ project[p] # Missing
    <3>1. CASE q = r
      BY <1>12, <3>1
    <3>2. CASE q # r
      BY <1>12, <2>1, <3>2 DEF BindingsInv, RequestsInv, RequestInv, InFlight
    <3> QED
      BY <3>1, <3>2
  <2>3. ReadInv(c)'
    BY <1>9, <2>2
  <2>4. CASE InFlight = {}
    <3>1. q = r /\ alone' = {r}
      BY <1>1, <1>12, <2>1, <2>4 DEF InFlight
    <3>2. InFlight' = {r}
      BY <1>3, <1>12, <2>4 DEF InFlight
    <3>3. c = call
      BY <1>12, <3>1
    <3>4. Current(c)'
      BY <1>10, <3>3
    <3> QED
      BY <1>1, <2>2, <2>3, <3>1, <3>2, <3>4 DEF RequestInv
  <2>5. CASE InFlight # {}
    <3>1. alone' = {} /\ overlapped' /\ disturbed' = Project
      BY <1>1, <2>5
    <3>2. Touched(c) \subseteq disturbed'
      BY <2>2, <3>1
    <3> QED
      BY <1>1, <2>2, <2>3, <3>1, <3>2 DEF RequestInv
  <2> QED
    BY <2>4, <2>5
<1>14. VersionsInv'
  BY <1>1 DEF BindingsInv, VersionsInv, Versioned
<1> QED
  BY <1>6, <1>7, <1>8, <1>11, <1>13, <1>14 DEF BindingsInv, RequestsInv

\* The rows of the assets of a project, as a request reads them.
LEMMA ReadRows ==
  ASSUME RowsInv, NEW p \in Projects, NEW s \in SUBSET Of(p), NEW rows, rows = Restrict(asset, s)
  PROVE  /\ RowsOf(rows, p) /\ DOMAIN rows = s
         /\ \A a \in DOMAIN rows : rows[a] = asset[a]
<1>1. rows = [a \in s |-> asset[a]]
  BY DEF Restrict
<1>2. DOMAIN rows = s /\ \A a \in s : rows[a] = asset[a]
  BY <1>1
<1>3. rows = [a \in DOMAIN rows |-> rows[a]]
  BY <1>1
<1>4. \A a \in s : a \in Assets /\ a \in Asset /\ asset[a] \in AssetRow /\ asset[a].home = p
  BY LiveRows DEF Of
<1>5. \A a \in s : Came(a, p)
  BY <1>4, RowIsNoMark DEF Came
<1> QED
  BY <1>2, <1>3, <1>4, <1>5 DEF RowsOf

\* A row of an asset that is to be created.
LEMMA NewRow ==
  ASSUME NEW p \in Project, NEW override \in Names, NEW named \in BOOLEAN,
         NEW preset \in BOOLEAN, NEW custom \in BOOLEAN
  PROVE  /\ Reconciled(p, override, named, preset, custom) \in AssetRow
         /\ Reconciled(p, override, named, preset, custom).home = p
  BY DEF Reconciled, AssetRow, Names

\* What a level edit sends leaves the rest of the row.
LEMMA LevelledRow ==
  ASSUME NEW row \in AssetRow, NEW edit
  PROVE  /\ Levelled(row, edit) \in AssetRow /\ Levelled(row, edit).home = row.home
         /\ SameBinding(Levelled(row, edit), row)
<1>1. CASE edit = "custom"
  BY <1>1 DEF Levelled, SameBinding, AssetRow
<1>2. CASE edit = "preset"
  BY <1>2 DEF Levelled, SameBinding, AssetRow
<1>3. CASE edit = "default"
  BY <1>3 DEF Levelled, SameBinding, AssetRow
<1>4. CASE edit \notin {"custom", "preset", "default"}
  BY <1>4 DEF Levelled, SameBinding
<1> QED
  BY <1>1, <1>2, <1>3, <1>4

\* Every request that begins reads the rows as they are.
LEMMA ScopeBegins ==
  ASSUME BindingsInv, NEW r \in Request,
         BeginUpdateProject(r) \/ BeginResolveProject(r) \/ BeginCopyProject(r) \/ BeginCopyProduct(r)
  PROVE  BindingsInv'
<1>1. RowsInv
  BY DEF BindingsInv
<1>2. ASSUME NEW p \in Projects
      PROVE  /\ p \in Project /\ project[p] # Missing
             /\ Scope(p).project \in ProjectRow /\ Scope(p).project = project[p]
             /\ RowsOf(Scope(p).rows, p)
             /\ \A a \in DOMAIN Scope(p).rows : Scope(p).rows[a] = asset[a]
  <2>1. Scope(p) = [project |-> project[p], rows |-> Restrict(asset, Of(p))]
    BY DEF Scope
  <2>2. PICK rows : rows = Restrict(asset, Of(p))
    OBVIOUS
  <2>3. RowsOf(rows, p) /\ \A a \in DOMAIN rows : rows[a] = asset[a]
    BY <1>1, <2>2, ReadRows
  <2>4. Scope(p).rows = rows /\ Scope(p).project = project[p]
    BY <2>1, <2>2
  <2> QED
    BY <1>1, <2>3, <2>4, LiveRows, RowIsNoMark
<1>3. CASE BeginUpdateProject(r)
  <2>1. PICK p \in Projects, pick \in Picks :
          Begin(r, [op |-> "rebind", project |-> p, name |-> pick[1], hint |-> pick[2], saw |-> Scope(p)])
    BY <1>3 DEF BeginUpdateProject
  <2>2. pick = <<pick[1], pick[2]>>
    BY DEF Picks
  <2>3. PICK call : call = [op |-> "rebind", project |-> p, name |-> pick[1], hint |-> pick[2], saw |-> Scope(p)]
    OBVIOUS
  <2>4. /\ call.op = "rebind" /\ call.project = p /\ call.name = pick[1] /\ call.hint = pick[2]
        /\ call.saw = Scope(p)
    BY <2>3
  <2>5. ReadInv(call)
    BY <1>2, <2>2, <2>4 DEF ReadInv
  <2>6. Current(call)
    BY <2>4 DEF Current
  <2>7. \A t \in Touched(call) : t \in Project /\ project[t] # Missing
    BY <1>2, <2>4 DEF Touched
  <2> QED
    BY <2>1, <2>3, <2>5, <2>6, <2>7, RequestBegins
<1>4. CASE BeginResolveProject(r)
  <2>1. PICK p \in Projects : Begin(r, [op |-> "resolve", project |-> p, saw |-> Scope(p)])
    BY <1>4 DEF BeginResolveProject
  <2>2. PICK call : call = [op |-> "resolve", project |-> p, saw |-> Scope(p)]
    OBVIOUS
  <2>3. call.op = "resolve" /\ call.project = p /\ call.saw = Scope(p)
    BY <2>2
  <2>4. ReadInv(call)
    BY <1>2, <2>3 DEF ReadInv
  <2>5. Current(call)
    BY <2>3 DEF Current
  <2>6. \A t \in Touched(call) : t \in Project /\ project[t] # Missing
    BY <1>2, <2>3 DEF Touched
  <2> QED
    BY <2>1, <2>2, <2>4, <2>5, <2>6, RequestBegins
<1>5. CASE BeginCopyProject(r)
  <2>1. PICK p \in Projects, q \in Project :
          Begin(r, [op |-> "copy", project |-> q, from |-> p, saw |-> Scope(p), into |-> q])
    BY <1>5 DEF BeginCopyProject
  <2>2. PICK call : call = [op |-> "copy", project |-> q, from |-> p, saw |-> Scope(p), into |-> q]
    OBVIOUS
  <2>3. call.op = "copy" /\ call.from = p /\ call.into = q /\ call.saw = Scope(p)
    BY <2>2
  <2>4. ReadInv(call)
    BY <1>2, <2>3 DEF ReadInv
  <2>5. Current(call)
    BY <1>2, <2>3 DEF Current
  <2>6. \A t \in Touched(call) : t \in Project /\ project[t] # Missing
    BY <1>2, <2>3 DEF Touched
  <2> QED
    BY <2>1, <2>2, <2>4, <2>5, <2>6, RequestBegins
<1>6. CASE BeginCopyProduct(r)
  <2>1. PICK p \in Projects : \E s \in SUBSET Of(p) \ {{}} :
          Begin(r, [op |-> "copy", project |-> p, from |-> p, into |-> p,
                    saw |-> [project |-> project[p], rows |-> Restrict(asset, s)]])
    BY <1>6 DEF BeginCopyProduct
  <2>2. PICK s \in SUBSET Of(p) \ {{}} :
          Begin(r, [op |-> "copy", project |-> p, from |-> p, into |-> p,
                    saw |-> [project |-> project[p], rows |-> Restrict(asset, s)]])
    BY <2>1
  <2>3. PICK rows : rows = Restrict(asset, s)
    OBVIOUS
  <2>4. RowsOf(rows, p) /\ \A a \in DOMAIN rows : rows[a] = asset[a]
    BY <1>1, <2>3, ReadRows
  <2>5. PICK call : call = [op |-> "copy", project |-> p, from |-> p, into |-> p,
                            saw |-> [project |-> project[p], rows |-> rows]]
    OBVIOUS
  <2>6. /\ call.op = "copy" /\ call.from = p /\ call.into = p
        /\ call.saw.project = project[p] /\ call.saw.rows = rows
    BY <2>5
  <2>7. p \in Project /\ project[p] # Missing /\ project[p] \in ProjectRow
    BY <1>1, <1>2, LiveRows
  <2>8. ReadInv(call)
    BY <2>4, <2>6, <2>7 DEF ReadInv
  <2>9. Current(call)
    BY <2>4, <2>6 DEF Current
  <2>10. \A t \in Touched(call) : t \in Project /\ project[t] # Missing
    BY <2>6, <2>7 DEF Touched
  <2> QED
    BY <2>2, <2>3, <2>5, <2>8, <2>9, <2>10, RequestBegins
<1> QED
  BY <1>3, <1>4, <1>5, <1>6

LEMMA RowBegins ==
  ASSUME BindingsInv, NEW r \in Request,
         \/ BeginCreateProject(r) \/ BeginDeleteProject(r)
         \/ BeginCreateAsset(r) \/ BeginDuplicateAsset(r) \/ BeginDeleteAsset(r)
  PROVE  BindingsInv'
<1>1. RowsInv
  BY DEF BindingsInv
<1>2. \A p \in Projects : p \in Project /\ project[p] # Missing /\ project[p] \in ProjectRow
  BY <1>1, LiveRows, RowIsNoMark
<1>3. \A a \in Assets : a \in Asset /\ asset[a] # Missing /\ asset[a] \in AssetRow
  BY <1>1, LiveRows, RowIsNoMark
<1>4. CASE BeginCreateProject(r)
  <2>1. PICK p \in Project, pick \in Picks :
          Begin(r, [op |-> "project", project |-> p, name |-> pick[1], hint |-> pick[2]])
    BY <1>4 DEF BeginCreateProject
  <2>2. pick = <<pick[1], pick[2]>>
    BY DEF Picks
  <2>3. PICK call : call = [op |-> "project", project |-> p, name |-> pick[1], hint |-> pick[2]]
    OBVIOUS
  <2>4. call.op = "project" /\ call.project = p /\ call.name = pick[1] /\ call.hint = pick[2]
    BY <2>3
  <2>5. ReadInv(call)
    BY <2>2, <2>4 DEF ReadInv
  <2>6. Current(call) /\ Touched(call) = {}
    BY <2>4 DEF Current, Touched
  <2> QED
    BY <2>1, <2>3, <2>5, <2>6, RequestBegins
<1>5. CASE BeginDeleteProject(r)
  <2>1. PICK p \in Projects : Begin(r, [op |-> "drop", project |-> p])
    BY <1>5 DEF BeginDeleteProject
  <2>2. PICK call : call = [op |-> "drop", project |-> p]
    OBVIOUS
  <2>3. call.op = "drop" /\ call.project = p
    BY <2>2
  <2>4. ReadInv(call) /\ Current(call)
    BY <1>2, <2>3 DEF ReadInv, Current
  <2>5. \A t \in Touched(call) : t \in Project /\ project[t] # Missing
    BY <1>2, <2>3 DEF Touched
  <2> QED
    BY <2>1, <2>2, <2>4, <2>5, RequestBegins
<1>6. ASSUME NEW p \in Projects, NEW kind \in {Job, App}, NEW row \in AssetRow, row.home = p,
             Begin(r, [op |-> "add", project |-> p, kind |-> kind, owning |-> project[p], row |-> row])
      PROVE  BindingsInv'
  <2>1. PICK call : call = [op |-> "add", project |-> p, kind |-> kind, owning |-> project[p], row |-> row]
    OBVIOUS
  <2>2. /\ call.op = "add" /\ call.project = p /\ call.kind = kind /\ call.owning = project[p]
        /\ call.row = row
    BY <2>1
  <2>3. ReadInv(call)
    BY <1>2, <1>6, <2>2 DEF ReadInv
  <2>4. Current(call)
    BY <2>2 DEF Current
  <2>5. \A t \in Touched(call) : t \in Project /\ project[t] # Missing
    BY <1>2, <2>2 DEF Touched
  <2> QED
    BY <1>6, <2>1, <2>3, <2>4, <2>5, RequestBegins
<1>7. CASE BeginCreateAsset(r)
  <2>1. PICK p \in Projects, kind \in {Job, App}, override \in Names, named \in BOOLEAN :
          \E sent \in IF kind = Job THEN BOOLEAN ELSE {FALSE} :
            Begin(r, [op |-> "add", project |-> p, kind |-> kind, owning |-> project[p],
                      row |-> Reconciled(p, override, named, sent, sent)])
    BY <1>7 DEF BeginCreateAsset
  <2>2. PICK sent \in BOOLEAN :
          Begin(r, [op |-> "add", project |-> p, kind |-> kind, owning |-> project[p],
                    row |-> Reconciled(p, override, named, sent, sent)])
    BY <2>1
  <2>3. PICK row : row = Reconciled(p, override, named, sent, sent)
    OBVIOUS
  <2>4. row \in AssetRow /\ row.home = p
    BY <1>2, <2>3, NewRow
  <2> QED
    BY <1>6, <2>2, <2>3, <2>4
<1>8. CASE BeginDuplicateAsset(r)
  <2>1. PICK a \in Assets, p \in Projects :
          Begin(r, [op |-> "add", project |-> p, kind |-> OneOf(a), owning |-> project[p],
                    row |-> Reconciled(p, asset[a].override, TRUE, asset[a].preset, asset[a].custom)])
    BY <1>8 DEF BeginDuplicateAsset
  <2>2. PICK row : row = Reconciled(p, asset[a].override, TRUE, asset[a].preset, asset[a].custom)
    OBVIOUS
  <2>3. asset[a].override \in Names /\ asset[a].preset \in BOOLEAN /\ asset[a].custom \in BOOLEAN
    BY <1>3, Columns
  <2>4. row \in AssetRow /\ row.home = p
    <3>1. PICK named \in BOOLEAN : named = TRUE
      OBVIOUS
    <3>2. row = Reconciled(p, asset[a].override, named, asset[a].preset, asset[a].custom)
      BY <2>2, <3>1, Zenon
    <3> QED
      BY <1>2, <2>3, <3>2, NewRow
  <2>5. OneOf(a) \in {Job, App}
    BY DEF OneOf
  <2> QED
    BY <1>6, <2>1, <2>2, <2>4, <2>5
<1>9. CASE BeginDeleteAsset(r)
  <2>1. PICK a \in Assets : Begin(r, [op |-> "remove", asset |-> a])
    BY <1>9 DEF BeginDeleteAsset
  <2>2. PICK call : call = [op |-> "remove", asset |-> a]
    OBVIOUS
  <2>3. call.op = "remove" /\ call.asset = a
    BY <2>2
  <2>4. ReadInv(call)
    BY <1>3, <2>3 DEF ReadInv
  <2>5. Current(call) /\ Touched(call) = {}
    BY <2>3 DEF Current, Touched
  <2> QED
    BY <2>1, <2>2, <2>4, <2>5, RequestBegins
<1> QED
  BY <1>4, <1>5, <1>7, <1>8, <1>9

LEMMA RollbackBegins ==
  ASSUME BindingsInv, NEW r \in Request, BeginRollback(r)
  PROVE  BindingsInv'
<1>1. PICK p \in Projects :
        version[p] # Missing /\ Begin(r, [op |-> "rollback", project |-> p, rows |-> version[p]])
  BY DEF BeginRollback
<1>2. PICK call : call = [op |-> "rollback", project |-> p, rows |-> version[p]]
  OBVIOUS
<1>3. call.op = "rollback" /\ call.project = p /\ call.rows = version[p]
  BY <1>2
<1>4. p \in Project
  BY LiveRows DEF BindingsInv
<1>5. ReadInv(call)
  BY <1>1, <1>3, <1>4 DEF ReadInv, BindingsInv, VersionsInv
<1>6. Current(call) /\ Touched(call) = {}
  BY <1>3 DEF Current, Touched
<1> QED
  BY <1>1, <1>2, <1>5, <1>6, RequestBegins

LEMMA EditBegins ==
  ASSUME BindingsInv, NEW r \in Request, BeginUpdateAsset(r) \/ BeginResolveAsset(r)
  PROVE  BindingsInv'
<1>1. \A a \in Assets : /\ a \in Asset /\ asset[a] # Missing /\ asset[a] \in AssetRow
                        /\ asset[a].home \in Projects
  BY LiveRows, RowIsNoMark DEF BindingsInv, RowsInv
<1>2. \A p \in Projects : p \in Project /\ project[p] # Missing /\ project[p] \in ProjectRow
  BY LiveRows, RowIsNoMark DEF BindingsInv
<1>3. ASSUME NEW a \in Assets, NEW row \in AssetRow, row.home = asset[a].home, NEW look \in BOOLEAN,
             look \/ SameBinding(row, asset[a]), BeginEdit(r, a, row, look)
      PROVE  BindingsInv'
  <2>1. PICK call : call = [op |-> "edit", asset |-> a, saw |-> asset[a], row |-> row, look |-> look,
                            owning |-> project[asset[a].home]]
    OBVIOUS
  <2>2. /\ call.op = "edit" /\ call.asset = a /\ call.saw = asset[a] /\ call.row = row
        /\ call.look = look /\ call.owning = project[asset[a].home]
    BY <2>1
  <2>3. Came(call.asset, call.saw.home)
    BY <1>1, <2>2 DEF Came
  <2>4. ReadInv(call)
    BY <1>1, <1>2, <1>3, <2>2, <2>3 DEF ReadInv
  <2>5. Current(call)
    BY <2>2 DEF Current
  <2>6. \A t \in Touched(call) : t \in Project /\ project[t] # Missing
    BY <1>1, <1>2, <2>2 DEF Touched
  <2> QED
    BY <1>3, <2>1, <2>4, <2>5, <2>6, RequestBegins DEF BeginEdit
<1>4. CASE \E a \in Assets : \E override \in Names, named \in BOOLEAN :
             BeginEdit(r, a, [asset[a] EXCEPT !.override = override, !.named = named], TRUE)
  <2>1. PICK a \in Assets : \E override \in Names, named \in BOOLEAN :
          BeginEdit(r, a, [asset[a] EXCEPT !.override = override, !.named = named], TRUE)
    BY <1>4
  <2>2. PICK override \in Names, named \in BOOLEAN :
          BeginEdit(r, a, [asset[a] EXCEPT !.override = override, !.named = named], TRUE)
    BY <2>1
  <2>3. PICK row : row = [asset[a] EXCEPT !.override = override, !.named = named]
    OBVIOUS
  <2>4. row \in AssetRow /\ row.home = asset[a].home
    BY <1>1, <2>3 DEF AssetRow
  <2> QED
    BY <1>3, <2>2, <2>3, <2>4
<1>5. CASE \E a \in Assets : \E level \in LevelsFor(a) : BeginEdit(r, a, Levelled(asset[a], level), FALSE)
  <2>1. PICK a \in Assets : \E level \in LevelsFor(a) : BeginEdit(r, a, Levelled(asset[a], level), FALSE)
    BY <1>5
  <2>2. PICK level \in LevelsFor(a) : BeginEdit(r, a, Levelled(asset[a], level), FALSE)
    BY <2>1
  <2>3. PICK row : row = Levelled(asset[a], level)
    OBVIOUS
  <2>4. row \in AssetRow /\ row.home = asset[a].home /\ SameBinding(row, asset[a])
    BY <1>1, <2>3, LevelledRow
  <2> QED
    BY <1>3, <2>2, <2>3, <2>4
<1>6. CASE BeginResolveAsset(r)
  <2>1. PICK a \in Assets : BeginEdit(r, a, asset[a], TRUE)
    BY <1>6 DEF BeginResolveAsset
  <2> QED
    BY <1>1, <1>3, <2>1
<1> QED
  BY <1>4, <1>5, <1>6 DEF BeginUpdateAsset

-----------------------------------------------------------------------------
(***************************************************************************)
(* What the requests write                                                 *)
(***************************************************************************)

\* A write that goes onward and leaves the rows as the properties want them.
LEMMA RequestCommits ==
  ASSUME BindingsInv, NEW r \in InFlight, End(r), Onward(r), disturbed' \subseteq Project,
         (\A a \in Assets : asset[a].home \in Projects)', FollowInv', SettledInv'
  PROVE  BindingsInv'
<1>1. RowsInv'
  BY DEF Onward, RowsInv
<1>2. RequestsInv'
  BY RequestEnds DEF BindingsInv
<1>3. VersionsInv'
  BY DEF BindingsInv, VersionsInv, Versioned, Onward
<1> QED
  BY <1>1, <1>2, <1>3 DEF BindingsInv

\* Nothing is written.
LEMMA FailKeeps ==
  ASSUME BindingsInv, NEW r \in Request, Fail(r)
  PROVE  BindingsInv'
<1>1. /\ r \in InFlight /\ End(r)
      /\ project' = project /\ asset' = asset /\ disturbed' = disturbed /\ overlapped' = overlapped
      /\ version' = version /\ restored' = restored
  BY DEF Fail, InFlight, Unwritten
<1>2. RowsInv /\ VersionsInv /\ FollowInv /\ SettledInv
  BY DEF BindingsInv
<1>3. Projects' = Projects /\ Assets' = Assets
  BY <1>1 DEF Projects, Assets, Live
<1>4. Onward(r)
  BY <1>1, <1>2, <1>3 DEF Onward, RowsInv, VersionsInv
<1>5. (\A a \in Assets : asset[a].home \in Projects)' /\ disturbed' \subseteq Project
  BY <1>1, <1>2, <1>3 DEF RowsInv
<1>6. FollowInv' /\ SettledInv'
  BY <1>1, <1>2, <1>3 DEF FollowInv, SettledInv
<1> QED
  BY <1>1, <1>4, <1>5, <1>6, RequestCommits

\* A request in flight, what it holds, and that it is alone or the rows it read are
\* disturbed.
LEMMA InHand ==
  ASSUME BindingsInv, NEW r \in Request, request[r].op # "idle"
  PROVE  /\ r \in InFlight /\ RowsInv /\ VersionsInv /\ FollowInv /\ SettledInv
         /\ ReadInv(request[r])
         /\ \A p \in Touched(request[r]) : p \in Project /\ project[p] # Missing
         /\ r \in alone => Current(request[r])
         /\ r \notin alone => overlapped /\ Touched(request[r]) \subseteq disturbed
<1>1. r \in InFlight
  BY DEF InFlight, Idle
<1> QED
  BY <1>1 DEF BindingsInv, RequestsInv, RequestInv

\* A project that is new has no assets.
LEMMA CreateKeeps ==
  ASSUME BindingsInv, NEW r \in Request, CommitProject(r)
  PROVE  BindingsInv'
<1> PICK call : call = request[r]
  OBVIOUS
<1>1. /\ call.op = "project" /\ project[call.project] = Missing
      /\ \E binding \in Bound(call.name, call.hint) : project' = [project EXCEPT ![call.project] = binding]
      /\ disturbed' = disturbed \ {call.project} /\ overlapped' = overlapped /\ End(r) /\ asset' = asset
      /\ version' = version /\ restored' = restored
  BY DEF CommitProject, Taken, Unwritten
<1>2. r \in InFlight /\ RowsInv /\ VersionsInv /\ FollowInv /\ SettledInv /\ ReadInv(call)
  BY <1>1, InHand
<1>3. call.project \in Project /\ call.name \in Names /\ call.hint \in Names
  BY <1>1, <1>2 DEF ReadInv, Picks
<1>4. PICK binding \in ProjectRow : project' = [project EXCEPT ![call.project] = binding]
  BY <1>1, <1>3, BoundRow
<1>5. project \in [Project -> ProjectRow \cup {Missing, Gone}] /\ asset \in [Asset -> AssetRow \cup {Missing, Gone}]
      /\ disturbed \subseteq Project
  BY <1>2 DEF RowsInv
<1>6. Assets' = Assets /\ \A a \in Assets : asset[a].home \in Projects
  BY <1>1, <1>2 DEF RowsInv, Assets, Live
<1>7. call.project \notin Projects
  BY <1>1, <1>2, LiveRows, RowIsNoMark
<1>8. \A p \in Project : p # call.project => project'[p] = project[p]
  BY <1>4, <1>5
<1>9. project' \in [Project -> ProjectRow \cup {Missing, Gone}]
  BY <1>3, <1>4, <1>5
<1>10. Onward(r)
  BY <1>1, <1>2, <1>5, <1>6, <1>8, <1>9 DEF Onward, VersionsInv
<1>11. \A p \in Projects : p # call.project /\ p \in Projects' /\ project'[p] = project[p]
  BY <1>1, <1>2, <1>5, <1>7, <1>8, <1>9, LiveRows, LiveRowsNext
<1>12. (\A a \in Assets : asset[a].home \in Projects)' /\ disturbed' \subseteq Project
  BY <1>1, <1>5, <1>6, <1>11
<1>13. FollowInv'
  BY <1>1, <1>2, <1>6, <1>11 DEF FollowInv
<1>14. SettledInv'
  BY <1>1, <1>2, <1>6 DEF SettledInv
<1> QED
  BY <1>1, <1>2, <1>10, <1>12, <1>13, <1>14, RequestCommits

\* A project goes with all of its assets.
LEMMA DropKeeps ==
  ASSUME BindingsInv, NEW r \in Request, CommitDrop(r)
  PROVE  BindingsInv'
<1> PICK call : call = request[r]
  OBVIOUS
<1>1. /\ call.op = "drop"
      /\ project' = [project EXCEPT ![call.project] = Gone]
      /\ asset' = [a \in Asset |-> IF a \in Of(call.project) THEN Gone ELSE asset[a]]
      /\ disturbed' = disturbed /\ overlapped' = overlapped /\ End(r)
      /\ version' = [version EXCEPT ![call.project] = Missing] /\ restored' = restored
  BY DEF CommitDrop, Taken, Unwritten
<1>2. r \in InFlight /\ RowsInv /\ VersionsInv /\ FollowInv /\ SettledInv /\ ReadInv(call)
  BY <1>1, InHand
<1>3. call.project \in Project
  BY <1>1, <1>2 DEF ReadInv
<1>4. project \in [Project -> ProjectRow \cup {Missing, Gone}] /\ asset \in [Asset -> AssetRow \cup {Missing, Gone}]
      /\ disturbed \subseteq Project /\ \A a \in Assets : asset[a].home \in Projects
  BY <1>2 DEF RowsInv
<1>5. /\ project' \in [Project -> ProjectRow \cup {Missing, Gone}]
      /\ asset' \in [Asset -> AssetRow \cup {Missing, Gone}]
  BY <1>1, <1>3, <1>4
<1>6. \A p \in Project : project'[p] = IF p = call.project THEN Gone ELSE project[p]
  BY <1>1, <1>4
<1>7. \A a \in Assets' : a \in Assets /\ asset'[a] = asset[a] /\ asset[a].home # call.project
  BY <1>1, <1>2, <1>5, LiveRows, LiveRowsNext, RowIsNoMark DEF Of
<1>8. \A p \in Projects : p # call.project => p \in Projects' /\ project'[p] = project[p]
  BY <1>2, <1>5, <1>6, LiveRows, LiveRowsNext
<1>9. \A a \in Asset : asset[a] # Missing => asset'[a] # Missing
  BY <1>1, RowIsNoMark
<1>10. Onward(r)
  <2>1. version' = [p \in Project |-> version'[p]] /\ \A p \in Project : version'[p] \in {version[p], Missing}
    BY <1>1, <1>2, <1>3 DEF VersionsInv
  <2> QED
    BY <1>1, <1>5, <1>6, <1>7, <1>9, <2>1, RowIsNoMark DEF Onward
<1>11. (\A a \in Assets : asset[a].home \in Projects)'
  BY <1>4, <1>7, <1>8
<1>12. FollowInv'
  BY <1>1, <1>2, <1>4, <1>7, <1>8 DEF FollowInv
<1>13. SettledInv'
  BY <1>1, <1>2, <1>7 DEF SettledInv
<1> QED
  BY <1>1, <1>2, <1>4, <1>10, <1>11, <1>12, <1>13, RequestCommits

\* An asset goes.
LEMMA RemoveKeeps ==
  ASSUME BindingsInv, NEW r \in Request, CommitRemove(r)
  PROVE  BindingsInv'
<1> PICK call : call = request[r]
  OBVIOUS
<1>1. /\ call.op = "remove" /\ asset' = [asset EXCEPT ![call.asset] = Gone]
      /\ project' = project /\ disturbed' = disturbed /\ overlapped' = overlapped /\ End(r)
      /\ version' = version /\ restored' = restored
  BY DEF CommitRemove, Taken, Unwritten
<1>2. r \in InFlight /\ RowsInv /\ VersionsInv /\ FollowInv /\ SettledInv
  BY <1>1, InHand
<1>3. project \in [Project -> ProjectRow \cup {Missing, Gone}] /\ asset \in [Asset -> AssetRow \cup {Missing, Gone}]
      /\ disturbed \subseteq Project /\ \A a \in Assets : asset[a].home \in Projects
  BY <1>2 DEF RowsInv
<1>4. /\ project' \in [Project -> ProjectRow \cup {Missing, Gone}]
      /\ asset' \in [Asset -> AssetRow \cup {Missing, Gone}]
  BY <1>1, <1>3
<1>5. \A a \in Asset : asset'[a] \in {asset[a], Gone}
  BY <1>1, <1>3
<1>6. \A a \in Assets' : a \in Assets /\ asset'[a] = asset[a]
  BY <1>2, <1>4, <1>5, LiveRows, LiveRowsNext, RowIsNoMark
<1>7. Projects' = Projects
  BY <1>1 DEF Projects, Live
<1>8. Onward(r)
  BY <1>1, <1>2, <1>4, <1>5, <1>6, RowIsNoMark DEF Onward, VersionsInv
<1>9. (\A a \in Assets : asset[a].home \in Projects)'
  BY <1>3, <1>6, <1>7
<1>10. FollowInv'
  BY <1>1, <1>2, <1>6 DEF FollowInv
<1>11. SettledInv'
  BY <1>1, <1>2, <1>6 DEF SettledInv
<1> QED
  BY <1>1, <1>2, <1>3, <1>8, <1>9, <1>10, <1>11, RequestCommits

\* A new asset is resolved by the row of its project that was read.
LEMMA AddKeeps ==
  ASSUME BindingsInv, NEW r \in Request, CommitAdd(r)
  PROVE  BindingsInv'
<1> PICK call : call = request[r]
  OBVIOUS
<1>1. /\ call.op = "add" /\ call.project \in Projects
      /\ \E a \in call.kind, b \in Resolved(call.owning, call.row.override, call.row.named) :
           asset[a] = Missing /\ asset' = [asset EXCEPT ![a] = Answered(call.row, b)]
      /\ project' = project /\ disturbed' = disturbed /\ overlapped' = overlapped /\ End(r)
      /\ version' = version /\ restored' = restored
  BY DEF CommitAdd, Taken, Unwritten
<1>2. /\ r \in InFlight /\ RowsInv /\ VersionsInv /\ FollowInv /\ SettledInv /\ ReadInv(call)
      /\ r \in alone => Current(call)
      /\ r \notin alone => overlapped /\ Touched(call) \subseteq disturbed
  BY <1>1, InHand
<1>3. /\ call.kind \in {Job, App} /\ call.owning \in ProjectRow
      /\ call.row \in AssetRow /\ call.row.home = call.project
  BY <1>1, <1>2 DEF ReadInv
<1>4. PICK a \in Asset, b \in Resolved(call.owning, call.row.override, call.row.named) :
        asset[a] = Missing /\ asset' = [asset EXCEPT ![a] = Answered(call.row, b)]
  BY <1>1, <1>3 DEF Asset
<1> PICK row : row = Answered(call.row, b)
  OBVIOUS
<1>5. call.row.override \in Names /\ call.row.named \in BOOLEAN
  BY <1>3, Columns
<1>6. row \in AssetRow /\ row.home = call.project /\ Follows(row, call.owning) /\ Settled(row)
  BY <1>3, <1>5, ResolvedFits, AnsweredSettles
<1>7. project \in [Project -> ProjectRow \cup {Missing, Gone}] /\ asset \in [Asset -> AssetRow \cup {Missing, Gone}]
      /\ disturbed \subseteq Project /\ \A c \in Assets : asset[c].home \in Projects
  BY <1>2 DEF RowsInv
<1>8. /\ project' \in [Project -> ProjectRow \cup {Missing, Gone}]
      /\ asset' \in [Asset -> AssetRow \cup {Missing, Gone}]
  BY <1>1, <1>4, <1>6, <1>7
<1>9. \A c \in Asset : asset'[c] = IF c = a THEN row ELSE asset[c]
  BY <1>4, <1>7
<1>10. \A c \in Assets' : c = a \/ (c \in Assets /\ asset'[c] = asset[c])
  <2>1. \A c \in Assets' : c \in Asset /\ asset'[c] \in AssetRow
    BY <1>8, LiveRowsNext
  <2> QED
    BY <1>2, <1>9, <2>1, LiveRows
<1>11. Projects' = Projects
  BY <1>1 DEF Projects, Live
<1>12. Onward(r)
  BY <1>1, <1>2, <1>4, <1>8, <1>9, <1>10 DEF Onward, VersionsInv
<1>13. (\A c \in Assets : asset[c].home \in Projects)'
  BY <1>1, <1>6, <1>7, <1>9, <1>10, <1>11
<1>14. call.project \in disturbed \/ call.owning = project[call.project]
  BY <1>1, <1>2 DEF Touched, Current
<1>15. FollowInv'
  <2>1. ASSUME NEW c \in Assets', asset'[c].home \notin disturbed', c \notin restored'
        PROVE  Follows(asset'[c], project'[asset'[c].home])
    <3>1. CASE c = a
      BY <1>1, <1>4, <1>6, <1>9, <1>14, <2>1, <3>1
    <3>2. CASE c # a
      BY <1>1, <1>2, <1>10, <2>1, <3>2 DEF FollowInv
    <3> QED
      BY <3>1, <3>2
  <2> QED
    BY <2>1 DEF FollowInv
<1>16. SettledInv'
  BY <1>1, <1>2, <1>4, <1>6, <1>9, <1>10 DEF SettledInv, Settled
<1> QED
  BY <1>1, <1>2, <1>7, <1>12, <1>13, <1>15, <1>16, RequestCommits

\* An edit resolves anew, or leaves the binding; alone, it writes over the row it read.
LEMMA EditKeeps ==
  ASSUME BindingsInv, NEW r \in Request, CommitEdit(r)
  PROVE  BindingsInv'
<1> DEFINE call == request[r]
<1>1. /\ call.op = "edit" /\ call.asset \in Assets
      /\ \E row \in IF call.look
                    THEN {Answered(call.row, b) : b \in Resolved(call.owning, call.row.override, call.row.named)}
                    ELSE {call.row} :
           asset' = [asset EXCEPT ![call.asset] = Written(asset[call.asset], call.saw, row)]
      /\ project' = project /\ disturbed' = disturbed /\ overlapped' = overlapped /\ End(r)
      /\ version' = version /\ restored' = IF call.look THEN restored \ {call.asset} ELSE restored
  BY DEF CommitEdit, Taken, Unwritten
<1> HIDE DEF call
<1>2. /\ r \in InFlight /\ RowsInv /\ VersionsInv /\ FollowInv /\ SettledInv /\ ReadInv(call)
      /\ r \in alone => Current(call)
      /\ r \notin alone => overlapped /\ Touched(call) \subseteq disturbed
  BY <1>1, InHand DEF call
<1> PICK a : a = call.asset
  OBVIOUS
<1>3. /\ call.owning \in ProjectRow /\ call.saw \in AssetRow /\ call.row \in AssetRow
      /\ call.row.home = call.saw.home /\ (call.look \/ SameBinding(call.row, call.saw))
      /\ a \in Asset /\ asset[a] \in AssetRow /\ asset[a].home = call.saw.home
  BY <1>1, <1>2, LiveRows DEF ReadInv, Came
<1>4. PICK row \in IF call.look
                   THEN {Answered(call.row, b) : b \in Resolved(call.owning, call.row.override, call.row.named)}
                   ELSE {call.row} :
        asset' = [asset EXCEPT ![a] = Written(asset[a], call.saw, row)]
  BY <1>1
<1>5. /\ row \in AssetRow /\ row.home = call.saw.home
      /\ \/ Follows(row, call.owning) /\ Settled(row)
         \/ ~call.look /\ SameBinding(row, call.saw)
  <2>1. CASE call.look
    <3>1. PICK b \in Resolved(call.owning, call.row.override, call.row.named) : row = Answered(call.row, b)
      BY <1>4, <2>1
    <3>2. call.row.override \in Names /\ call.row.named \in BOOLEAN
      BY <1>3, Columns
    <3> QED
      BY <1>3, <3>1, <3>2, ResolvedFits, AnsweredSettles
  <2>2. CASE ~call.look
    BY <1>3, <1>4, <2>2
  <2> QED
    BY <2>1, <2>2
<1> PICK new : new = Written(asset[a], call.saw, row)
  OBVIOUS
<1>6. new \in AssetRow /\ new.home = asset[a].home /\ (asset[a] = call.saw => new = row)
  BY <1>3, <1>5, WrittenRow
<1>7. project \in [Project -> ProjectRow \cup {Missing, Gone}] /\ asset \in [Asset -> AssetRow \cup {Missing, Gone}]
      /\ disturbed \subseteq Project /\ \A c \in Assets : asset[c].home \in Projects
  BY <1>2 DEF RowsInv
<1>8. /\ project' \in [Project -> ProjectRow \cup {Missing, Gone}]
      /\ asset' \in [Asset -> AssetRow \cup {Missing, Gone}]
  BY <1>1, <1>4, <1>6, <1>7
<1>9. \A c \in Asset : asset'[c] = IF c = a THEN new ELSE asset[c]
  BY <1>4, <1>7
<1>10. Assets' = Assets
  <2>1. \A c : c \in Assets' <=> c \in Asset /\ asset'[c] \in AssetRow
    BY <1>8, LiveRowsNext
  <2>2. \A c : c \in Assets <=> c \in Asset /\ asset[c] \in AssetRow
    BY <1>2, LiveRows
  <2>3. \A c \in Asset : asset'[c] \in AssetRow <=> asset[c] \in AssetRow
    BY <1>3, <1>6, <1>9
  <2> QED
    BY <2>1, <2>2, <2>3
<1>11. Projects' = Projects
  BY <1>1 DEF Projects, Live
<1>12. \A c \in Assets : c \in Asset /\ asset'[c].home = asset[c].home
  BY <1>2, <1>6, <1>9, LiveRows
<1>13. Onward(r)
  <2>1. \A c \in Asset : asset[c] # Missing => asset'[c] # Missing
    BY <1>6, <1>9, RowIsNoMark
  <2> QED
    BY <1>1, <1>2, <1>8, <1>10, <1>12, <2>1 DEF Onward, VersionsInv
<1>14. (\A c \in Assets : asset[c].home \in Projects)'
  BY <1>7, <1>10, <1>11, <1>12
<1>15. \/ asset[a].home \in disturbed /\ overlapped
       \/ new = row /\ call.owning = project[asset[a].home] /\ asset[a] = call.saw
  BY <1>1, <1>2, <1>3, <1>6 DEF Touched, Current
<1>16. FollowInv'
  <2>1. ASSUME NEW c \in Assets', asset'[c].home \notin disturbed', c \notin restored'
        PROVE  Follows(asset'[c], project'[asset'[c].home])
    <3>1. CASE c = a
      <4>1. new = row /\ call.owning = project[asset[a].home] /\ asset[a] = call.saw
        BY <1>1, <1>3, <1>6, <1>9, <1>15, <2>1, <3>1
      <4>2. asset'[c] = row /\ row.home = asset[a].home
        BY <1>3, <1>6, <1>9, <3>1, <4>1
      <4>3. call.look \/ Follows(asset[a], call.owning)
        BY <1>1, <1>2, <2>1, <3>1, <4>1, <4>2 DEF FollowInv
      <4>4. Follows(row, call.owning)
        BY <1>5, <4>1, <4>3 DEF Follows, SameBinding, Inherits
      <4> QED
        BY <1>1, <4>1, <4>2, <4>4
    <3>2. CASE c # a
      BY <1>1, <1>2, <1>9, <1>10, <1>12, <2>1, <3>2 DEF FollowInv
    <3> QED
      BY <3>1, <3>2
  <2> QED
    BY <2>1 DEF FollowInv
<1>17. SettledInv'
  <2>1. CASE overlapped
    BY <1>1, <2>1 DEF SettledInv
  <2>2. CASE ~overlapped
    <3>1. asset'[a] = row /\ asset[a] = call.saw
      BY <1>3, <1>9, <1>15, <2>2
    <3>2. Paired(row) /\ (a \notin restored' => Settled(row))
      BY <1>1, <1>2, <1>5, <2>2, <3>1 DEF SettledInv, Settled, Paired, SameBinding, Inherits
    <3>3. \A c \in Assets : Paired(asset'[c]) /\ (c \notin restored' => Settled(asset'[c]))
      BY <1>1, <1>2, <1>9, <1>12, <2>2, <3>1, <3>2 DEF SettledInv
    <3> QED
      BY <1>10, <3>3 DEF SettledInv
  <2> QED
    BY <2>1, <2>2
<1> QED
  BY <1>1, <1>2, <1>7, <1>13, <1>14, <1>16, <1>17, RequestCommits

\* A rebind or a resolve writes the rows it read; alone, it has read all the rows of
\* the project.
LEMMA RebindKeeps ==
  ASSUME BindingsInv, NEW r \in Request, CommitRebind(r)
  PROVE  BindingsInv'
<1> DEFINE call == request[r]
           p == call.project
           was == call.saw.project
           rows == call.saw.rows
<1>1. /\ call.op \in {"rebind", "resolve"} /\ p \in Projects /\ DOMAIN rows \subseteq Assets
      /\ \E new \in IF call.op = "rebind" THEN Bound(call.name, call.hint) ELSE Bound(was.name, Missing) :
         \E after \in {f \in [DOMAIN rows -> UNION {Rebound(new, rows[a]) : a \in DOMAIN rows}] :
                         \A a \in DOMAIN rows : f[a] \in Rebound(new, rows[a])} :
           /\ project' = [project EXCEPT ![p] = WrittenProject(project[p], was, new)]
           /\ IF call.op = "resolve" \/ CmlChanged(was, new)
              THEN /\ asset' = [a \in Asset |-> IF a \in DOMAIN rows THEN Written(asset[a], rows[a], after[a]) ELSE asset[a]]
                   /\ restored' = restored \ {a \in DOMAIN rows : Inherits(rows[a])}
              ELSE UNCHANGED <<asset, restored>>
      /\ disturbed' = IF call.op = "resolve" /\ r \in alone THEN disturbed \ {p} ELSE disturbed
      /\ overlapped' = overlapped /\ End(r) /\ version' = version
  BY DEF CommitRebind, Taken, Unwritten
<1>2. /\ r \in InFlight /\ RowsInv /\ VersionsInv /\ FollowInv /\ SettledInv /\ ReadInv(call)
      /\ r \in alone => Current(call)
      /\ r \notin alone => overlapped /\ Touched(call) \subseteq disturbed
  <2>1. request[r].op # "idle"
    BY <1>1
  <2> QED
    BY <2>1, InHand
<1> HIDE DEF call, p, was, rows
<1>3. /\ p \in Projects /\ p \in Project /\ project[p] \in ProjectRow
      /\ was \in ProjectRow /\ RowsOf(rows, p) /\ DOMAIN rows \subseteq Assets
  BY <1>1, <1>2, LiveRows DEF ReadInv, p, was, rows
<1>4. \A a \in DOMAIN rows : rows[a] \in AssetRow /\ rows[a].home = p /\ a \in Assets /\ asset[a].home = p
  BY <1>3 DEF RowsOf, Came
<1>5. r \in alone => was = project[p] /\ DOMAIN rows = Of(p) /\ \A a \in DOMAIN rows : rows[a] = asset[a]
  <2>1. r \in alone => call.saw = Scope(p)
    BY <1>1, <1>2 DEF Current, p
  <2>2. Scope(p) = [project |-> project[p], rows |-> [a \in Of(p) |-> asset[a]]]
    BY DEF Scope, Restrict
  <2>3. ASSUME r \in alone PROVE was = project[p] /\ rows = [a \in Of(p) |-> asset[a]]
    BY <2>1, <2>2, <2>3 DEF was, rows
  <2> QED
    BY <2>3
<1>6. PICK new \in IF call.op = "rebind" THEN Bound(call.name, call.hint) ELSE Bound(was.name, Missing) :
        \E after \in {f \in [DOMAIN rows -> UNION {Rebound(new, rows[a]) : a \in DOMAIN rows}] :
                         \A a \in DOMAIN rows : f[a] \in Rebound(new, rows[a])} :
           /\ project' = [project EXCEPT ![p] = WrittenProject(project[p], was, new)]
           /\ IF call.op = "resolve" \/ CmlChanged(was, new)
              THEN /\ asset' = [a \in Asset |-> IF a \in DOMAIN rows THEN Written(asset[a], rows[a], after[a]) ELSE asset[a]]
                   /\ restored' = restored \ {a \in DOMAIN rows : Inherits(rows[a])}
              ELSE UNCHANGED <<asset, restored>>
  BY <1>1
<1>7. new \in ProjectRow
  <2>1. call.op = "rebind" => call.name \in Names /\ call.hint \in Names
    BY <1>2 DEF ReadInv, Picks
  <2>2. was.name \in Names /\ Missing \in Names
    BY <1>3 DEF ProjectRow, Names
  <2> QED
    BY <1>6, <2>1, <2>2, BoundRow
<1>8. PICK after :
        /\ \A a \in DOMAIN rows : after[a] \in Rebound(new, rows[a])
        /\ project' = [project EXCEPT ![p] = WrittenProject(project[p], was, new)]
        /\ IF call.op = "resolve" \/ CmlChanged(was, new)
           THEN /\ asset' = [a \in Asset |-> IF a \in DOMAIN rows THEN Written(asset[a], rows[a], after[a]) ELSE asset[a]]
                /\ restored' = restored \ {a \in DOMAIN rows : Inherits(rows[a])}
           ELSE UNCHANGED <<asset, restored>>
  BY <1>6
<1>9. \A a \in DOMAIN rows : /\ after[a] \in AssetRow /\ after[a].home = p
                             /\ Follows(after[a], new)
                             /\ IF Inherits(rows[a]) THEN Settled(after[a]) ELSE after[a] = rows[a]
  BY <1>4, <1>8, <1>7, ReboundFits
<1>10. project \in [Project -> ProjectRow \cup {Missing, Gone}] /\ asset \in [Asset -> AssetRow \cup {Missing, Gone}]
      /\ disturbed \subseteq Project /\ \A c \in Assets : asset[c].home \in Projects
  BY <1>2 DEF RowsInv
<1> PICK made : made = WrittenProject(project[p], was, new)
  OBVIOUS
<1>11. made \in ProjectRow /\ (project[p] = was => made = new)
  BY <1>3, <1>7, WrittenProjectRow
<1>12. /\ project' \in [Project -> ProjectRow \cup {Missing, Gone}]
       /\ \A c \in Project : project'[c] = IF c = p THEN made ELSE project[c]
  BY <1>3, <1>8, <1>10, <1>11
<1>13. \A a \in Assets : a \in Asset /\ asset[a] \in AssetRow
  BY <1>2, LiveRows
<1>14. \A a \in DOMAIN rows : /\ Written(asset[a], rows[a], after[a]) \in AssetRow
                              /\ Written(asset[a], rows[a], after[a]).home = p
                              /\ asset[a] = rows[a] => Written(asset[a], rows[a], after[a]) = after[a]
  BY <1>4, <1>9, <1>13, WrittenRow
<1>15. \/ /\ call.op = "resolve" \/ was # new
          /\ asset' = [a \in Asset |-> IF a \in DOMAIN rows THEN Written(asset[a], rows[a], after[a]) ELSE asset[a]]
          /\ restored' = restored \ {a \in DOMAIN rows : Inherits(rows[a])}
       \/ /\ call.op # "resolve" /\ was = new
          /\ asset' = asset /\ restored' = restored
  BY <1>8 DEF CmlChanged
<1>16. asset' \in [Asset -> AssetRow \cup {Missing, Gone}]
  BY <1>10, <1>14, <1>15
<1>17. /\ \A a \in Asset : a \notin DOMAIN rows => asset'[a] = asset[a]
       /\ \A a \in DOMAIN rows : asset'[a] \in AssetRow /\ asset'[a].home = p
  BY <1>4, <1>13, <1>14, <1>15
<1>18. Assets' = Assets
  <2>1. \A c : c \in Assets' <=> c \in Asset /\ asset'[c] \in AssetRow
    BY <1>12, <1>16, LiveRowsNext
  <2>2. \A c : c \in Assets <=> c \in Asset /\ asset[c] \in AssetRow
    BY <1>2, LiveRows
  <2> QED
    BY <1>4, <1>17, <2>1, <2>2
<1>19. Projects' = Projects
  <2>1. \A c : c \in Projects' <=> c \in Project /\ project'[c] \in ProjectRow
    BY <1>12, <1>16, LiveRowsNext
  <2>2. \A c : c \in Projects <=> c \in Project /\ project[c] \in ProjectRow
    BY <1>2, LiveRows
  <2> QED
    BY <1>3, <1>11, <1>12, <2>1, <2>2
<1>20. \A a \in Assets : asset'[a].home = asset[a].home
  BY <1>4, <1>13, <1>17
<1>21. Onward(r)
  <2>1. \A c \in Project : project[c] # Missing => project'[c] # Missing
    BY <1>11, <1>12, RowIsNoMark
  <2>2. \A a \in Asset : asset[a] # Missing => asset'[a] # Missing
    BY <1>17, RowIsNoMark
  <2>3. \A c \in disturbed : c \in disturbed' \/ r \in alone
    BY <1>1
  <2> QED
    BY <1>1, <1>2, <1>12, <1>16, <1>18, <1>20, <2>1, <2>2, <2>3 DEF Onward, VersionsInv
<1>22. (\A c \in Assets : asset[c].home \in Projects)' /\ disturbed' \subseteq Project
  BY <1>1, <1>10, <1>18, <1>19, <1>20
<1>23. ASSUME r \in alone
       PROVE  /\ project'[p] = new
              /\ \/ /\ \A a \in Assets : asset[a].home = p => a \in DOMAIN rows /\ asset'[a] = after[a] /\ rows[a] = asset[a]
                    /\ restored' = restored \ {a \in DOMAIN rows : Inherits(rows[a])}
                 \/ disturbed' = disturbed /\ asset' = asset /\ restored' = restored /\ project'[p] = project[p]
  <2>1. was = project[p] /\ DOMAIN rows = Of(p) /\ \A a \in DOMAIN rows : rows[a] = asset[a]
    BY <1>5, <1>23
  <2>2. project'[p] = new
    BY <1>3, <1>11, <1>12, <2>1
  <2>3. CASE call.op # "resolve" /\ was = new /\ asset' = asset /\ restored' = restored
    BY <1>1, <2>1, <2>2, <2>3
  <2>4. CASE /\ asset' = [a \in Asset |-> IF a \in DOMAIN rows THEN Written(asset[a], rows[a], after[a]) ELSE asset[a]]
             /\ restored' = restored \ {a \in DOMAIN rows : Inherits(rows[a])}
    <3>1. \A a \in Assets : asset[a].home = p => a \in DOMAIN rows
      BY <2>1 DEF Of
    <3> QED
      BY <1>13, <1>14, <2>1, <2>2, <2>4, <3>1
  <2> QED
    BY <1>15, <2>3, <2>4
<1>24. r \notin alone => overlapped /\ p \in disturbed /\ p \in disturbed'
  BY <1>1, <1>2 DEF Touched, p
<1>25. FollowInv'
  <2>1. ASSUME NEW a \in Assets, asset[a].home \notin disturbed', a \notin restored'
        PROVE  Follows(asset'[a], project'[asset[a].home])
    <3>1. CASE asset[a].home # p
      <4>1. asset'[a] = asset[a] /\ project'[asset[a].home] = project[asset[a].home]
        BY <1>2, <1>4, <1>10, <1>12, <1>13, <1>17, <3>1, LiveRows
      <4>2. asset[a].home \notin disturbed /\ a \notin restored
        BY <1>1, <1>4, <1>15, <2>1, <3>1
      <4> QED
        BY <1>2, <4>1, <4>2 DEF FollowInv
    <3>2. CASE asset[a].home = p
      <4>1. r \in alone
        BY <1>24, <2>1, <3>2
      <4>2. CASE a \in DOMAIN rows /\ asset'[a] = after[a]
        BY <1>9, <1>23, <3>2, <4>1, <4>2
      <4>3. CASE disturbed' = disturbed /\ asset' = asset /\ restored' = restored /\ project'[p] = project[p]
        BY <1>2, <2>1, <3>2, <4>3 DEF FollowInv
      <4> QED
        BY <1>23, <3>2, <4>1, <4>2, <4>3
    <3> QED
      BY <3>1, <3>2
  <2> QED
    BY <1>18, <1>20, <2>1 DEF FollowInv
<1>26. SettledInv'
  <2>1. CASE overlapped
    BY <1>1, <2>1 DEF SettledInv
  <2>2. CASE ~overlapped
    <3>1. r \in alone /\ \A a \in Assets : Paired(asset[a]) /\ (a \notin restored => Settled(asset[a]))
      BY <1>2, <2>2 DEF SettledInv
    <3>2. ASSUME NEW a \in Assets
          PROVE  Paired(asset'[a]) /\ (a \notin restored' => Settled(asset'[a]))
      <4>1. CASE a \notin DOMAIN rows
        BY <1>13, <1>15, <1>17, <3>1, <4>1
      <4>2. CASE a \in DOMAIN rows /\ asset' = asset /\ restored' = restored
        BY <3>1, <4>2
      <4>3. CASE /\ a \in DOMAIN rows /\ asset'[a] = after[a] /\ rows[a] = asset[a]
                 /\ restored' = restored \ {c \in DOMAIN rows : Inherits(rows[c])}
        BY <1>9, <3>1, <4>3 DEF Settled
      <4> QED
        BY <1>4, <1>23, <3>1, <4>1, <4>2, <4>3
    <3> QED
      BY <1>18, <3>2 DEF SettledInv
  <2> QED
    BY <2>1, <2>2
<1> QED
  BY <1>1, <1>2, <1>21, <1>22, <1>25, <1>26, RequestCommits

\* The rows that are placed get an id each that no row has had.
LEMMA Placed ==
  ASSUME NEW rows, NEW place \in Places(rows), NEW b \in Range(place)
  PROVE  /\ b \in Asset /\ asset[b] = Missing
         /\ \E a \in DOMAIN rows : place[a] = b /\ RowAt(rows, place, b) = rows[a]
<1>1. place \in [DOMAIN rows -> Asset] /\ \A a \in DOMAIN rows : asset[place[a]] = Missing
  BY DEF Places, Injection, IsInjective
<1>2. PICK a \in DOMAIN rows : place[a] = b
  BY <1>1 DEF Range
<1>3. PICK src : src = CHOOSE c \in DOMAIN rows : place[c] = b
  OBVIOUS
<1>4. src \in DOMAIN rows /\ place[src] = b
  BY <1>2, <1>3, Zenon
<1>5. RowAt(rows, place, b) = rows[src]
  BY <1>3 DEF RowAt
<1> QED
  BY <1>1, <1>2, <1>4, <1>5

\* A row of a version comes back paired as it was.
LEMMA RestoredRow ==
  ASSUME NEW row \in AssetRow
  PROVE  /\ Restored(row) \in AssetRow /\ Restored(row).home = row.home
         /\ Paired(row) => Paired(Restored(row))
<1>1. /\ Restored(row) \in AssetRow /\ Restored(row).home = row.home
      /\ Restored(row).override = row.override /\ Restored(row).project = row.project
      /\ Restored(row).found = row.found
  BY DEF Restored, AssetRow
<1> QED
  BY <1>1 DEF Paired, Inherits

\* A rollback leaves only new assets in the project, all of them restored.
LEMMA RollbackKeeps ==
  ASSUME BindingsInv, NEW r \in Request, CommitRollback(r)
  PROVE  BindingsInv'
<1> PICK call : call = request[r]
  OBVIOUS
<1>1. /\ call.op = "rollback" /\ call.project \in Projects
      /\ \E place \in Places(call.rows) :
           /\ asset' = [b \in Asset |-> IF b \in Range(place) THEN Restored(RowAt(call.rows, place, b))
                                        ELSE IF b \in Of(call.project) THEN Gone ELSE asset[b]]
           /\ restored' = restored \cup Range(place)
      /\ project' = project /\ version' = version /\ disturbed' = disturbed
      /\ overlapped' = overlapped /\ End(r)
  BY DEF CommitRollback, Taken, Unwritten
<1>2. r \in InFlight /\ RowsInv /\ VersionsInv /\ FollowInv /\ SettledInv /\ ReadInv(call)
  BY <1>1, InHand
<1> PICK p : p = call.project
  OBVIOUS
<1> PICK rows : rows = call.rows
  OBVIOUS
<1>3. p \in Projects /\ Versioned(rows, p)
  BY <1>1, <1>2 DEF ReadInv
<1>4. PICK place \in Places(rows) :
        /\ asset' = [b \in Asset |-> IF b \in Range(place) THEN Restored(RowAt(rows, place, b))
                                     ELSE IF b \in Of(p) THEN Gone ELSE asset[b]]
        /\ restored' = restored \cup Range(place)
  BY <1>1
<1>5. ASSUME NEW b \in Range(place)
      PROVE  /\ b \in Asset /\ asset[b] = Missing /\ b \in restored'
             /\ asset'[b] \in AssetRow /\ asset'[b].home = p
             /\ overlapped \/ Paired(asset'[b])
  <2>1. b \in Asset /\ asset[b] = Missing
    BY Placed
  <2>2. PICK a \in DOMAIN rows : RowAt(rows, place, b) = rows[a]
    BY Placed
  <2>3. rows[a] \in AssetRow /\ rows[a].home = p /\ (overlapped \/ Paired(rows[a]))
    BY <1>3, <2>2 DEF Versioned
  <2>4. asset'[b] = Restored(rows[a]) /\ b \in restored'
    BY <1>4, <2>1, <2>2
  <2> QED
    BY <2>1, <2>3, <2>4, RestoredRow
<1>6. project \in [Project -> ProjectRow \cup {Missing, Gone}] /\ asset \in [Asset -> AssetRow \cup {Missing, Gone}]
      /\ disturbed \subseteq Project /\ \A c \in Assets : asset[c].home \in Projects
  BY <1>2 DEF RowsInv
<1>7. \A b \in Asset : b \notin Range(place) => asset'[b] = IF b \in Of(p) THEN Gone ELSE asset[b]
  BY <1>4
<1>8. /\ project' \in [Project -> ProjectRow \cup {Missing, Gone}]
      /\ asset' \in [Asset -> AssetRow \cup {Missing, Gone}]
  <2>1. \A b \in Asset : asset'[b] \in AssetRow \cup {Missing, Gone}
    BY <1>5, <1>6, <1>7
  <2> QED
    BY <1>1, <1>4, <1>6, <2>1
<1>9. \A b \in Assets' : b \in Range(place) \/ (b \in Assets /\ asset'[b] = asset[b])
  <2>1. \A b \in Assets' : b \in Asset /\ asset'[b] \in AssetRow
    BY <1>8, LiveRowsNext
  <2> QED
    BY <1>2, <1>7, <2>1, LiveRows, RowIsNoMark
<1>10. Projects' = Projects
  BY <1>1 DEF Projects, Live
<1>11. Onward(r)
  <2>1. \A b \in Asset : asset[b] # Missing => b \notin Range(place) /\ asset'[b] # Missing
    BY <1>5, <1>7, RowIsNoMark
  <2>2. \A b \in Asset : asset[b] # Missing /\ b \in Assets' => b \in Assets /\ asset'[b] = asset[b]
    BY <1>9, <2>1
  <2> QED
    BY <1>1, <1>2, <1>8, <2>1, <2>2 DEF Onward, VersionsInv
<1>12. (\A c \in Assets : asset[c].home \in Projects)'
  BY <1>3, <1>5, <1>6, <1>9, <1>10
<1>13. FollowInv'
  <2>1. ASSUME NEW b \in Assets', asset'[b].home \notin disturbed', b \notin restored'
        PROVE  Follows(asset'[b], project'[asset'[b].home])
    <3>1. b \in Assets /\ asset'[b] = asset[b] /\ b \notin restored
      BY <1>4, <1>9, <2>1
    <3> QED
      BY <1>1, <1>2, <2>1, <3>1 DEF FollowInv
  <2> QED
    BY <2>1 DEF FollowInv
<1>14. SettledInv'
  BY <1>1, <1>2, <1>4, <1>5, <1>9 DEF SettledInv
<1> QED
  BY <1>1, <1>2, <1>6, <1>11, <1>12, <1>13, <1>14, RequestCommits

\* A step that leaves the rows and the requests leaves all that is said of them.
LEMMA RowsStay ==
  ASSUME BindingsInv,
         project' = project, asset' = asset, request' = request, alone' = alone,
         overlapped' = overlapped, disturbed' = disturbed, restored' = restored
  PROVE  (RowsInv /\ RequestsInv /\ FollowInv /\ SettledInv)'
<1>1. Projects' = Projects /\ Assets' = Assets /\ InFlight' = InFlight
  BY DEF Projects, Assets, Live, InFlight
<1>2. RowsInv'
  BY <1>1 DEF BindingsInv, RowsInv
<1>3. RequestsInv'
  <2>1. \A call : ReadInv(call) => ReadInv(call)'
    BY <1>1 DEF ReadInv, RowsOf, Came, Versioned
  <2>2. \A call : Current(call) => Current(call)'
    BY <1>1 DEF Current, Scope, Of
  <2>3. ASSUME NEW r \in InFlight
        PROVE  RequestInv(r)'
    <3> PICK call : call = request[r]
      OBVIOUS
    <3>1. /\ ReadInv(call) /\ \A p \in Touched(call) : p \in Project /\ project[p] # Missing
          /\ IF r \in alone THEN InFlight = {r} /\ Current(call) ELSE overlapped /\ Touched(call) \subseteq disturbed
      BY DEF BindingsInv, RequestsInv, RequestInv
    <3>2. ReadInv(call)' /\ (Current(call) => Current(call)') /\ request'[r] = call
      BY <2>1, <2>2, <3>1
    <3> QED
      BY <1>1, <3>1, <3>2 DEF RequestInv
  <2> QED
    BY <1>1, <2>3 DEF BindingsInv, RequestsInv
<1>4. FollowInv' /\ SettledInv'
  BY <1>1 DEF BindingsInv, FollowInv, SettledInv
<1> QED
  BY <1>2, <1>3, <1>4

\* A version is taken of rows that are paired.
LEMMA CaptureKeeps ==
  ASSUME BindingsInv, NEW p \in Project, Capture(p)
  PROVE  BindingsInv'
<1>1. /\ p \in Projects /\ version' = [version EXCEPT ![p] = Scope(p).rows]
      /\ project' = project /\ asset' = asset /\ request' = request /\ alone' = alone
      /\ overlapped' = overlapped /\ disturbed' = disturbed /\ restored' = restored
  BY DEF Capture
<1>2. RowsInv /\ VersionsInv /\ SettledInv
  BY DEF BindingsInv
<1>3. PICK rows : rows = Restrict(asset, Of(p))
  OBVIOUS
<1>4. version' = [version EXCEPT ![p] = rows]
  BY <1>1, <1>3 DEF Scope
<1>5. RowsOf(rows, p) /\ DOMAIN rows = Of(p) /\ \A a \in DOMAIN rows : rows[a] = asset[a]
  BY <1>1, <1>2, <1>3, ReadRows
<1>6. Versioned(rows, p)
  BY <1>2, <1>5 DEF Versioned, RowsOf, Came, SettledInv, Of
<1>7. VersionsInv'
  <2>1. \A q \in Project : version'[q] = IF q = p THEN rows ELSE version[q]
    BY <1>2, <1>4 DEF VersionsInv
  <2>2. version' = [q \in Project |-> version'[q]]
    BY <1>2, <1>4 DEF VersionsInv
  <2>3. \A f, q : Versioned(f, q) => Versioned(f, q)'
    BY <1>1 DEF Versioned
  <2>4. ASSUME NEW q \in Project, version'[q] # Missing
        PROVE  \E f : f = version'[q] /\ Versioned(f, q)'
    BY <1>2, <1>6, <2>1, <2>3, <2>4 DEF VersionsInv
  <2> QED
    BY <2>2, <2>4 DEF VersionsInv
<1> QED
  BY <1>1, <1>7, RowsStay DEF BindingsInv

\* A copy of an asset has its binding, in the same project or in a new one that has
\* the binding of the one it was read in.
LEMMA CopyKeeps ==
  ASSUME BindingsInv, NEW r \in Request, CommitCopy(r)
  PROVE  BindingsInv'
<1> DEFINE call == request[r]
           rows == call.saw.rows
           into == call.into
           from == call.from
           was == call.saw.project
<1>1. /\ call.op = "copy"
      /\ IF into = from THEN into \in Projects ELSE project[into] = Missing
      /\ \E place \in Places(rows) :
           /\ asset' = [b \in Asset |-> IF b \in Range(place)
                                        THEN [RowAt(rows, place, b) EXCEPT !.home = into] ELSE asset[b]]
           /\ restored' = restored \cup {place[a] : a \in restored \cap DOMAIN rows}
      /\ project' = IF into = from THEN project ELSE [project EXCEPT ![into] = was]
      /\ disturbed' = IF from \in disturbed THEN disturbed \cup {into} ELSE disturbed \ {into}
      /\ overlapped' = overlapped /\ End(r) /\ version' = version
  BY DEF CommitCopy, Taken, Unwritten
<1>2. /\ r \in InFlight /\ RowsInv /\ VersionsInv /\ FollowInv /\ SettledInv /\ ReadInv(call)
      /\ r \in alone => Current(call)
      /\ r \notin alone => overlapped /\ Touched(call) \subseteq disturbed
      /\ \A p \in Touched(call) : project[p] # Missing
  <2>1. request[r].op # "idle"
    BY <1>1
  <2> QED
    BY <2>1, InHand
<1> HIDE DEF call, rows, into, from, was
<1>3. into \in Project /\ from \in Project /\ was \in ProjectRow /\ RowsOf(rows, from)
  BY <1>1, <1>2 DEF ReadInv, into, from, was, rows
<1>4. /\ r \in alone => was = project[from] /\ \A a \in DOMAIN rows : rows[a] = asset[a]
      /\ r \notin alone => overlapped /\ from \in disturbed
      /\ project[from] # Missing
  BY <1>1, <1>2 DEF Current, Touched, was, rows, from
<1>5. \A a \in DOMAIN rows : /\ a \in Asset /\ rows[a] \in AssetRow /\ rows[a].home = from
                             /\ a \in Assets => asset[a].home = from
  BY <1>3 DEF RowsOf, Came
<1>6. PICK place \in Places(rows) :
        /\ asset' = [b \in Asset |-> IF b \in Range(place)
                                     THEN [RowAt(rows, place, b) EXCEPT !.home = into] ELSE asset[b]]
        /\ restored' = restored \cup {place[a] : a \in restored \cap DOMAIN rows}
  BY <1>1
<1>7. \A b \in Range(place) :
        /\ b \in Asset /\ asset[b] = Missing
        /\ \E a \in DOMAIN rows : place[a] = b /\ RowAt(rows, place, b) = rows[a]
  BY Placed
<1>8. \A b \in Range(place) : b \in Asset /\ asset[b] = Missing
  BY <1>7
<1>9. ASSUME NEW b \in Range(place)
      PROVE  \E a \in DOMAIN rows : /\ asset'[b] = [rows[a] EXCEPT !.home = into]
                                    /\ asset'[b] \in AssetRow /\ asset'[b].home = into
                                    /\ SameBinding(asset'[b], rows[a])
                                    /\ a \in restored => b \in restored'
  <2>1. PICK src \in DOMAIN rows : place[src] = b /\ RowAt(rows, place, b) = rows[src]
    BY <1>7
  <2>2. asset'[b] = [rows[src] EXCEPT !.home = into] /\ (src \in restored => b \in restored')
    BY <1>6, <1>8, <2>1
  <2>3. rows[src] \in AssetRow
    BY <1>5, <2>1
  <2>4. asset'[b] \in AssetRow /\ asset'[b].home = into /\ SameBinding(asset'[b], rows[src])
    BY <1>3, <2>2, <2>3 DEF AssetRow, SameBinding
  <2> QED
    BY <2>1, <2>2, <2>4
<1>10. \A b \in Asset : b \notin Range(place) => asset'[b] = asset[b]
  BY <1>6
<1>11. project \in [Project -> ProjectRow \cup {Missing, Gone}] /\ asset \in [Asset -> AssetRow \cup {Missing, Gone}]
       /\ disturbed \subseteq Project /\ \A c \in Assets : asset[c].home \in Projects
  BY <1>2 DEF RowsInv
<1>12. /\ project' \in [Project -> ProjectRow \cup {Missing, Gone}]
       /\ \A p \in Project : project'[p] = IF p = into /\ into # from THEN was ELSE project[p]
  BY <1>1, <1>3, <1>11
<1>13. asset' \in [Asset -> AssetRow \cup {Missing, Gone}]
  <2>1. \A b \in Asset : asset'[b] \in AssetRow \cup {Missing, Gone}
    BY <1>9, <1>10, <1>11
  <2> QED
    BY <1>6, <2>1
<1>14. into # from => into \notin Projects /\ project[into] = Missing
  BY <1>1, <1>2, LiveRows, RowIsNoMark
<1>15. into \in Projects' /\ \A p \in Projects : p \in Projects' /\ project'[p] = project[p]
  <2>1. \A p : p \in Projects' <=> p \in Project /\ project'[p] \in ProjectRow
    BY <1>12, <1>13, LiveRowsNext
  <2>2. \A p : p \in Projects <=> p \in Project /\ project[p] \in ProjectRow
    BY <1>2, LiveRows
  <2> QED
    BY <1>1, <1>3, <1>12, <1>14, <2>1, <2>2
<1>16. \A b \in Assets' : b \in Range(place) \/ (b \in Assets /\ asset'[b] = asset[b])
  <2>1. \A b \in Assets' : b \in Asset /\ asset'[b] \in AssetRow
    BY <1>12, <1>13, LiveRowsNext
  <2> QED
    BY <1>2, <1>10, <2>1, LiveRows
<1>17. Onward(r)
  <2>1. \A p \in Project : project[p] # Missing => project'[p] # Missing
    BY <1>3, <1>12, RowIsNoMark
  <2>2. \A b \in Asset : asset[b] # Missing => asset'[b] = asset[b]
    BY <1>8, <1>10
  <2>3. \A b \in Asset : asset[b] # Missing /\ b \in Assets' => b \in Assets
    BY <1>8, <1>16
  <2>4. \A p \in disturbed : p \in disturbed' \/ r \in alone \/ project[p] = Missing
    BY <1>1, <1>4, <1>14
  <2> QED
    BY <1>1, <1>2, <1>12, <1>13, <2>1, <2>2, <2>3, <2>4 DEF Onward, VersionsInv
<1>18. (\A c \in Assets : asset[c].home \in Projects)' /\ disturbed' \subseteq Project
  <2>1. \A c \in Assets' : asset'[c].home \in Projects'
    BY <1>9, <1>11, <1>15, <1>16
  <2> QED
    BY <1>1, <1>3, <1>11, <2>1
<1>19. project'[into] = IF into = from THEN project[from] ELSE was
  BY <1>3, <1>12
<1>20. FollowInv'
  <2>1. ASSUME NEW b \in Assets', asset'[b].home \notin disturbed', b \notin restored'
        PROVE  Follows(asset'[b], project'[asset'[b].home])
    <3>1. CASE b \in Range(place)
      <4>1. PICK a \in DOMAIN rows :
              asset'[b].home = into /\ SameBinding(asset'[b], rows[a]) /\ (a \in restored => b \in restored')
        BY <1>9, <3>1
      <4>2. from \notin disturbed
        BY <1>1, <2>1, <4>1
      <4>3. was = project[from] /\ rows[a] = asset[a]
        BY <1>4, <4>1, <4>2
      <4>4. a \in Assets /\ asset[a].home = from
        BY <1>2, <1>5, <4>1, <4>3, LiveRows
      <4>5. Follows(asset[a], project[from])
        BY <1>2, <2>1, <4>1, <4>2, <4>4 DEF FollowInv
      <4>6. project'[into] = project[from]
        BY <1>19, <4>3
      <4> QED
        BY <4>1, <4>3, <4>5, <4>6 DEF Follows, SameBinding, Inherits
    <3>2. CASE b \notin Range(place)
      <4>1. b \in Assets /\ asset'[b] = asset[b] /\ asset[b].home \in Projects
        BY <1>11, <1>16, <3>2
      <4>2. b \notin restored
        BY <1>6, <2>1
      <4>3. asset[b].home \notin disturbed
        BY <1>1, <1>14, <2>1, <4>1
      <4> QED
        BY <1>2, <1>15, <4>1, <4>2, <4>3 DEF FollowInv
    <3> QED
      BY <3>1, <3>2
  <2> QED
    BY <2>1 DEF FollowInv
<1>21. SettledInv'
  <2>1. CASE overlapped
    BY <1>1, <2>1 DEF SettledInv
  <2>2. CASE ~overlapped
    <3>1. (\A a \in DOMAIN rows : rows[a] = asset[a]) 
          /\ \A a \in Assets : Paired(asset[a]) /\ (a \notin restored => Settled(asset[a]))
      BY <1>2, <1>4, <2>2 DEF SettledInv
    <3>2. ASSUME NEW b \in Assets'
          PROVE  Paired(asset'[b]) /\ (b \notin restored' => Settled(asset'[b]))
      <4>1. CASE b \in Range(place)
        <5>1. PICK a \in DOMAIN rows : SameBinding(asset'[b], rows[a]) /\ (a \in restored => b \in restored')
          BY <1>9, <4>1
        <5>2. Paired(rows[a]) /\ (a \notin restored => Settled(rows[a]))
          BY <1>2, <1>5, <3>1, <5>1, LiveRows
        <5> QED
          BY <5>1, <5>2 DEF Settled, Paired, SameBinding, Inherits
      <4>2. CASE b \notin Range(place)
        BY <1>6, <1>16, <3>1, <4>2
      <4> QED
        BY <4>1, <4>2
    <3> QED
      BY <3>2 DEF SettledInv
  <2> QED
    BY <2>1, <2>2
<1> QED
  BY <1>1, <1>2, <1>17, <1>18, <1>20, <1>21, RequestCommits

\* A start loses the requests; the projects it binds are disturbed.
LEMMA StartKeeps ==
  ASSUME BindingsInv, Start
  PROVE  BindingsInv'
<1> DEFINE bound == {p \in Projects : project[p].name = Missing /\ Lifted(p) # {}}
<1>1. /\ \E lift \in {f \in [bound -> UNION {UNION {NameLookup(n) : n \in Lifted(p)} : p \in bound}] :
                         \A p \in bound : f[p].name \in Lifted(p)} :
           project' = [p \in Project |-> IF p \in bound THEN lift[p] ELSE project[p]]
      /\ request' = [r \in Request |-> Idle] /\ disturbed' = disturbed \cup bound
      /\ asset' = asset /\ overlapped' = overlapped /\ version' = version /\ restored' = restored
  BY DEF Start
<1>2. bound \subseteq Projects
  OBVIOUS
<1>3. RowsInv /\ VersionsInv /\ FollowInv /\ SettledInv
  BY DEF BindingsInv
<1>4. \A p \in bound : \A n \in Lifted(p) : n \in Names
  <2>1. \A a \in Assets : asset[a].override \in Names
    BY <1>3, LiveRows, Columns
  <2>2. \A p : \A n \in Lifted(p) : \E a \in Assets : n = asset[a].override
    BY DEF Lifted, Overridden, Of
  <2> QED
    BY <2>1, <2>2
<1>5. \A n \in Names : \A b \in NameLookup(n) : b \in ProjectRow
  BY LookupRow
<1> HIDE DEF bound
<1>6. PICK lift : /\ \A p \in bound : lift[p] \in ProjectRow
                  /\ project' = [p \in Project |-> IF p \in bound THEN lift[p] ELSE project[p]]
  <2>1. PICK lift \in [bound -> UNION {UNION {NameLookup(n) : n \in Lifted(p)} : p \in bound}] :
          project' = [p \in Project |-> IF p \in bound THEN lift[p] ELSE project[p]]
    BY <1>1
  <2>2. \A p \in bound : \E q \in bound : \E n \in Lifted(q) : lift[p] \in NameLookup(n)
    BY <2>1
  <2>3. \A p \in bound : lift[p] \in ProjectRow
    BY <1>4, <1>5, <2>2
  <2> QED
    BY <2>1, <2>3
<1>7. project \in [Project -> ProjectRow \cup {Missing, Gone}] /\ asset \in [Asset -> AssetRow \cup {Missing, Gone}]
      /\ disturbed \subseteq Project /\ \A c \in Assets : asset[c].home \in Projects
  BY <1>3 DEF RowsInv
<1>8. /\ project' \in [Project -> ProjectRow \cup {Missing, Gone}]
      /\ \A p \in Project : p \notin bound => project'[p] = project[p]
      /\ \A p \in bound : p \in Project => project'[p] \in ProjectRow
  BY <1>6, <1>7
<1>9. Assets' = Assets
  BY <1>1 DEF Assets, Live
<1>10. Projects \subseteq Projects' /\ Projects \subseteq Project
  <2>1. \A p : p \in Projects' <=> p \in Project /\ project'[p] \in ProjectRow
    BY <1>1, <1>7, <1>8, LiveRowsNext
  <2>2. \A p : p \in Projects <=> p \in Project /\ project[p] \in ProjectRow
    BY <1>3, LiveRows
  <2> QED
    BY <1>8, <2>1, <2>2
<1>11. disturbed' \subseteq Project
  BY <1>1, <1>2, <1>7, <1>10
<1>12. RowsInv'
  <2>1. asset' \in [Asset -> AssetRow \cup {Missing, Gone}]
    BY <1>1, <1>7
  <2>2. \A a \in Assets' : asset'[a].home \in Projects'
    BY <1>1, <1>7, <1>9, <1>10
  <2> QED
    BY <1>8, <1>11, <2>1, <2>2 DEF RowsInv
<1>13. FollowInv'
  <2>1. ASSUME NEW a \in Assets, asset[a].home \notin disturbed', a \notin restored'
        PROVE  Follows(asset[a], project'[asset[a].home])
    <3>1. asset[a].home \notin disturbed /\ asset[a].home \notin bound /\ a \notin restored
      BY <1>1, <2>1
    <3>2. project'[asset[a].home] = project[asset[a].home]
      BY <1>7, <1>8, <1>10, <3>1
    <3> QED
      BY <1>3, <3>1, <3>2 DEF FollowInv
  <2> QED
    BY <1>1, <1>9, <2>1 DEF FollowInv
<1>14. SettledInv'
  BY <1>1, <1>3, <1>9 DEF SettledInv
<1>15. RequestsInv'
  <2>1. InFlight' = {}
    BY <1>1 DEF InFlight
  <2>2. request' = [r \in Request |-> request'[r]]
    BY <1>1
  <2> QED
    BY <2>1, <2>2 DEF RequestsInv
<1>16. VersionsInv'
  BY <1>1, <1>3 DEF VersionsInv, Versioned
<1> QED
  BY <1>12, <1>13, <1>14, <1>15, <1>16 DEF BindingsInv

-----------------------------------------------------------------------------
(***************************************************************************)
(* The theorems                                                            *)
(***************************************************************************)

LEMMA InitBindings == Init => BindingsInv
<1> SUFFICES ASSUME Init PROVE BindingsInv
  OBVIOUS
<1>1. Projects = {} /\ Assets = {} /\ InFlight = {}
  BY DEF Init, Projects, Assets, Live, InFlight
<1>2. RowsInv
  BY <1>1 DEF Init, RowsInv
<1>3. RequestsInv
  BY <1>1 DEF Init, RequestsInv
<1>4. VersionsInv
  BY DEF Init, VersionsInv
<1> QED
  BY <1>1, <1>2, <1>3, <1>4 DEF BindingsInv, FollowInv, SettledInv

LEMMA NextBindings == BindingsInv /\ [Next]_vars => BindingsInv'
<1> SUFFICES ASSUME BindingsInv, [Next]_vars PROVE BindingsInv'
  OBVIOUS
<1>1. CASE Start
  BY <1>1, StartKeeps
<1>2. ASSUME NEW r \in Request, BeginSome(r)
      PROVE  BindingsInv'
  BY <1>2, ScopeBegins, RollbackBegins, RowBegins, EditBegins DEF BeginSome
<1>3. ASSUME NEW r \in Request, CommitSome(r)
      PROVE  BindingsInv'
  BY <1>3, CreateKeeps, RebindKeeps, DropKeeps, CopyKeeps, RollbackKeeps, AddKeeps, EditKeeps, RemoveKeeps, FailKeeps
     DEF CommitSome
<1>4. ASSUME NEW p \in Project, Capture(p)
      PROVE  BindingsInv'
  BY <1>4, CaptureKeeps
<1>5. CASE UNCHANGED vars
  <2>1. /\ project' = project /\ asset' = asset /\ request' = request /\ alone' = alone
        /\ overlapped' = overlapped /\ disturbed' = disturbed /\ restored' = restored /\ version' = version
    BY <1>5 DEF vars
  <2>2. VersionsInv'
    BY <2>1 DEF BindingsInv, VersionsInv, Versioned
  <2> QED
    BY <2>1, <2>2, RowsStay DEF BindingsInv
<1> QED
  BY <1>1, <1>2, <1>3, <1>4, <1>5 DEF Next

\* Asset by asset, the binding that the monitors read is the one that is meant,
\* whatever requests, versions and starts come before (project_service.py:123, the
\* cascade; project_version_service.py:352, the rollback).
THEOREM PolledAsMeant == Spec => []PolledWhereMeant
<1>1. BindingsInv => PolledWhereMeant
  BY RowByRow DEF BindingsInv
<1> QED
  BY <1>1, InitBindings, NextBindings, PTL DEF Spec

\* One request at a time, a cached id is of the project it is cached with, and a named
\* asset that shows no error has one unless a rollback made it (cml_binding_resolver.py:69,
\* audit_service.py:191).
THEOREM PairsAreWhole == Spec => []CacheIsWhole
<1>1. BindingsInv => CacheIsWhole
  BY RowByRow DEF BindingsInv
<1> QED
  BY <1>1, InitBindings, NextBindings, PTL DEF Spec
===============================================================================
