---------------------------- MODULE DirectoryProofs ----------------------------
(***************************************************************************)
(* Theorems about Directory, for any users, requests and number of calls:  *)
(* no session outlives the password it was obtained with; while requests   *)
(* do not overlap the project keeps one owner's row and some administrator;*)
(* and a start of the server, which may fail to repair, repairs as a whole.*)
(***************************************************************************)
EXTENDS Directory, FiniteSetTheorems, WellFoundedInduction, TLAPS

\* A session that is accepted only while its password is the current one: its
\* version may lag behind the account's, and then it never catches up.
Fine(accounts, t) ==
  /\ t.user \in User /\ accounts[t.user] # Missing
  /\ t.version \in Nat /\ t.version <= accounts[t.user].version
  /\ t.version = accounts[t.user].version => t.password = accounts[t.user].password

\* What a request in flight carries over from its reads.
Sensible(accounts, c) ==
  /\ c.kind = "login" => Fine(accounts, c.session)
  /\ c.kind \in {"logout", "password", "global"} => c.user \in User /\ accounts[c.user] # Missing
  /\ c.kind \in {"local", "add", "transfer"} => c.user \in User
  /\ c.kind \in {"local", "global"} => c.role \in GlobalRole

\* The inductive invariant.
SessionInv ==
  /\ account \in [User -> Account \cup {Missing}]
  /\ DOMAIN request = Request
  /\ \A t \in token : Fine(account, t)
  /\ \A r \in Request : request[r] # Missing => Sensible(account, request[r])

\* What every step does to the accounts: none disappears, and a password changes
\* only together with a new version.
Grows ==
  \A u \in User : HasAccount(u) =>
    /\ account'[u] # Missing
    /\ \/ account'[u].version = account[u].version /\ account'[u].password = account[u].password
       \/ account'[u].version = account[u].version + 1

-----------------------------------------------------------------------------
LEMMA AccountFields ==
  ASSUME SessionInv, NEW u \in User, HasAccount(u)
  PROVE  /\ account[u] \in Account /\ account[u].version \in Nat
         /\ account[u].password \in Nat /\ account[u].role \in GlobalRole
BY DEF SessionInv, HasAccount, Account

\* A session that is fine stays so, in the tokens and in requests under way.
LEMMA FineStays ==
  ASSUME SessionInv, Grows, NEW t, Fine(account, t)
  PROVE  Fine(account', t)
<1>1. t.user \in User /\ HasAccount(t.user) /\ account[t.user].version \in Nat
  BY AccountFields DEF Fine, HasAccount
<1> QED BY <1>1 DEF Fine, Grows, HasAccount

LEMMA SensibleStays ==
  ASSUME SessionInv, Grows, NEW c, Sensible(account, c)
  PROVE  Sensible(account', c)
<1>1. c.kind = "login" => Fine(account', c.session)
  BY FineStays DEF Sensible
<1>2. \A u \in User : account[u] # Missing => account'[u] # Missing
  BY DEF Grows, HasAccount
<1> QED BY <1>1, <1>2 DEF Sensible

\* The read step of a request changes nothing it carries over.
LEMMA BeginKeeps ==
  ASSUME SessionInv, NEW r \in Request, NEW c, Begin(r, c), Sensible(account, c)
  PROVE  SessionInv'
<1>1. Grows
  BY DEF Begin, Grows, HasAccount
<1>2. \A t \in token' : Fine(account', t)
  BY <1>1, FineStays DEF Begin, SessionInv
<1>3. DOMAIN request' = Request /\ \A q \in Request : request'[q] = IF q = r THEN c ELSE request[q]
  BY DEF Begin, SessionInv
<1>4. \A q \in Request : request'[q] # Missing => Sensible(account', request'[q])
  <2> SUFFICES ASSUME NEW q \in Request, request'[q] # Missing PROVE Sensible(account', request'[q])
    OBVIOUS
  <2>1. CASE q = r
    BY <1>1, <1>3, <2>1, SensibleStays
  <2>2. CASE q # r
    BY <1>1, <1>3, <2>2, SensibleStays DEF SessionInv
  <2> QED BY <2>1, <2>2
<1> QED BY <1>2, <1>3, <1>4 DEF SessionInv, Begin

\* The end of a request: accounts may have grown, and a fine session been issued.
LEMMA DoneKeeps ==
  ASSUME SessionInv, NEW r \in Request, Done(r), Grows,
         account' \in [User -> Account \cup {Missing}],
         \A t \in token' : t \in token \/ Fine(account, t)
  PROVE  SessionInv'
<1>1. \A t \in token' : Fine(account', t)
  BY FineStays DEF SessionInv
<1>2. DOMAIN request' = Request
      /\ \A q \in Request : request'[q] = IF q = r THEN Missing ELSE request[q]
  BY DEF Done, SessionInv
<1>3. \A q \in Request : request'[q] # Missing => Sensible(account', request'[q])
  BY <1>2, SensibleStays DEF SessionInv
<1> QED BY <1>1, <1>2, <1>3 DEF SessionInv

\* ... in particular if it leaves accounts and sessions alone.
LEMMA QuietDone ==
  ASSUME SessionInv, NEW r \in Request, Done(r), account' = account, token' = token
  PROVE  SessionInv'
<1>1. Grows
  BY DEF Grows, HasAccount
<1> QED BY <1>1, DoneKeeps DEF SessionInv

\* One account is replaced by a version of itself that ends its sessions or
\* keeps its password.
LEMMA OneAccount ==
  ASSUME SessionInv, NEW r \in Request, Done(r), token' = token,
         NEW u \in User, NEW a \in Account, account' = [account EXCEPT ![u] = a],
         HasAccount(u) => \/ a.version = account[u].version /\ a.password = account[u].password
                          \/ a.version = account[u].version + 1
  PROVE  SessionInv'
<1>1. a # Missing
  BY DirectoryAssumption
<1>2. account' \in [User -> Account \cup {Missing}]
  BY DEF SessionInv
<1>3. Grows
  BY <1>1 DEF Grows, SessionInv, HasAccount
<1> QED BY <1>2, <1>3, DoneKeeps

\* Pre-provisioning an account touches no other account.
LEMMA ProvisioningKeeps ==
  ASSUME SessionInv, NEW r \in Request, Done(r), token' = token,
         NEW c, c.user \in User, Provisionable(c), account' = Provisioned(c)
  PROVE  SessionInv'
<1>1. Stub \in Account
  BY DEF Stub, Account, GlobalRole
<1>2. CASE c.stub
  BY <1>1, <1>2, OneAccount DEF Provisioned, Provisionable
<1>3. CASE ~ c.stub
  BY <1>3, QuietDone DEF Provisioned
<1> QED BY <1>2, <1>3

-----------------------------------------------------------------------------
LEMMA LocalIsAccount == \A role \in GlobalRole : LocalAccount(role) \in Account
BY DEF LocalAccount, Account

LEMMA InitSessions == Init => SessionInv
<1> SUFFICES ASSUME Init PROVE SessionInv
  OBVIOUS
<1>1. PICK others \in [User -> {Missing, LocalAccount("regular_user")}] :
        account = [others EXCEPT ![Administrator] = LocalAccount("admin")]
  BY DEF Init
<1>2. LocalAccount("regular_user") \in Account /\ LocalAccount("admin") \in Account
  BY LocalIsAccount DEF GlobalRole
<1>3. account \in [User -> Account \cup {Missing}]
  BY <1>1, <1>2
<1>4. \A u \in User : HasAccount(u) => account[u].version = 0 /\ account[u].password = 1
  BY <1>1 DEF HasAccount, LocalAccount
<1>5. \A t \in token : Fine(account, t)
  BY <1>4 DEF Init, Fine, HasAccount
<1> QED BY <1>3, <1>5 DEF Init, SessionInv

LEMMA BeginSessions ==
  ASSUME SessionInv, NEW r \in Request,
         \/ BeginLogin(r) \/ BeginLogout(r) \/ BeginPassword(r) \/ BeginLocalUser(r)
         \/ BeginGlobalRole(r) \/ BeginAdd(r) \/ BeginRemove(r) \/ BeginRole(r) \/ BeginTransfer(r)
  PROVE  SessionInv'
<1>1. CASE BeginLogin(r)
  <2>1. PICK u \in User : CanSignIn(u) /\ Begin(r, [kind |-> "login", session |-> Session(u)])
    BY <1>1 DEF BeginLogin
  <2>2. Fine(account, Session(u))
    BY <2>1, AccountFields DEF Fine, Session, CanSignIn, HasAccount
  <2> QED BY <2>1, <2>2, BeginKeeps DEF Sensible
<1>2. CASE BeginLogout(r)
  <2>1. PICK u \in User : SignedIn(u) /\ Begin(r, [kind |-> "logout", user |-> u])
    BY <1>2 DEF BeginLogout
  <2>2. HasAccount(u)
    BY <2>1 DEF SignedIn, Accepted, CanSignIn
  <2> QED BY <2>1, <2>2, BeginKeeps DEF Sensible, HasAccount
<1>3. CASE BeginPassword(r)
  BY <1>3, BeginKeeps DEF BeginPassword, Sensible, HasAccount
<1>4. CASE BeginLocalUser(r)
  BY <1>4, BeginKeeps DEF BeginLocalUser, Sensible
<1>5. CASE BeginGlobalRole(r)
  BY <1>5, BeginKeeps DEF BeginGlobalRole, Sensible, HasAccount
<1>6. CASE BeginAdd(r)
  BY <1>6, BeginKeeps DEF BeginAdd, Sensible
<1>7. CASE BeginRemove(r)
  BY <1>7, BeginKeeps DEF BeginRemove, Sensible
<1>8. CASE BeginRole(r)
  BY <1>8, BeginKeeps DEF BeginRole, Sensible
<1>9. CASE BeginTransfer(r)
  BY <1>9, BeginKeeps DEF BeginTransfer, Transfer, Sensible
<1> QED BY <1>1, <1>2, <1>3, <1>4, <1>5, <1>6, <1>7, <1>8, <1>9

LEMMA CommitSessions ==
  ASSUME SessionInv, NEW r \in Request,
         \/ CommitLogin(r) \/ CommitLogout(r) \/ CommitPassword(r) \/ CommitLocalUser(r)
         \/ CommitGlobalRole(r) \/ CommitAdd(r) \/ CommitRemove(r) \/ CommitRole(r)
         \/ CommitTransfer(r) \/ Abort(r)
  PROVE  SessionInv'
<1> DEFINE c == request[r]
           a == account[c.user]
<1>0. c # Missing => Sensible(account, c)
  BY DEF SessionInv
<1>1. CASE CommitLogin(r)
  <2>1. Grows /\ Fine(account, c.session)
    BY <1>0, <1>1 DEF CommitLogin, Grows, HasAccount, Sensible
  <2> QED BY <1>1, <2>1, DoneKeeps DEF CommitLogin, SessionInv
<1>2. CASE CommitLogout(r)
  <2>1. c.user \in User /\ HasAccount(c.user)
    BY <1>0, <1>2 DEF CommitLogout, Sensible, HasAccount
  <2>2. [a EXCEPT !.version = @ + 1] \in Account
    BY <2>1, AccountFields DEF Account
  <2>3. [a EXCEPT !.version = @ + 1].version = a.version + 1
    BY <2>1, AccountFields DEF Account
  <2>4. account' = [account EXCEPT ![c.user] = [a EXCEPT !.version = @ + 1]]
    BY <1>2 DEF CommitLogout
  <2> QED BY <1>2, <2>1, <2>2, <2>3, <2>4, OneAccount DEF CommitLogout
<1>3. CASE CommitPassword(r)
  <2>1. c.user \in User /\ HasAccount(c.user)
    BY <1>0, <1>3 DEF CommitPassword, Sensible, HasAccount
  <2>2. Renewed(a) \in Account
    <3>1. \A p, v \in Nat : [a EXCEPT !.password = p, !.version = v] \in Account
      BY <2>1, AccountFields DEF Account
    <3>2. a.password + 1 \in Nat /\ a.version + 1 \in Nat
      BY <2>1, AccountFields
    <3> QED BY <3>1, <3>2 DEF Renewed
  <2>3. Renewed(a).version = a.version + 1
    BY <2>1, AccountFields DEF Account, Renewed
  <2>4. account' = [account EXCEPT ![c.user] = Renewed(a)]
    BY <1>3 DEF CommitPassword
  <2> QED BY <1>3, <2>1, <2>2, <2>3, <2>4, OneAccount DEF CommitPassword
<1>4. CASE CommitLocalUser(r)
  <2>1. c.user \in User /\ LocalAccount(c.role) \in Account /\ ~ HasAccount(c.user)
    BY <1>0, <1>4, LocalIsAccount DEF CommitLocalUser, Sensible
  <2> QED BY <1>4, <2>1, OneAccount DEF CommitLocalUser
<1>5. CASE CommitGlobalRole(r)
  <2>1. c.user \in User /\ HasAccount(c.user) /\ c.role \in GlobalRole
    BY <1>0, <1>5 DEF CommitGlobalRole, Sensible, HasAccount
  <2>2. [a EXCEPT !.role = c.role] \in Account
    BY <2>1, AccountFields DEF Account
  <2>3. /\ [a EXCEPT !.role = c.role].version = a.version
        /\ [a EXCEPT !.role = c.role].password = a.password
    BY <2>1, AccountFields DEF Account
  <2>4. account' = [account EXCEPT ![c.user] = [a EXCEPT !.role = c.role]]
    BY <1>5 DEF CommitGlobalRole
  <2> QED BY <1>5, <2>1, <2>2, <2>3, <2>4, OneAccount DEF CommitGlobalRole
<1>6. CASE CommitAdd(r)
  BY <1>0, <1>6, ProvisioningKeeps DEF CommitAdd, Sensible
<1>7. CASE CommitTransfer(r)
  BY <1>0, <1>7, ProvisioningKeeps DEF CommitTransfer, Sensible
<1>8. CASE CommitRemove(r) \/ CommitRole(r) \/ Abort(r)
  BY <1>8, QuietDone DEF CommitRemove, CommitRole, Abort
<1> QED BY <1>1, <1>2, <1>3, <1>4, <1>5, <1>6, <1>7, <1>8

LEMMA StepSessions == SessionInv /\ [Next]_vars => SessionInv'
<1> SUFFICES ASSUME SessionInv, [Next]_vars PROVE SessionInv'
  OBVIOUS
<1>1. CASE Restart
  BY <1>1 DEF Restart, SessionInv, Fine, HasAccount
<1>2. CASE UNCHANGED vars
  BY <1>2 DEF vars, SessionInv, Fine, Sensible, HasAccount
<1> QED BY <1>1, <1>2, BeginSessions, CommitSessions DEF Next

-----------------------------------------------------------------------------
\* A session obtained with a password that was since changed or reset is not
\* accepted, whatever sign-ins, sign-outs, changes of role and restarts were
\* under way (token_version of auth.py and users.py).
THEOREM SessionsAreCurrent == Spec => []SessionsCurrent
<1>1. SessionInv => SessionsCurrent
  BY DEF SessionInv, SessionsCurrent, Fine, Accepted
<1> QED BY InitSessions, StepSessions, <1>1, PTL DEF Spec

-----------------------------------------------------------------------------
(***************************************************************************)
(* The members of the project.                                             *)
(***************************************************************************)
ProjectRole == {"business_owner"} \cup Assignable
Members == [Row -> MemberRow \cup {Missing}]

\* The rows are those of a project: the owner has one that says so, no other
\* row does, and nobody has two.
Sound(rows, boss) ==
  /\ \E i \in Row : rows[i] = [user |-> boss, role |-> "business_owner"]
  /\ \A i \in Row : rows[i] # Missing /\ rows[i].role = "business_owner" => rows[i].user = boss
  /\ \A i, j \in Row : rows[i] # Missing /\ rows[j] # Missing /\ rows[i].user = rows[j].user => i = j

Typed(c) ==
  /\ c.kind = "add" => c.role \in Assignable
  /\ c.kind \in {"role", "transfer"} => c.writes \in SUBSET (Row \X ProjectRole)

\* What a request read when it had the tables to itself, and what holds still.
Holds(c) ==
  /\ c.kind = "global" => c.role = "admin" \/ \E v \in Admins : v # c.user
  /\ c.kind = "add" => RowsOf(c.user) = {}
  /\ c.kind = "remove" => c.row \in Rows /\ NotTheOwners(c.row)
  /\ c.kind = "role" => \E i \in Rows, role \in Assignable : NotTheOwners(i) /\ c.writes = {<<i, role>>}
  /\ c.kind = "transfer" => /\ c.user # owner
                            /\ \E old \in FirstOf(owner), new \in FirstOf(c.user) :
                                 c = Transfer(c.user, old, new)

TypeInv ==
  /\ member \in Members
  /\ owner \in User
  /\ calls \in 0..MaxCalls
  /\ \A r \in InFlight : Typed(request[r])

\* There is a row left for every request in flight, and for a start.
RoomInv ==
  /\ IsFiniteSet(InFlight)
  /\ \A i \in {0} \cup Rows : i + Cardinality(InFlight) <= calls + 1

AloneInv ==
  ~overlapped => /\ Admins # {}
                 /\ Sound(member, owner)
                 /\ \A r, q \in InFlight : r = q
                 /\ \A r \in InFlight : Holds(request[r])

MembersInv == SessionInv /\ TypeInv /\ RoomInv /\ AloneInv

-----------------------------------------------------------------------------
\* A set of numbers below a bound has a largest one.
LEMMA Largest ==
  ASSUME NEW n \in Nat, NEW S \in SUBSET (0..n), S # {}
  PROVE  \E x \in S : \A y \in S : x >= y
<1> DEFINE T == {n - x : x \in S}
<1>0. \A x \in S : x \in Nat /\ x <= n
  OBVIOUS
<1>1. T \subseteq Nat /\ T # {}
  <2>1. \A x \in S : n - x \in Nat
    BY <1>0
  <2> QED BY <2>1
<1>2. \E x \in T : \A y \in T : ~ (<<y, x>> \in OpToRel(<, Nat))
  BY <1>1, NatLessThanWellFounded, WFMin
<1>3. PICK x \in T : \A y \in T : ~ (y < x)
  BY <1>1, <1>2 DEF OpToRel
<1>4. PICK z \in S : x = n - z
  OBVIOUS
<1>5. \A y \in S : z >= y
  <2> SUFFICES ASSUME NEW y \in S PROVE z >= y
    OBVIOUS
  <2>1. ~ (n - y < n - z)
    BY <1>3, <1>4
  <2> QED BY <1>0, <2>1
<1> QED BY <1>5

\* A new row has the next id, which no row has.
LEMMA NextIdIsFree ==
  ASSUME TypeInv
  PROVE  /\ NextId \in Nat /\ NextId > 0 /\ NextId \notin Rows
         /\ NextId - 1 \in {0} \cup Rows
<1> DEFINE S == {0} \cup Rows
<1>1. MaxCalls + 1 \in Nat /\ S \in SUBSET (0..(MaxCalls + 1)) /\ S # {}
  BY DirectoryAssumption DEF Rows, Row
<1>2. \E x \in S : \A y \in S : x >= y
  BY <1>1, Largest
<1>3. Max(S) \in S /\ \A y \in S : Max(S) >= y
  BY <1>2 DEF Max
<1>4. \A y \in S : y \in Nat
  BY <1>1
<1>5. NextId = Max(S) + 1
  BY DEF NextId
<1> HIDE DEF S
<1>6. NextId \in Nat /\ NextId > 0 /\ NextId \notin S /\ NextId - 1 \in S
  BY <1>3, <1>4, <1>5
<1> QED BY <1>6 DEF S

LEMMA RowFacts ==
  ASSUME TypeInv, NEW i \in Rows
  PROVE  /\ i \in Row /\ member[i] # Missing /\ member[i] \in MemberRow
         /\ member[i].user \in User /\ member[i].role \in ProjectRole
BY DEF TypeInv, Members, Rows, MemberRow, ProjectRole

LEMMA RowsAreRows ==
  ASSUME TypeInv, NEW u
  PROVE  /\ \A i \in Row : member[i] # Missing => i \in Rows
         /\ \A i \in RowsOf(u) : i \in Rows /\ i \in Row /\ member[i].user = u /\ i # Missing
BY DirectoryAssumption DEF Rows, RowsOf

LEMMA Rerole ==
  ASSUME NEW row \in MemberRow, NEW role \in ProjectRole
  PROVE  /\ [row EXCEPT !.role = role] = [user |-> row.user, role |-> role]
         /\ [row EXCEPT !.role = role] \in MemberRow
BY DEF MemberRow, ProjectRole

LEMMA NewMember ==
  ASSUME NEW u \in User, NEW role \in ProjectRole
  PROVE  [user |-> u, role |-> role] \in MemberRow /\ [user |-> u, role |-> role] # Missing
BY DirectoryAssumption DEF MemberRow, ProjectRole

\* What an update of some rows leaves in each row.
LEMMA WrittenRows ==
  ASSUME TypeInv, NEW writes \in SUBSET (Row \X ProjectRole), Writable(writes)
  PROVE  /\ Written(writes) \in Members
         /\ \A i \in Row : Written(writes)[i] # Missing => i \in Rows
         /\ \A i \in Row : (\A w \in writes : w[1] # i) => Written(writes)[i] = member[i]
<1> SUFFICES ASSUME NEW i \in Row
             PROVE  /\ Written(writes)[i] \in MemberRow \cup {Missing}
                    /\ Written(writes)[i] # Missing => i \in Rows
                    /\ (\A w \in writes : w[1] # i) => Written(writes)[i] = member[i]
  BY DEF Written, Members
<1>1. CASE \E w \in writes : w[1] = i
  <2> DEFINE w == CHOOSE w \in writes : w[1] = i
  <2>1. w \in writes /\ w[1] = i
    BY <1>1
  <2>2. i \in Rows /\ w[2] \in ProjectRole
    BY <2>1 DEF Writable
  <2>3. Written(writes)[i] = [member[i] EXCEPT !.role = w[2]]
    BY <1>1 DEF Written
  <2> HIDE DEF w
  <2>4. Written(writes)[i] \in MemberRow
    <3>1. member[i] \in MemberRow
      BY <2>2, RowFacts
    <3>2. [member[i] EXCEPT !.role = w[2]] \in MemberRow
      BY <2>2, <3>1, Rerole
    <3> QED BY <2>3, <3>2
  <2> QED BY <1>1, <2>2, <2>4
<1>2. CASE ~ \E w \in writes : w[1] = i
  BY <1>2, RowsAreRows DEF Written, TypeInv, Members
<1> QED BY <1>1, <1>2

\* ... and in a row that is updated, when it is updated once.
LEMMA WrittenRow ==
  ASSUME TypeInv, NEW writes \in SUBSET (Row \X ProjectRole), Writable(writes),
         \A w, v \in writes : w[1] = v[1] => w = v,
         NEW i, NEW role, <<i, role>> \in writes
  PROVE  i \in Rows /\ Written(writes)[i] = [user |-> member[i].user, role |-> role]
<1> DEFINE w == CHOOSE w \in writes : w[1] = i
<1>1. w \in writes /\ w[1] = i
  <2>1. \E v \in writes : v[1] = i
    <3>1. <<i, role>>[1] = i
      OBVIOUS
    <3> QED BY <3>1
  <2> QED BY <2>1
<1>2. w = <<i, role>>
  BY <1>1
<1>3. i \in Rows /\ i \in Row /\ role \in ProjectRole
  BY RowFacts DEF Writable
<1>4. Written(writes)[i] = [member[i] EXCEPT !.role = w[2]]
  BY <1>1, <1>3 DEF Written
<1> HIDE DEF w
<1> QED BY <1>2, <1>3, <1>4, Rerole, RowFacts

\* A row is added.
LEMMA AddedRow ==
  ASSUME TypeInv, NEW rows \in Members, NEW u \in User, NEW role \in ProjectRole,
         \A i \in Row : rows[i] # Missing => i \in Rows,
         NEW more, more = [rows EXCEPT ![NextId] = [user |-> u, role |-> role]]
  PROVE  more \in Members /\ \A i \in Row : more[i] # Missing => i \in Rows \cup {NextId}
BY NewMember DEF Members

-----------------------------------------------------------------------------
(* The steps of a request.                                                  *)

LEMMA BeginFlights ==
  ASSUME SessionInv, NEW r \in Request, NEW c, Begin(r, c)
  PROVE  /\ request[r] = Missing /\ DOMAIN request' = Request
         /\ \A q \in Request : request'[q] = IF q = r THEN c ELSE request[q]
         /\ InFlight' \subseteq InFlight \cup {r}
         /\ Rows' = Rows
BY DEF SessionInv, Begin, InFlight, Rows

LEMMA DoneFlights ==
  ASSUME SessionInv, NEW r \in InFlight, Done(r)
  PROVE  /\ \A q \in Request : request'[q] = IF q = r THEN Missing ELSE request[q]
         /\ InFlight' = InFlight \ {r}
BY DEF SessionInv, Done, InFlight

\* A request that begins counts as one call, and finds what it read unchanged
\* for as long as it is alone.
LEMMA BeginMembers ==
  ASSUME MembersInv, NEW r \in Request, NEW c, Begin(r, c), Typed(c), ~ overlapped => Holds(c)
  PROVE  (TypeInv /\ RoomInv /\ AloneInv)'
<1>1. TypeInv'
  <2>1. \A q \in InFlight' : Typed(request'[q])
    BY BeginFlights DEF MembersInv, TypeInv, InFlight
  <2>2. calls' \in 0..MaxCalls
    BY DirectoryAssumption DEF MembersInv, TypeInv, Begin
  <2> QED BY <2>1, <2>2 DEF MembersInv, TypeInv, Begin, Typed
<1>2. RoomInv'
  <2>1. IsFiniteSet(InFlight \cup {r}) /\ Cardinality(InFlight \cup {r}) <= Cardinality(InFlight) + 1
    <3>1. IsFiniteSet(InFlight) /\ Cardinality(InFlight) \in Nat
      BY FS_CardinalityType DEF MembersInv, RoomInv
    <3>2. /\ IsFiniteSet(InFlight \cup {r})
          /\ Cardinality(InFlight \cup {r}) = IF r \in InFlight THEN Cardinality(InFlight) ELSE Cardinality(InFlight) + 1
      BY <3>1, FS_AddElement
    <3> QED BY <3>1, <3>2
  <2>2. IsFiniteSet(InFlight') /\ Cardinality(InFlight') <= Cardinality(InFlight \cup {r})
    BY <2>1, BeginFlights, FS_Subset DEF MembersInv
  <2>3. /\ Cardinality(InFlight) \in Nat /\ Cardinality(InFlight') \in Nat
        /\ Cardinality(InFlight \cup {r}) \in Nat
    BY <2>1, <2>2, FS_CardinalityType DEF MembersInv, RoomInv
  <2>4. calls' = calls + 1 /\ Rows' = Rows /\ calls \in Nat
    <3>1. calls' = calls + 1 /\ Rows' = Rows
      BY DEF Begin, Rows
    <3>2. calls \in Nat
      BY DirectoryAssumption DEF MembersInv, TypeInv
    <3> QED BY <3>1, <3>2
  <2>5. \A i \in {0} \cup Rows : i \in Nat
    BY DEF Rows, Row
  <2> QED BY <2>1, <2>2, <2>3, <2>4, <2>5 DEF MembersInv, RoomInv
<1>3. AloneInv'
  <2> SUFFICES ASSUME ~ overlapped' PROVE AloneInv'
    BY DEF AloneInv
  <2>1. ~ overlapped /\ InFlight = {}
    BY DEF Begin
  <2>2. \A q \in InFlight' : q = r /\ request'[q] = c
    BY <2>1, BeginFlights DEF MembersInv, InFlight
  <2>3. Holds(c)'
    BY <2>1 DEF Begin, Holds, Admins, HasAccount, RowsOf, Rows, NotTheOwners, FirstOf, Transfer, RoleWrite
  <2>4. Admins' # {} /\ Sound(member', owner')
    BY <2>1 DEF Begin, MembersInv, AloneInv, Admins, HasAccount
  <2> QED BY <2>2, <2>3, <2>4 DEF AloneInv
<1> QED BY <1>1, <1>2, <1>3

\* The end of a request that adds at most the next row.
LEMMA DoneMembers ==
  ASSUME MembersInv, NEW r \in InFlight, Done(r),
         member' \in Members, owner' \in User,
         \A i \in Row : member'[i] # Missing => i \in Rows \cup {NextId},
         ~ overlapped => Admins' # {} /\ Sound(member', owner')
  PROVE  (TypeInv /\ RoomInv /\ AloneInv)'
<1>0. SessionInv /\ TypeInv /\ RoomInv /\ AloneInv
  BY DEF MembersInv
<1>1. TypeInv'
  <2>1. \A q \in InFlight' : Typed(request'[q])
    BY <1>0, DoneFlights DEF TypeInv, InFlight
  <2> QED BY <1>0, <2>1 DEF TypeInv, Done, Typed
<1>2. RoomInv'
  <2>1. IsFiniteSet(InFlight') /\ Cardinality(InFlight') = Cardinality(InFlight) - 1
    BY <1>0, DoneFlights, FS_RemoveElement DEF RoomInv
  <2>2. Cardinality(InFlight) \in Nat /\ calls \in Nat /\ calls' = calls
    BY <1>0, FS_CardinalityType, DirectoryAssumption DEF RoomInv, TypeInv, Done
  <2>3. \A i \in {0} \cup Rows' : i \in {0} \cup Rows \cup {NextId}
    BY DEF Rows
  <2>4. \A i \in {0} \cup Rows : i \in Nat /\ i + Cardinality(InFlight) <= calls + 1
    BY <1>0 DEF RoomInv, Rows, Row
  <2>5. NextId \in Nat /\ NextId - 1 + Cardinality(InFlight) <= calls + 1
    BY <1>0, <2>4, NextIdIsFree
  <2> QED BY <2>1, <2>2, <2>3, <2>4, <2>5 DEF RoomInv
<1>3. AloneInv'
  <2> SUFFICES ASSUME ~ overlapped' PROVE AloneInv'
    BY DEF AloneInv
  <2>1. ~ overlapped
    BY DEF Done
  <2>2. InFlight' = {}
    BY <1>0, <2>1, DoneFlights DEF AloneInv
  <2> QED BY <2>1, <2>2 DEF AloneInv
<1> QED BY <1>1, <1>2, <1>3

\* While requests are in flight the next row fits.
LEMMA NextIdFits ==
  ASSUME MembersInv, NEW r \in InFlight
  PROVE  NextId \in Row /\ NextId \notin Rows
<1>1. TypeInv /\ RoomInv
  BY DEF MembersInv
<1>2. Cardinality(InFlight) \in Nat /\ Cardinality(InFlight) # 0
  BY <1>1, FS_CardinalityType, FS_EmptySet DEF RoomInv
<1>3. NextId - 1 + Cardinality(InFlight) <= calls + 1
  BY <1>1, NextIdIsFree DEF RoomInv
<1>4. calls \in Nat /\ MaxCalls \in Nat /\ calls <= MaxCalls
  BY <1>1, DirectoryAssumption DEF TypeInv
<1> QED BY <1>1, <1>2, <1>3, <1>4, NextIdIsFree DEF Row

\* A request that leaves the members alone, and every administrator one.
LEMMA QuietMembers ==
  ASSUME MembersInv, NEW r \in InFlight, Done(r), UNCHANGED <<owner, member>>,
         ~ overlapped => Admins' # {}
  PROVE  (TypeInv /\ RoomInv /\ AloneInv)'
<1>1. member' \in Members /\ owner' \in User /\ \A i \in Row : member'[i] # Missing => i \in Rows \cup {NextId}
  BY DEF MembersInv, TypeInv, Rows
<1>2. ~ overlapped => Sound(member', owner')
  BY DEF MembersInv, AloneInv
<1> QED BY <1>1, <1>2, DoneMembers

\* Only a change of role ends an administrator.
LEMMA AdminsStay ==
  ASSUME SessionInv, ~ overlapped => Admins # {},
         \A u \in User : HasAccount(u) => account'[u] # Missing /\ account'[u].role = account[u].role
  PROVE  ~ overlapped => Admins' # {}
BY DEF Admins, HasAccount

LEMMA OneAccountRole ==
  ASSUME SessionInv, ~ overlapped => Admins # {},
         NEW u \in User, NEW a \in Account, account' = [account EXCEPT ![u] = a],
         HasAccount(u) => a.role = account[u].role
  PROVE  ~ overlapped => Admins' # {}
<1>1. a # Missing
  BY DirectoryAssumption
<1>2. \A v \in User : HasAccount(v) => account'[v] # Missing /\ account'[v].role = account[v].role
  BY <1>1 DEF SessionInv, HasAccount
<1> QED BY <1>2, AdminsStay

LEMMA ProvisioningAdmins ==
  ASSUME SessionInv, ~ overlapped => Admins # {},
         NEW c, c.user \in User, Provisionable(c), account' = Provisioned(c)
  PROVE  ~ overlapped => Admins' # {}
<1>1. Stub \in Account
  BY DEF Stub, Account, GlobalRole
<1>2. CASE c.stub
  BY <1>1, <1>2, OneAccountRole DEF Provisioned, Provisionable
<1>3. CASE ~ c.stub
  BY <1>3, AdminsStay DEF Provisioned, HasAccount
<1> QED BY <1>2, <1>3

-----------------------------------------------------------------------------
LEMMA InitMembers == Init => MembersInv
<1> SUFFICES ASSUME Init PROVE MembersInv
  OBVIOUS
<1>1. SessionInv
  BY InitSessions
<1>2. owner \in User /\ InFlight = {} /\ calls = 0
  BY DEF Init, InFlight
<1> DEFINE first == [user |-> owner, role |-> "business_owner"]
<1>3. first \in MemberRow /\ first # Missing
  BY <1>2, NewMember DEF ProjectRole
<1>4. 1 \in Row /\ member = [i \in Row |-> IF i = 1 THEN first ELSE Missing]
  BY DirectoryAssumption DEF Init, Row
<1> HIDE DEF first
<1>5. member \in Members /\ Rows = {1} /\ member[1] = first
  BY <1>3, <1>4 DEF Members, Rows
<1>6. TypeInv
  BY <1>2, <1>5, DirectoryAssumption DEF TypeInv
<1>7. RoomInv
  BY <1>2, <1>5, FS_EmptySet DEF RoomInv
<1>8. AloneInv
  <2>1. Administrator \in Admins
    <3>1. PICK others \in [User -> {Missing, LocalAccount("regular_user")}] :
            account = [others EXCEPT ![Administrator] = LocalAccount("admin")]
      BY DEF Init
    <3>2. account[Administrator] = LocalAccount("admin")
      BY <3>1, DirectoryAssumption
    <3>3. LocalAccount("admin") # Missing /\ LocalAccount("admin").role = "admin"
      BY LocalIsAccount, DirectoryAssumption DEF GlobalRole, LocalAccount
    <3> QED BY <3>2, <3>3, DirectoryAssumption DEF Admins, HasAccount
  <2>2. Sound(member, owner)
    <3>1. \A i \in Row : member[i] # Missing => i = 1
      BY <1>5 DEF Rows
    <3>2. member[1] = [user |-> owner, role |-> "business_owner"] /\ member[1].user = owner
      BY <1>5 DEF first
    <3> QED BY <1>4, <3>1, <3>2 DEF Sound
  <2> QED BY <1>2, <2>1, <2>2 DEF AloneInv
<1> QED BY <1>1, <1>6, <1>7, <1>8 DEF MembersInv

\* The guard of a demotion: another administrator is left.
LEMMA AnotherAdmin ==
  ASSUME NEW u \in Admins, MayDemote(u)
  PROVE  \E v \in Admins : v # u
<1> SUFFICES ASSUME \A v \in Admins : v = u PROVE FALSE
  OBVIOUS
<1>1. Admins = {u}
  OBVIOUS
<1>2. Cardinality(Admins) = 1
  BY <1>1, FS_Singleton
<1> QED BY <1>2 DEF MayDemote

\* What a transfer writes are roles of rows.
LEMMA TransferTyped ==
  ASSUME TypeInv, NEW u \in User, NEW old \in FirstOf(owner), NEW new \in FirstOf(u)
  PROVE  Typed(Transfer(u, old, new))
<1>1. (old = Missing \/ old \in Row) /\ (new = Missing \/ new \in Row)
  BY RowsAreRows DEF FirstOf
<1>2. \A i \in Row, role \in ProjectRole : RoleWrite(i, role) \in SUBSET (Row \X ProjectRole)
  BY DEF RoleWrite
<1>3. RoleWrite(Missing, "relayops_member") = {}
  BY DEF RoleWrite
<1>4. RoleWrite(old, "relayops_member") \in SUBSET (Row \X ProjectRole)
  BY <1>1, <1>2, <1>3 DEF ProjectRole, Assignable
<1>5. (IF new = Missing THEN {} ELSE RoleWrite(new, "business_owner")) \in SUBSET (Row \X ProjectRole)
  BY <1>1, <1>2 DEF ProjectRole
<1> QED BY <1>4, <1>5 DEF Typed, Transfer

LEMMA BeginStep ==
  ASSUME MembersInv, NEW r \in Request,
         \/ BeginLogin(r) \/ BeginLogout(r) \/ BeginPassword(r) \/ BeginLocalUser(r)
         \/ BeginGlobalRole(r) \/ BeginAdd(r) \/ BeginRemove(r) \/ BeginRole(r) \/ BeginTransfer(r)
  PROVE  (TypeInv /\ RoomInv /\ AloneInv)'
<1>0. TypeInv
  BY DEF MembersInv
<1>1. CASE BeginLogin(r)
  BY <1>1, BeginMembers DEF BeginLogin, Typed, Holds
<1>2. CASE BeginLogout(r)
  BY <1>2, BeginMembers DEF BeginLogout, Typed, Holds
<1>3. CASE BeginPassword(r)
  BY <1>3, BeginMembers DEF BeginPassword, Typed, Holds
<1>4. CASE BeginLocalUser(r)
  BY <1>4, BeginMembers DEF BeginLocalUser, Typed, Holds
<1>5. CASE BeginGlobalRole(r)
  <2>1. PICK by, u \in User, role \in GlobalRole :
          /\ SignedIn(by) /\ account[by].role = "admin" /\ HasAccount(u)
          /\ account[u].role # role
          /\ account[u].role = "admin" => MayDemote(u)
          /\ Begin(r, [kind |-> "global", user |-> u, role |-> role])
    BY <1>5 DEF BeginGlobalRole
  <2>2. by \in Admins
    BY <2>1 DEF SignedIn, Accepted, CanSignIn, Admins
  <2>3. \E v \in Admins : v # u
    <3>1. CASE account[u].role = "admin"
      BY <2>1, <3>1, AnotherAdmin DEF Admins
    <3>2. CASE account[u].role # "admin"
      BY <2>1, <2>2, <3>2
    <3> QED BY <3>1, <3>2
  <2>4. Holds([kind |-> "global", user |-> u, role |-> role])
    BY <2>3 DEF Holds
  <2> QED BY <2>1, <2>4, BeginMembers DEF Typed
<1>6. CASE BeginAdd(r)
  BY <1>6, BeginMembers DEF BeginAdd, Typed, Holds
<1>7. CASE BeginRemove(r)
  <2>1. PICK u \in User : \E i \in RowsOf(u) : NotTheOwners(i) /\ Begin(r, [kind |-> "remove", row |-> i])
    BY <1>7 DEF BeginRemove
  <2>2. PICK i \in RowsOf(u) : NotTheOwners(i) /\ Begin(r, [kind |-> "remove", row |-> i])
    BY <2>1
  <2>3. Holds([kind |-> "remove", row |-> i])
    BY <2>2, <1>0, RowsAreRows DEF Holds
  <2> QED BY <2>2, <2>3, BeginMembers DEF Typed
<1>8. CASE BeginRole(r)
  <2>0. PICK u \in User, role \in Assignable : \E i \in RowsOf(u) :
          NotTheOwners(i) /\ Begin(r, [kind |-> "role", writes |-> {<<i, role>>}])
    BY <1>8 DEF BeginRole
  <2>1. PICK i \in RowsOf(u) : NotTheOwners(i) /\ Begin(r, [kind |-> "role", writes |-> {<<i, role>>}])
    BY <2>0
  <2>2. i \in Rows /\ i \in Row
    BY <1>0, RowsAreRows
  <2> DEFINE c == [kind |-> "role", writes |-> {<<i, role>>}]
  <2>3. c.kind = "role" /\ c.writes = {<<i, role>>}
    OBVIOUS
  <2>4. Begin(r, c)
    BY <2>1
  <2> HIDE DEF c
  <2>5. Holds(c)
    BY <2>1, <2>2, <2>3 DEF Holds
  <2>6. Typed(c)
    BY <2>2, <2>3 DEF Typed, ProjectRole
  <2> QED BY <2>4, <2>5, <2>6, BeginMembers
<1>9. CASE BeginTransfer(r)
  <2>1. PICK u \in User : owner # u /\
          \E old \in FirstOf(owner), new \in FirstOf(u) : Begin(r, Transfer(u, old, new))
    BY <1>9 DEF BeginTransfer
  <2>2. PICK old \in FirstOf(owner), new \in FirstOf(u) : Begin(r, Transfer(u, old, new))
    BY <2>1
  <2>3. Transfer(u, old, new).kind = "transfer" /\ Transfer(u, old, new).user = u
    BY DEF Transfer
  <2>4. Holds(Transfer(u, old, new))
    BY <2>1, <2>3 DEF Holds
  <2> QED BY <1>0, <2>2, <2>4, TransferTyped, BeginMembers
<1> QED BY <1>1, <1>2, <1>3, <1>4, <1>5, <1>6, <1>7, <1>8, <1>9

-----------------------------------------------------------------------------
(* What each write leaves of the members.                                   *)

\* Whoever has no row gets one that is not the owner's.
LEMMA AddKeeps ==
  ASSUME TypeInv, Sound(member, owner), NEW u \in User, NEW role \in Assignable, RowsOf(u) = {}
  PROVE  Sound(NewRow(u, role), owner)
<1> DEFINE row == [user |-> u, role |-> role]
           rows == NewRow(u, role)
<1>1. \A i \in Row : member[i] # Missing => i \in Rows /\ i # NextId /\ member[i].user # u
  BY NextIdIsFree, RowsAreRows DEF RowsOf
<1>2. \A i \in Row : rows[i] = IF i = NextId THEN row ELSE member[i]
  BY DEF NewRow, TypeInv, Members
<1>3. row.user = u /\ row.role # "business_owner"
  BY DEF Assignable
<1>4. PICK k \in Row : member[k] = [user |-> owner, role |-> "business_owner"]
  BY DEF Sound
<1>5. member[k] # Missing
  BY <1>4, NewMember DEF TypeInv, ProjectRole
<1> HIDE DEF row, rows
<1>6. rows[k] = [user |-> owner, role |-> "business_owner"]
  BY <1>1, <1>2, <1>4, <1>5
<1>7. \A i \in Row : rows[i] # Missing /\ rows[i].role = "business_owner" => rows[i].user = owner
  BY <1>2, <1>3 DEF Sound
<1>8. \A i, j \in Row : rows[i] # Missing /\ rows[j] # Missing /\ rows[i].user = rows[j].user => i = j
  BY <1>1, <1>2, <1>3 DEF Sound
<1>9. Sound(rows, owner)
  BY <1>6, <1>7, <1>8 DEF Sound
<1> QED BY <1>9 DEF rows

\* A row that is not the owner's may go.
LEMMA RemoveKeeps ==
  ASSUME TypeInv, Sound(member, owner), NEW k \in Rows, NotTheOwners(k)
  PROVE  Sound([member EXCEPT ![k] = Missing], owner)
<1> DEFINE rows == [member EXCEPT ![k] = Missing]
<1>1. \A i \in Row : rows[i] = IF i = k THEN Missing ELSE member[i]
  BY DEF TypeInv, Members
<1>2. PICK o \in Row : member[o] = [user |-> owner, role |-> "business_owner"]
  BY DEF Sound
<1>3. o # k
  BY <1>2 DEF NotTheOwners
<1> HIDE DEF rows
<1>4. Sound(rows, owner)
  BY <1>1, <1>2, <1>3 DEF Sound
<1> QED BY <1>4 DEF rows

\* ... or change its role.
LEMMA RoleKeeps ==
  ASSUME TypeInv, Sound(member, owner), NEW k \in Rows, NotTheOwners(k), NEW role \in Assignable
  PROVE  Sound(Written({<<k, role>>}), owner)
<1> DEFINE writes == {<<k, role>>}
           rows == Written(writes)
<1>1. writes \in SUBSET (Row \X ProjectRole) /\ Writable(writes)
  BY RowFacts DEF ProjectRole, Writable
<1>2. (\A w, v \in writes : w[1] = v[1] => w = v) /\ <<k, role>> \in writes /\ \A w \in writes : w[1] = k
  OBVIOUS
<1>3. rows[k] = [user |-> member[k].user, role |-> role]
  BY <1>1, <1>2, WrittenRow
<1>4. \A i \in Row : i # k => rows[i] = member[i]
  BY <1>1, <1>2, WrittenRows
<1>5. rows[k].user = member[k].user /\ rows[k].role # "business_owner" /\ k \in Row /\ member[k] # Missing
  BY <1>3, RowFacts DEF Assignable
<1>6. PICK o \in Row : member[o] = [user |-> owner, role |-> "business_owner"]
  BY DEF Sound
<1>7. o # k
  BY <1>6 DEF NotTheOwners
<1> HIDE DEF rows, writes
<1>8. \A i, j \in Row : rows[i] # Missing /\ rows[j] # Missing /\ rows[i].user = rows[j].user => i = j
  BY <1>4, <1>5 DEF Sound
<1>9. Sound(rows, owner)
  BY <1>4, <1>5, <1>6, <1>7, <1>8 DEF Sound
<1> QED BY <1>9 DEF rows, writes

\* What a transfer read is the owner's one row.
LEMMA OldIsOwners ==
  ASSUME TypeInv, Sound(member, owner), NEW old \in FirstOf(owner)
  PROVE  /\ old \in Rows /\ member[old] = [user |-> owner, role |-> "business_owner"]
         /\ RoleWrite(old, "relayops_member") = {<<old, "relayops_member">>}
         /\ \A i \in Rows : member[i].role = "business_owner" => i = old
<1>1. PICK o \in Row : member[o] = [user |-> owner, role |-> "business_owner"]
  BY DEF Sound
<1>2. member[o] # Missing
  BY <1>1, NewMember DEF TypeInv, ProjectRole
<1>3. o \in RowsOf(owner)
  BY <1>1, <1>2 DEF RowsOf, Rows
<1>4. old \in RowsOf(owner)
  BY <1>3 DEF FirstOf
<1>5. \A i \in Rows : member[i].user = owner => i = o
  BY <1>1, <1>2, RowFacts DEF Sound
<1>6. old = o /\ o \in Rows /\ o # Missing
  BY <1>3, <1>4, <1>5, RowsAreRows
<1>7. \A i \in Rows : member[i].role = "business_owner" => i = old
  BY <1>5, <1>6, RowFacts DEF Sound
<1>8. member[old] = [user |-> owner, role |-> "business_owner"]
  BY <1>1, <1>6
<1>9. RoleWrite(old, "relayops_member") = {<<old, "relayops_member">>}
  BY <1>6, <1>8 DEF RoleWrite
<1> QED BY <1>6, <1>7, <1>8, <1>9

\* The former owner's row is demoted, and the new owner's is promoted or added.
LEMMA TransferKeeps ==
  ASSUME TypeInv, Sound(member, owner), NextId \in Row, NEW u \in User, u # owner,
         NEW old \in FirstOf(owner), NEW new \in FirstOf(u), NEW c, c = Transfer(u, old, new)
  PROVE  Sound(IF c.row # Missing THEN Written(c.writes)
               ELSE [Written(c.writes) EXCEPT ![NextId] = [user |-> c.user, role |-> "business_owner"]], u)
<1>1. /\ old \in Rows /\ old \in Row /\ member[old] = [user |-> owner, role |-> "business_owner"]
      /\ \A i \in Rows : member[i].role = "business_owner" => i = old
  BY OldIsOwners, RowFacts
<1>2. c.user = u /\ c.row = new /\ c.writes = {<<old, "relayops_member">>} \cup
                     (IF new = Missing THEN {} ELSE RoleWrite(new, "business_owner"))
  BY OldIsOwners DEF Transfer
<1>3. \A i \in Row : member[i] # Missing => i \in Rows /\ i # NextId
  BY NextIdIsFree, RowsAreRows
<1> DEFINE gone == [user |-> owner, role |-> "relayops_member"]
           boss == [user |-> u, role |-> "business_owner"]
           rows == Written(c.writes)
<1>4. gone.user = owner /\ gone.role # "business_owner" /\ boss.user = u /\ boss.role = "business_owner"
  OBVIOUS
<1>5. CASE new = Missing
  <2>1. RowsOf(u) = {}
    BY <1>5, RowsAreRows DEF FirstOf
  <2>2. \A i \in Rows : member[i].user # u
    BY <2>1 DEF RowsOf
  <2>3. /\ c.writes = {<<old, "relayops_member">>} /\ c.writes \in SUBSET (Row \X ProjectRole)
        /\ \A w \in c.writes : w[1] = old
    BY <1>1, <1>2, <1>5 DEF ProjectRole, Assignable
  <2>4. Writable(c.writes) /\ (\A w, v \in c.writes : w[1] = v[1] => w = v) /\ <<old, "relayops_member">> \in c.writes
    BY <1>1, <2>3 DEF Writable
  <2>5. rows[old] = gone /\ rows \in Members
    BY <1>1, <2>3, <2>4, WrittenRow, WrittenRows
  <2>6. \A i \in Row : i # old => rows[i] = member[i]
    BY <2>3, <2>4, WrittenRows
  <2> DEFINE more == [rows EXCEPT ![NextId] = boss]
  <2> HIDE DEF rows, gone, boss
  <2>7. more[NextId] = boss /\ \A i \in Row : i # NextId => more[i] = rows[i]
    BY <2>5 DEF Members
  <2> HIDE DEF more
  <2>8. \A i \in Row : i # NextId /\ more[i] # Missing => more[i].user # u /\ more[i].role # "business_owner"
                                                          /\ i \in Rows /\ more[i].user = member[i].user
    BY <1>1, <1>3, <1>4, <2>2, <2>5, <2>6, <2>7
  <2>9. \A i, j \in Row : more[i] # Missing /\ more[j] # Missing /\ more[i].user = more[j].user => i = j
    BY <1>4, <2>7, <2>8, RowFacts DEF Sound
  <2>10. Sound(more, u)
    BY <1>4, <2>7, <2>8, <2>9 DEF Sound, boss
  <2> QED BY <1>2, <1>5, <2>10 DEF more, rows, boss
<1>6. CASE new # Missing
  <2>1. new \in RowsOf(u)
    BY <1>6 DEF FirstOf
  <2>2. new \in Rows /\ new \in Row /\ member[new].user = u /\ new # old /\ member[new].role # "business_owner"
    BY <1>1, <2>1, RowsAreRows
  <2>3. RoleWrite(new, "business_owner") = {<<new, "business_owner">>}
    BY <1>6, <2>2 DEF RoleWrite
  <2>4. c.writes = {<<old, "relayops_member">>, <<new, "business_owner">>}
    BY <1>2, <1>6, <2>3
  <2>5. /\ c.writes \in SUBSET (Row \X ProjectRole) /\ Writable(c.writes)
        /\ \A w \in c.writes : w[1] = old \/ w[1] = new
    BY <1>1, <2>2, <2>4 DEF ProjectRole, Assignable, Writable
  <2>6. /\ \A w, v \in c.writes : w[1] = v[1] => w = v
        /\ <<old, "relayops_member">> \in c.writes /\ <<new, "business_owner">> \in c.writes
    BY <2>2, <2>4
  <2>7. rows[old] = gone /\ rows[new] = boss
    BY <1>1, <2>2, <2>5, <2>6, WrittenRow
  <2>8. \A i \in Row : i # old /\ i # new => rows[i] = member[i]
    BY <2>5, WrittenRows
  <2> HIDE DEF rows, gone, boss
  <2>9. \A i \in Row : rows[i] # Missing =>
          i \in Rows /\ rows[i].user = member[i].user /\ (rows[i].role = "business_owner" => i = new)
    BY <1>1, <1>3, <1>4, <2>2, <2>7, <2>8
  <2>10. \A i, j \in Row : rows[i] # Missing /\ rows[j] # Missing /\ rows[i].user = rows[j].user => i = j
    BY <2>9, RowFacts DEF Sound
  <2>11. Sound(rows, u)
    BY <1>4, <2>2, <2>7, <2>9, <2>10 DEF Sound, boss
  <2> QED BY <1>2, <1>6, <2>11 DEF rows
<1> QED BY <1>5, <1>6

-----------------------------------------------------------------------------
LEMMA CommitStep ==
  ASSUME MembersInv, NEW r \in Request,
         \/ CommitLogin(r) \/ CommitLogout(r) \/ CommitPassword(r) \/ CommitLocalUser(r)
         \/ CommitGlobalRole(r) \/ CommitAdd(r) \/ CommitRemove(r) \/ CommitRole(r)
         \/ CommitTransfer(r) \/ Abort(r)
  PROVE  (TypeInv /\ RoomInv /\ AloneInv)'
<1> DEFINE c == request[r]
           a == account[c.user]
<1>0. /\ SessionInv /\ TypeInv /\ RoomInv /\ AloneInv
      /\ c # Missing /\ r \in InFlight /\ Done(r) /\ Sensible(account, c) /\ Typed(c)
  <2>1. c # Missing /\ Done(r)
    BY DEF CommitLogin, CommitLogout, CommitPassword, CommitLocalUser, CommitGlobalRole, CommitAdd,
           CommitRemove, CommitRole, CommitTransfer, Abort
  <2> QED BY <2>1 DEF MembersInv, SessionInv, TypeInv, InFlight
<1>01. ~ overlapped => Admins # {} /\ Sound(member, owner) /\ Holds(c)
  BY <1>0 DEF AloneInv
<1>02. NextId \in Row /\ NextId \notin Rows
  BY <1>0, NextIdFits
<1>1. CASE CommitLogin(r) \/ Abort(r)
  <2>1. ~ overlapped => Admins' # {}
    BY <1>01, <1>1 DEF CommitLogin, Abort, Admins, HasAccount
  <2> QED BY <1>0, <1>1, <2>1, QuietMembers DEF CommitLogin, Abort
<1>2. CASE CommitLogout(r)
  <2>1. c.user \in User /\ HasAccount(c.user)
    BY <1>0, <1>2 DEF CommitLogout, Sensible, HasAccount
  <2>2. [a EXCEPT !.version = @ + 1] \in Account /\ [a EXCEPT !.version = @ + 1].role = a.role
    BY <1>0, <2>1, AccountFields DEF Account
  <2>3. account' = [account EXCEPT ![c.user] = [a EXCEPT !.version = @ + 1]]
    BY <1>2 DEF CommitLogout
  <2>4. ~ overlapped => Admins' # {}
    BY <1>0, <1>01, <2>1, <2>2, <2>3, OneAccountRole
  <2> QED BY <1>0, <1>2, <2>4, QuietMembers DEF CommitLogout
<1>3. CASE CommitPassword(r)
  <2>1. c.user \in User /\ HasAccount(c.user)
    BY <1>0, <1>3 DEF CommitPassword, Sensible, HasAccount
  <2>2. Renewed(a) \in Account /\ Renewed(a).role = a.role
    <3>1. \A p, v \in Nat : [a EXCEPT !.password = p, !.version = v] \in Account
      BY <1>0, <2>1, AccountFields DEF Account
    <3>2. a.password + 1 \in Nat /\ a.version + 1 \in Nat
      BY <1>0, <2>1, AccountFields
    <3>3. Renewed(a).role = a.role
      BY <1>0, <2>1, AccountFields DEF Account, Renewed
    <3> QED BY <3>1, <3>2, <3>3 DEF Renewed
  <2>3. account' = [account EXCEPT ![c.user] = Renewed(a)]
    BY <1>3 DEF CommitPassword
  <2>4. ~ overlapped => Admins' # {}
    BY <1>0, <1>01, <2>1, <2>2, <2>3, OneAccountRole
  <2> QED BY <1>0, <1>3, <2>4, QuietMembers DEF CommitPassword
<1>4. CASE CommitLocalUser(r)
  <2>1. c.user \in User /\ LocalAccount(c.role) \in Account /\ ~ HasAccount(c.user)
    BY <1>0, <1>4, LocalIsAccount DEF CommitLocalUser, Sensible
  <2>2. account' = [account EXCEPT ![c.user] = LocalAccount(c.role)]
    BY <1>4 DEF CommitLocalUser
  <2>3. ~ overlapped => Admins' # {}
    BY <1>0, <1>01, <2>1, <2>2, OneAccountRole
  <2> QED BY <1>0, <1>4, <2>3, QuietMembers DEF CommitLocalUser
<1>5. CASE CommitGlobalRole(r)
  <2>1. c.kind = "global" /\ c.user \in User /\ HasAccount(c.user) /\ c.role \in GlobalRole
    BY <1>0, <1>5 DEF CommitGlobalRole, Sensible, HasAccount
  <2> DEFINE b == [a EXCEPT !.role = c.role]
  <2>2. b \in Account /\ b.role = c.role /\ b # Missing
    BY <1>0, <2>1, AccountFields, DirectoryAssumption DEF Account
  <2>3. account' = [account EXCEPT ![c.user] = b]
    BY <1>5 DEF CommitGlobalRole
  <2> HIDE DEF b
  <2>4. \A u \in User : account'[u] = IF u = c.user THEN b ELSE account[u]
    BY <1>0, <2>3 DEF SessionInv
  <2>5. ~ overlapped => Admins' # {}
    BY <1>01, <2>1, <2>2, <2>4 DEF Holds, Admins, HasAccount
  <2> QED BY <1>0, <1>5, <2>5, QuietMembers DEF CommitGlobalRole
<1>6. CASE CommitAdd(r)
  <2>1. c.kind = "add" /\ c.user \in User /\ c.role \in Assignable /\ c.role \in ProjectRole
    BY <1>0, <1>6 DEF CommitAdd, Sensible, Typed, ProjectRole
  <2>2. /\ Provisionable(c) /\ account' = Provisioned(c)
        /\ member' = NewRow(c.user, c.role) /\ owner' = owner
    BY <1>6 DEF CommitAdd
  <2>3. ~ overlapped => Admins' # {}
    BY <1>0, <1>01, <2>1, <2>2, ProvisioningAdmins
  <2>4. ~ overlapped => Sound(member', owner')
    BY <1>0, <1>01, <2>1, <2>2, AddKeeps DEF Holds
  <2>5. member' \in Members /\ \A i \in Row : member'[i] # Missing => i \in Rows \cup {NextId}
    <3>1. member \in Members /\ \A i \in Row : member[i] # Missing => i \in Rows
      BY <1>0, RowsAreRows DEF TypeInv
    <3>2. member' = [member EXCEPT ![NextId] = [user |-> c.user, role |-> c.role]]
      BY <2>2 DEF NewRow
    <3> QED BY <1>0, <2>1, <3>1, <3>2, AddedRow
  <2>6. owner' \in User
    BY <1>0, <2>2 DEF TypeInv
  <2> QED BY <1>0, <2>3, <2>4, <2>5, <2>6, DoneMembers
<1>7. CASE CommitRemove(r)
  <2>1. /\ c.kind = "remove" /\ member' = [member EXCEPT ![c.row] = Missing]
        /\ owner' = owner /\ account' = account
    BY <1>7 DEF CommitRemove
  <2>2. ~ overlapped => Sound(member', owner')
    BY <1>0, <1>01, <2>1, RemoveKeeps DEF Holds
  <2>3. member' \in Members /\ owner' \in User /\ \A i \in Row : member'[i] # Missing => i \in Rows \cup {NextId}
    BY <1>0, <2>1 DEF TypeInv, Members, Rows
  <2>4. ~ overlapped => Admins' # {}
    BY <1>01, <2>1 DEF Admins, HasAccount
  <2> QED BY <1>0, <2>2, <2>3, <2>4, DoneMembers
<1>8. CASE CommitRole(r)
  <2>1. /\ c.kind = "role" /\ Writable(c.writes) /\ member' = Written(c.writes)
        /\ owner' = owner /\ account' = account
    BY <1>8 DEF CommitRole
  <2>2. c.writes \in SUBSET (Row \X ProjectRole)
    BY <1>0, <2>1 DEF Typed
  <2>3. ~ overlapped => Sound(member', owner')
    BY <1>0, <1>01, <2>1, RoleKeeps DEF Holds
  <2>4. member' \in Members /\ owner' \in User /\ \A i \in Row : member'[i] # Missing => i \in Rows \cup {NextId}
    BY <1>0, <2>1, <2>2, WrittenRows DEF TypeInv
  <2>5. ~ overlapped => Admins' # {}
    BY <1>01, <2>1 DEF Admins, HasAccount
  <2> QED BY <1>0, <2>3, <2>4, <2>5, DoneMembers
<1>9. CASE CommitTransfer(r)
  <2> DEFINE rows == Written(c.writes)
             more == [rows EXCEPT ![NextId] = [user |-> c.user, role |-> "business_owner"]]
  <2>1. /\ c.kind = "transfer" /\ Provisionable(c) /\ Writable(c.writes) /\ account' = Provisioned(c)
        /\ member' = IF c.row # Missing THEN rows ELSE more
        /\ owner' = c.user
    BY <1>9 DEF CommitTransfer
  <2>2. c.user \in User /\ c.writes \in SUBSET (Row \X ProjectRole)
    BY <1>0, <2>1 DEF Sensible, Typed
  <2>3. ~ overlapped => Admins' # {}
    BY <1>0, <1>01, <2>1, <2>2, ProvisioningAdmins
  <2>4. ~ overlapped => Sound(member', owner')
    <3> SUFFICES ASSUME ~ overlapped PROVE Sound(member', owner')
      OBVIOUS
    <3>1. PICK old \in FirstOf(owner), new \in FirstOf(c.user) : c = Transfer(c.user, old, new)
      BY <1>01, <2>1 DEF Holds
    <3>2. c.user # owner
      BY <1>01, <2>1 DEF Holds
    <3> QED BY <1>0, <1>01, <1>02, <2>1, <2>2, <3>1, <3>2, TransferKeeps
  <2>5. rows \in Members /\ \A i \in Row : rows[i] # Missing => i \in Rows
    BY <1>0, <2>1, <2>2, WrittenRows
  <2> HIDE DEF rows
  <2>6. more \in Members /\ \A i \in Row : more[i] # Missing => i \in Rows \cup {NextId}
    <3>1. "business_owner" \in ProjectRole /\ more = [rows EXCEPT ![NextId] = [user |-> c.user, role |-> "business_owner"]]
      BY DEF ProjectRole
    <3> HIDE DEF more
    <3> QED BY <1>0, <2>2, <2>5, <3>1, AddedRow
  <2> HIDE DEF more
  <2>7. member' \in Members /\ owner' \in User /\ \A i \in Row : member'[i] # Missing => i \in Rows \cup {NextId}
    BY <2>1, <2>2, <2>5, <2>6
  <2> QED BY <1>0, <2>3, <2>4, <2>7, DoneMembers
<1> QED BY <1>1, <1>2, <1>3, <1>4, <1>5, <1>6, <1>7, <1>8, <1>9

-----------------------------------------------------------------------------
(* A start of the server.                                                   *)

\* The owner has a row that says so, and no other user does.
OwnersRow(rows, boss) ==
  /\ \E i \in Row : rows[i] # Missing /\ rows[i] = [user |-> boss, role |-> "business_owner"]
  /\ \A i \in Row : rows[i] # Missing /\ rows[i].role = "business_owner" => rows[i].user = boss

\* Whatever rows there are, the repair leaves the owner's, and adds at most one;
\* if nobody had two, nobody has.
LEMMA RepairRestores ==
  ASSUME TypeInv, NextId \in Row, NEW k \in FirstOf(owner)
  PROVE  /\ Repaired(k) \in Members
         /\ \A i \in Row : Repaired(k)[i] # Missing => i \in Rows \cup {NextId}
         /\ OwnersRow(Repaired(k), owner)
         /\ NobodyTwice => Sound(Repaired(k), owner)
<1> DEFINE boss == [user |-> owner, role |-> "business_owner"]
           other(i) == i \in Rows /\ member[i].role = "business_owner" /\ member[i].user # owner
           kept == [i \in Row |->
                      IF i = k THEN [member[i] EXCEPT !.role = "business_owner"]
                      ELSE IF i \in Rows /\ member[i].role = "business_owner" /\ member[i].user # owner
                      THEN [member[i] EXCEPT !.role = "relayops_member"] ELSE member[i]]
<1>0. /\ Repaired(k) = IF k # Missing THEN kept ELSE [kept EXCEPT ![NextId] = boss]
      /\ owner \in User /\ boss \in MemberRow /\ boss # Missing
  BY NewMember DEF Repaired, TypeInv, ProjectRole
<1>1. NextId \notin Rows /\ \A i \in Row : member[i] # Missing => i \in Rows
  BY NextIdIsFree, RowsAreRows
<1>2. \A i \in Rows : /\ [member[i] EXCEPT !.role = "business_owner"] = [user |-> member[i].user, role |-> "business_owner"]
                      /\ [member[i] EXCEPT !.role = "relayops_member"] = [user |-> member[i].user, role |-> "relayops_member"]
                      /\ [user |-> member[i].user, role |-> "relayops_member"] \in MemberRow
  <2> SUFFICES ASSUME NEW i \in Rows
               PROVE  /\ [member[i] EXCEPT !.role = "business_owner"] = [user |-> member[i].user, role |-> "business_owner"]
                      /\ [member[i] EXCEPT !.role = "relayops_member"] = [user |-> member[i].user, role |-> "relayops_member"]
                      /\ [user |-> member[i].user, role |-> "relayops_member"] \in MemberRow
    OBVIOUS
  <2>1. member[i] \in MemberRow /\ "business_owner" \in ProjectRole /\ "relayops_member" \in ProjectRole
    BY RowFacts DEF ProjectRole, Assignable
  <2> QED BY <2>1, Rerole
<1>3. \A i \in Row : i # k /\ other(i) => kept[i] = [user |-> member[i].user, role |-> "relayops_member"]
  BY <1>2
<1>4. \A i \in Row : i # k /\ ~ other(i) => kept[i] = member[i]
  OBVIOUS
<1>5. k # Missing => k \in Rows /\ k \in Row /\ kept[k] = boss
  <2> SUFFICES ASSUME k # Missing PROVE k \in Rows /\ k \in Row /\ kept[k] = boss
    OBVIOUS
  <2>1. k \in RowsOf(owner)
    BY DEF FirstOf
  <2>2. k \in Rows /\ k \in Row /\ member[k].user = owner
    BY <2>1, RowsAreRows
  <2> QED BY <1>2, <2>2
<1>6. k = Missing => k \notin Row /\ RowsOf(owner) = {}
  BY DirectoryAssumption, RowsAreRows DEF FirstOf
<1> DEFINE rows == Repaired(k)
           new == IF k # Missing THEN k ELSE NextId
<1>7. DOMAIN kept = Row
  OBVIOUS
<1> HIDE DEF kept, boss
<1>8. new \in Row /\ rows[new] = boss /\ DOMAIN rows = Row
  BY <1>0, <1>5, <1>7
<1>9. \A i \in Row : i # new => rows[i] = kept[i]
  BY <1>0, <1>5, <1>7
<1>10. \A i \in Row : i # new => (rows[i] = member[i] /\ ~ other(i))
                          \/ (other(i) /\ rows[i] = [user |-> member[i].user, role |-> "relayops_member"])
  BY <1>3, <1>4, <1>6, <1>9
<1>11. rows \in Members
  <2>1. \A i \in Row : rows[i] \in MemberRow \cup {Missing}
    <3> SUFFICES ASSUME NEW i \in Row PROVE rows[i] \in MemberRow \cup {Missing}
      OBVIOUS
    <3>1. CASE i = new
      BY <1>0, <1>8, <3>1
    <3>2. CASE i # new
      <4>1. member[i] \in MemberRow \cup {Missing}
        BY DEF TypeInv, Members
      <4>2. other(i) => [user |-> member[i].user, role |-> "relayops_member"] \in MemberRow
        BY <1>2
      <4> HIDE DEF other
      <4> QED BY <1>10, <3>2, <4>1, <4>2
    <3> QED BY <3>1, <3>2
  <2>2. rows = [i \in Row |-> rows[i]]
    BY <1>0, <1>7, <1>8 DEF Repaired
  <2> HIDE DEF rows
  <2> QED BY <2>1, <2>2 DEF Members
<1> HIDE DEF rows
<1>12. \A i \in Row : i # new /\ rows[i] # Missing => i \in Rows /\ rows[i].user = member[i].user
  <2> SUFFICES ASSUME NEW i \in Row, i # new, rows[i] # Missing
               PROVE  i \in Rows /\ rows[i].user = member[i].user
    OBVIOUS
  <2>1. CASE rows[i] = member[i]
    BY <1>1, <2>1
  <2>2. CASE other(i) /\ rows[i] = [user |-> member[i].user, role |-> "relayops_member"]
    BY <2>2
  <2> QED BY <1>10, <2>1, <2>2
<1>13. new \in Rows \cup {NextId} /\ boss.user = owner /\ boss.role = "business_owner"
  BY <1>5 DEF boss
<1>14. \A i \in Row : rows[i] # Missing /\ rows[i].role = "business_owner" => rows[i].user = owner
  BY <1>1, <1>8, <1>10, <1>13
<1>15. OwnersRow(rows, owner)
  BY <1>0, <1>8, <1>14 DEF OwnersRow, boss
<1>16. ASSUME NobodyTwice PROVE Sound(rows, owner)
  <2>1. ASSUME NEW i \in Row, NEW j \in Row, rows[i] # Missing, rows[j] # Missing,
               rows[i].user = rows[j].user, i # new, j # new
        PROVE  i = j
    BY <1>12, <1>16, <2>1 DEF NobodyTwice
  <2>2. ASSUME NEW i \in Row, i # new, rows[i] # Missing PROVE rows[i].user # owner
    <3>1. i \in Rows /\ rows[i].user = member[i].user
      BY <1>12, <2>2
    <3>2. CASE k = Missing
      BY <1>6, <3>1, <3>2 DEF RowsOf
    <3>3. CASE k # Missing
      <4>1. new = k /\ k \in Rows /\ member[k].user = owner
        BY <1>5, <3>3, RowsAreRows DEF FirstOf
      <4> QED BY <1>16, <2>2, <3>1, <4>1 DEF NobodyTwice
    <3> QED BY <3>2, <3>3
  <2>3. \A i, j \in Row : rows[i] # Missing /\ rows[j] # Missing /\ rows[i].user = rows[j].user => i = j
    BY <1>8, <1>13, <2>1, <2>2
  <2> QED BY <1>8, <1>14, <2>3 DEF Sound, boss
<1>17. \A i \in Row : rows[i] # Missing => i \in Rows \cup {NextId}
  BY <1>12, <1>13
<1> QED BY <1>11, <1>15, <1>16, <1>17 DEF rows

\* A start has a row to give.
LEMMA StartFits ==
  ASSUME MembersInv, Restart
  PROVE  NextId \in Row
<1>1. TypeInv /\ RoomInv /\ calls < MaxCalls
  BY DEF MembersInv, Restart
<1>2. Cardinality(InFlight) \in Nat
  BY <1>1, FS_CardinalityType DEF RoomInv
<1>3. NextId - 1 + Cardinality(InFlight) <= calls + 1
  BY <1>1, NextIdIsFree DEF RoomInv
<1>4. calls \in Nat /\ MaxCalls \in Nat
  BY <1>1, DirectoryAssumption DEF TypeInv
<1> QED BY <1>1, <1>2, <1>3, <1>4, NextIdIsFree DEF Row

LEMMA RestartStep ==
  ASSUME MembersInv, Restart
  PROVE  (TypeInv /\ RoomInv /\ AloneInv)'
<1>0. SessionInv /\ TypeInv /\ RoomInv /\ AloneInv /\ NextId \in Row
  BY StartFits DEF MembersInv
<1>1. InFlight' = {} /\ owner' = owner /\ account' = account /\ calls' = calls + 1
      /\ calls < MaxCalls
  BY DEF Restart, InFlight
<1>2. /\ member' \in Members /\ \A i \in Row : member'[i] # Missing => i \in Rows \cup {NextId}
      /\ ~overlapped' => Admins # {} /\ Sound(member', owner)
  <2>1. CASE UNCHANGED <<member, overlapped>>
    BY <1>0, <2>1, RowsAreRows DEF TypeInv, AloneInv
  <2>2. CASE /\ serving' /\ \E i \in FirstOf(owner) : member' = Repaired(i)
             /\ overlapped' = (overlapped /\ ~NobodyTwice)
    <3>1. PICK k \in FirstOf(owner) : member' = Repaired(k)
      BY <2>2
    <3>2. Admins # {}
      BY <2>2 DEF Restart
    <3>3. ~overlapped => NobodyTwice
      BY <1>0, RowFacts DEF AloneInv, Sound, NobodyTwice
    <3> QED BY <1>0, <2>2, <3>1, <3>2, <3>3, RepairRestores
  <2> QED BY <2>1, <2>2 DEF Restart
<1>3. calls \in Nat /\ MaxCalls \in Nat
  BY <1>0, DirectoryAssumption DEF TypeInv
<1>4. TypeInv'
  BY <1>0, <1>1, <1>2, <1>3 DEF TypeInv
<1>5. RoomInv'
  <2>1. Cardinality(InFlight) \in Nat
    BY <1>0, FS_CardinalityType DEF RoomInv
  <2>2. \A i \in {0} \cup Rows : i \in Nat /\ i <= calls + 1
    BY <1>0, <1>3, <2>1 DEF RoomInv, Rows, Row
  <2>3. NextId \in Nat /\ NextId <= calls + 2
    BY <1>0, <1>3, <2>2, NextIdIsFree
  <2>4. \A i \in {0} \cup Rows' : i \in {0} \cup Rows \cup {NextId}
    BY <1>2 DEF Rows
  <2>5. IsFiniteSet(InFlight') /\ Cardinality(InFlight') = 0
    BY <1>1, FS_EmptySet
  <2> QED BY <1>1, <1>3, <2>2, <2>3, <2>4, <2>5 DEF RoomInv
<1>6. AloneInv'
  BY <1>0, <1>1, <1>2 DEF AloneInv, Admins, HasAccount
<1> QED BY <1>4, <1>5, <1>6

LEMMA StepMembers == MembersInv /\ [Next]_vars => MembersInv'
<1> SUFFICES ASSUME MembersInv, [Next]_vars PROVE MembersInv'
  OBVIOUS
<1>1. SessionInv'
  BY StepSessions DEF MembersInv
<1>2. CASE UNCHANGED vars
  <2>1. InFlight' = InFlight /\ Rows' = Rows /\ Admins' = Admins
    BY <1>2 DEF vars, InFlight, Rows, Admins, HasAccount
  <2>2. TypeInv' /\ RoomInv'
    BY <1>2, <2>1 DEF vars, MembersInv, TypeInv, RoomInv, Typed
  <2>3. ASSUME NEW c, Holds(c) PROVE Holds(c)'
    BY <1>2, <2>3 DEF vars, Holds, Admins, HasAccount, Rows, RowsOf, NotTheOwners, FirstOf, Transfer, RoleWrite
  <2>4. AloneInv'
    <3>1. \A r \in InFlight : Holds(request[r]) => Holds(request[r])'
      BY <1>2, <2>3 DEF vars
    <3> QED BY <1>2, <2>1, <3>1 DEF vars, MembersInv, AloneInv
  <2> QED BY <1>1, <2>2, <2>4 DEF MembersInv
<1>3. CASE Restart
  BY <1>1, <1>3, RestartStep DEF MembersInv
<1>4. CASE Next /\ ~ Restart
  <2>1. PICK r \in Request :
          \/ BeginLogin(r) \/ BeginLogout(r) \/ BeginPassword(r) \/ BeginLocalUser(r) \/ BeginGlobalRole(r)
          \/ BeginAdd(r) \/ BeginRemove(r) \/ BeginRole(r) \/ BeginTransfer(r)
          \/ CommitLogin(r) \/ CommitLogout(r) \/ CommitPassword(r) \/ CommitLocalUser(r) \/ CommitGlobalRole(r)
          \/ CommitAdd(r) \/ CommitRemove(r) \/ CommitRole(r) \/ CommitTransfer(r)
          \/ Abort(r)
    BY <1>4 DEF Next
  <2>2. (TypeInv /\ RoomInv /\ AloneInv)'
    BY <2>1, BeginStep, CommitStep
  <2> QED BY <1>1, <2>2 DEF MembersInv
<1> QED BY <1>2, <1>3, <1>4

LEMMA MembersAlways == Spec => []MembersInv
BY InitMembers, StepMembers, PTL DEF Spec

-----------------------------------------------------------------------------
\* While no two requests overlap, some account is an administrator, the project
\* has exactly one owner's row, which is the owner's, and nobody has two rows:
\* the checks of members.py and users.py before they write are enough then.
THEOREM OneOwnerRow == Spec => []RolesKept
<1>1. MembersInv => RolesKept
  <2> SUFFICES ASSUME MembersInv, ~ overlapped
               PROVE  /\ Admins # {} /\ Cardinality(OwnerRows) = 1
                      /\ \A i \in OwnerRows : member[i].user = owner
                      /\ \A u \in User : Cardinality(RowsOf(u)) <= 1
    BY DEF RolesKept
  <2>1. TypeInv /\ Admins # {} /\ Sound(member, owner)
    BY DEF MembersInv, AloneInv
  <2>2. \A i \in Rows : i \in Row /\ member[i] # Missing
    BY <2>1, RowFacts
  <2>3. PICK o \in Row : member[o] = [user |-> owner, role |-> "business_owner"]
    BY <2>1 DEF Sound
  <2>4. o \in Rows /\ member[o].user = owner /\ member[o].role = "business_owner"
    BY <2>1, <2>3, NewMember DEF Rows, TypeInv, ProjectRole
  <2>5. \A i \in OwnerRows : member[i].user = owner /\ i = o
    BY <2>1, <2>2, <2>4 DEF OwnerRows, Sound
  <2>6. OwnerRows = {o}
    BY <2>4, <2>5 DEF OwnerRows
  <2>7. ASSUME NEW u \in User PROVE Cardinality(RowsOf(u)) <= 1
    <3>1. \A i, j \in RowsOf(u) : i = j
      BY <2>1, <2>2 DEF RowsOf, Sound
    <3>2. RowsOf(u) = {} \/ \E i : RowsOf(u) = {i}
      BY <3>1
    <3>3. Cardinality(RowsOf(u)) = 0 \/ Cardinality(RowsOf(u)) = 1
      BY <3>2, FS_EmptySet, FS_Singleton
    <3> QED BY <3>3
  <2>8. Cardinality(OwnerRows) = 1
    BY <2>6, FS_Singleton
  <2> QED BY <2>1, <2>5, <2>7, <2>8
<1> QED BY <1>1, MembersAlways, PTL

\* A start of the server leaves the rows as they are, or the owner has an owner's
\* row then and no other user does, however requests overlapped before
\* (ensure_project_owner_members of system_seed.py, which logs its failures).
THEOREM StartsRepair == Spec => StartRepairsOrKeeps
<1>1. MembersInv /\ Restart /\ member' # member => OwnersRow(member', owner')
  <2> SUFFICES ASSUME MembersInv, Restart, member' # member PROVE OwnersRow(member', owner')
    OBVIOUS
  <2>1. PICK k \in FirstOf(owner) : member' = Repaired(k)
    BY DEF Restart
  <2>2. TypeInv /\ NextId \in Row /\ owner' = owner
    BY StartFits DEF MembersInv, Restart
  <2> QED BY <2>1, <2>2, RepairRestores
<1>2. MembersInv /\ [Next]_vars =>
        [Restart => \/ member' = member
                    \/ /\ \E i \in Row : member'[i] # Missing /\ member'[i] = [user |-> owner', role |-> "business_owner"]
                       /\ \A i \in Row : (member'[i] # Missing /\ member'[i].role = "business_owner")
                                           => member'[i].user = owner']_vars
  BY <1>1 DEF OwnersRow
<1> QED BY <1>2, MembersAlways, PTL DEF Spec, StartRepairsOrKeeps
=============================================================================
