------------------------------ MODULE Directory ------------------------------
(***************************************************************************)
(* Accounts, sessions and the members of one project: sign-in, sign-out,   *)
(* password changes and resets, global roles, pre-provisioned accounts,    *)
(* adding and removing members, project roles, ownership transfer, and the *)
(* repair a start of the server runs.                                      *)
(*                                                                         *)
(* A request reads in Begin and writes in Commit (READ COMMITTED: what it  *)
(* read may be stale by then); up to Cardinality(Request) requests overlap.*)
(* Project reads and support groups are left out.                          *)
(***************************************************************************)
EXTENDS Integers, FiniteSets, FiniteSetsExt

CONSTANTS
  User,            \* user names
  Administrator,   \* the account the environment configures (RELAYOPS_ADMIN_USERNAME)
  PlatformOwners,  \* users whose admin role config.yaml pins
  Request,         \* requests that can be in flight at once
  MaxCalls,        \* bound: requests begun in a behaviour
  Missing          \* no account, no row, no request

GlobalRole == {"admin", "relayops_member", "regular_user"}
Account == [role : GlobalRole, password : Nat, version : Nat]

Assignable == {"relayops_member", "product_member"}
MemberRow == [user : User, role : {"business_owner"} \cup Assignable]
Row == 1..(MaxCalls + 1)

ASSUME DirectoryAssumption ==
  /\ Administrator \in User
  /\ PlatformOwners \subseteq User
  /\ MaxCalls \in Nat
  /\ Missing \notin User \cup Account \cup Row \cup MemberRow

VARIABLES
  account,     \* users: global role, password (0: none) and token version
  token,       \* sessions issued: user, token version, password it was obtained with
  owner,       \* Project.owner_id
  member,      \* project_members: rows by id
  request,     \* requests in flight: what they read and will write
  calls,       \* requests begun so far
  overlapped,  \* two requests were in flight at once, and no start has repaired it
  serving      \* the server is up

vars == <<account, token, owner, member, request, calls, overlapped, serving>>

HasAccount(u) == account[u] # Missing
CanSignIn(u) == HasAccount(u) /\ account[u].password # 0
Admins == {u \in User : HasAccount(u) /\ account[u].role = "admin"}

\* A pre-provisioned account: no password, so nobody can sign in with it yet.
Stub == [role |-> "regular_user", password |-> 0, version |-> 0]
LocalAccount(role) == [role |-> role, password |-> 1, version |-> 0]

\* A token is accepted while its user has a password and its version is current.
Accepted(t) == CanSignIn(t.user) /\ account[t.user].version = t.version
SignedIn(u) == \E t \in token : t.user = u /\ Accepted(t)
Session(u) == [user |-> u, version |-> account[u].version, password |-> account[u].password]

IsElevated(u) == account[u].role \in {"admin", "relayops_member"}
OwnerReach(u) == IsElevated(u) \/ owner = u

Rows == {i \in Row : member[i] # Missing}
RowsOf(u) == {i \in Rows : member[i].user = u}
\* .first(): some row of the user, or none.
FirstOf(u) == IF RowsOf(u) = {} THEN {Missing} ELSE RowsOf(u)

Init ==
  /\ \E others \in [User -> {Missing, LocalAccount("regular_user")}] :
        account = [others EXCEPT ![Administrator] = LocalAccount("admin")]
  /\ token = {[user |-> u, version |-> 0, password |-> 1] : u \in {v \in User : account[v] # Missing}}
  /\ owner \in {u \in User : account[u] # Missing}
  /\ member = [i \in Row |-> IF i = 1 THEN [user |-> owner, role |-> "business_owner"] ELSE Missing]
  /\ request = [r \in Request |-> Missing]
  /\ calls = 0
  /\ overlapped = FALSE
  /\ serving = TRUE

InFlight == {r \in Request : request[r] # Missing}

Begin(r, call) ==
  /\ serving
  /\ request[r] = Missing
  /\ calls < MaxCalls
  /\ request' = [request EXCEPT ![r] = call]
  /\ calls' = calls + 1
  /\ overlapped' = (overlapped \/ InFlight # {})
  /\ UNCHANGED <<account, token, owner, member, serving>>

\* Requests that read the accounts -----------------------------------------

BeginLogin(r) ==
  \E u \in User : CanSignIn(u) /\ Begin(r, [kind |-> "login", session |-> Session(u)])

BeginLogout(r) ==
  \E u \in User : SignedIn(u) /\ Begin(r, [kind |-> "logout", user |-> u])

\* A user changes a password known to them; an administrator sets anyone's.
BeginPassword(r) ==
  \E by, u \in User :
    /\ SignedIn(by) /\ HasAccount(u)
    /\ by = u \/ account[by].role = "admin"
    /\ Begin(r, [kind |-> "password", user |-> u])

BeginLocalUser(r) ==
  \E by, u \in User, role \in GlobalRole :
    /\ SignedIn(by) /\ account[by].role = "admin"
    /\ ~HasAccount(u)
    /\ Begin(r, [kind |-> "local", user |-> u, role |-> role])

\* "cannot demote the last remaining admin"
MayDemote(u) == Cardinality(Admins) > 1

BeginGlobalRole(r) ==
  \E by, u \in User, role \in GlobalRole :
    /\ SignedIn(by) /\ account[by].role = "admin"
    /\ HasAccount(u)
    /\ u \in PlatformOwners => role = "admin"
    /\ account[u].role # role
    /\ account[u].role = "admin" => MayDemote(u)
    /\ Begin(r, [kind |-> "global", user |-> u, role |-> role])

\* Requests that read the project's members ---------------------------------

BeginAdd(r) ==
  \E by, u \in User, role \in Assignable :
    /\ SignedIn(by) /\ OwnerReach(by)
    /\ u # owner
    /\ RowsOf(u) = {}
    /\ Begin(r, [kind |-> "add", user |-> u, role |-> role, stub |-> ~HasAccount(u)])

NotTheOwners(i) == member[i].role # "business_owner"

BeginRemove(r) ==
  \E by, u \in User : \E i \in RowsOf(u) :
    /\ SignedIn(by) /\ OwnerReach(by)
    /\ NotTheOwners(i)
    /\ Begin(r, [kind |-> "remove", row |-> i])

\* The assistant's gate leaves out the global relayops_member.
MayChangeRole(via, by, u) ==
  \/ by = u
  \/ owner = by
  \/ account[by].role = "admin" \/ (via = "assistant" /\ by \in PlatformOwners)
  \/ via = "members" /\ IsElevated(by)

BeginRole(r) ==
  \E via \in {"members", "assistant"}, by, u \in User, role \in Assignable : \E i \in RowsOf(u) :
    /\ SignedIn(by) /\ MayChangeRole(via, by, u)
    /\ NotTheOwners(i)
    /\ member[i].role # role
    /\ Begin(r, [kind |-> "role", writes |-> {<<i, role>>}])

\* Only columns that differ from what was read are written.
RoleWrite(i, role) == IF i = Missing \/ member[i].role = role THEN {} ELSE {<<i, role>>}

TransferKeepsOld(u, old, new) ==
  [ kind |-> "transfer", user |-> u, row |-> new, stub |-> ~HasAccount(u),
    writes |-> IF new = Missing THEN {} ELSE RoleWrite(new, "business_owner") ]
Transfer(u, old, new) ==
  [ kind |-> "transfer", user |-> u, row |-> new, stub |-> ~HasAccount(u),
    writes |-> RoleWrite(old, "relayops_member") \cup
               (IF new = Missing THEN {} ELSE RoleWrite(new, "business_owner")) ]

BeginTransfer(r) ==
  \E by, u \in User :
    /\ SignedIn(by)
    /\ account[by].role = "admin" \/ owner = by
    /\ owner # u
    /\ \E old \in FirstOf(owner), new \in FirstOf(u) : Begin(r, Transfer(u, old, new))

\* Writing and committing ----------------------------------------------------

NextId == Max({0} \cup Rows) + 1
NewRow(u, role) == [member EXCEPT ![NextId] = [user |-> u, role |-> role]]
\* A row already deleted makes the UPDATE fail, and the request with it.
Writable(writes) == \A w \in writes : w[1] \in Rows
Written(writes) ==
  [i \in Row |-> IF \E w \in writes : w[1] = i
                   THEN [member[i] EXCEPT !.role = (CHOOSE w \in writes : w[1] = i)[2]]
                   ELSE member[i]]
\* users.username is unique: of two requests that pre-provision one account
\* the second fails.
Provisionable(c) == c.stub => ~HasAccount(c.user)
Provisioned(c) == IF c.stub THEN [account EXCEPT ![c.user] = Stub] ELSE account

RenewedKeepingSessions(a) == [a EXCEPT !.password = @ + 1]
\* Every password change ends all sessions of the account.
Renewed(a) == [a EXCEPT !.password = @ + 1, !.version = @ + 1]

Done(r) == request' = [request EXCEPT ![r] = Missing] /\ UNCHANGED <<calls, overlapped, serving>>

CommitLogin(r) ==
  /\ request[r] # Missing /\ request[r].kind = "login"
  /\ token' = token \cup {request[r].session}
  /\ Done(r)
  /\ UNCHANGED <<account, owner, member>>

CommitLogout(r) ==
  /\ request[r] # Missing /\ request[r].kind = "logout"
  /\ account' = [account EXCEPT ![request[r].user].version = @ + 1]
  /\ Done(r)
  /\ UNCHANGED <<token, owner, member>>

CommitPassword(r) ==
  /\ request[r] # Missing /\ request[r].kind = "password"
  /\ account' = [account EXCEPT ![request[r].user] = Renewed(@)]
  /\ Done(r)
  /\ UNCHANGED <<token, owner, member>>

CommitLocalUser(r) ==
  /\ request[r] # Missing /\ request[r].kind = "local"
  /\ ~HasAccount(request[r].user)
  /\ account' = [account EXCEPT ![request[r].user] = LocalAccount(request[r].role)]
  /\ Done(r)
  /\ UNCHANGED <<token, owner, member>>

CommitGlobalRole(r) ==
  /\ request[r] # Missing /\ request[r].kind = "global"
  /\ account' = [account EXCEPT ![request[r].user].role = request[r].role]
  /\ Done(r)
  /\ UNCHANGED <<token, owner, member>>

CommitAdd(r) ==
  /\ request[r] # Missing /\ request[r].kind = "add"
  /\ Provisionable(request[r])
  /\ account' = Provisioned(request[r])
  /\ member' = NewRow(request[r].user, request[r].role)
  /\ Done(r)
  /\ UNCHANGED <<token, owner>>

CommitRemove(r) ==
  /\ request[r] # Missing /\ request[r].kind = "remove"
  /\ member' = [member EXCEPT ![request[r].row] = Missing]
  /\ Done(r)
  /\ UNCHANGED <<account, token, owner>>

CommitRole(r) ==
  /\ request[r] # Missing /\ request[r].kind = "role"
  /\ Writable(request[r].writes)
  /\ member' = Written(request[r].writes)
  /\ Done(r)
  /\ UNCHANGED <<account, token, owner>>

CommitTransfer(r) ==
  /\ request[r] # Missing /\ request[r].kind = "transfer"
  /\ LET c == request[r] IN
       /\ Provisionable(c)
       /\ Writable(c.writes)
       /\ account' = Provisioned(c)
       /\ member' = IF c.row # Missing THEN Written(c.writes)
                    ELSE [Written(c.writes) EXCEPT ![NextId] = [user |-> c.user, role |-> "business_owner"]]
       /\ owner' = c.user
  /\ Done(r)
  /\ UNCHANGED token

\* The request fails: a constraint, a vanished row, a lost connection.
Abort(r) ==
  /\ request[r] # Missing
  /\ Done(r)
  /\ UNCHANGED <<account, token, owner, member>>

RepairedOwnerOnly(i) ==
  IF i # Missing THEN [member EXCEPT ![i].role = "business_owner"]
  ELSE NewRow(owner, "business_owner")

\* ensure_project_owner_members: the owner has a row that says so, and no
\* other user's row does.
Repaired(i) ==
  LET kept == [j \in Row |->
                 IF j = i THEN [member[j] EXCEPT !.role = "business_owner"]
                 ELSE IF j \in Rows /\ member[j].role = "business_owner" /\ member[j].user # owner
                 THEN [member[j] EXCEPT !.role = "relayops_member"]
                 ELSE member[j]]
  IN IF i # Missing THEN kept
     ELSE [kept EXCEPT ![NextId] = [user |-> owner, role |-> "business_owner"]]

NobodyTwice == \A i, j \in Rows : member[i].user = member[j].user => i = j

\* A start fails unless some administrator has a password.  One that serves need not
\* have repaired the rows: a failure of the seeding or of the repair is only logged.
\* What was repaired is as good as new, unless some user has two rows.
Restart ==
  /\ calls < MaxCalls
  /\ request' = [r \in Request |-> Missing]
  /\ calls' = calls + 1
  /\ serving' = \E u \in Admins : CanSignIn(u)
  /\ \/ UNCHANGED <<member, overlapped>>
     \/ /\ serving'
        /\ \E i \in FirstOf(owner) : member' = Repaired(i)
        /\ overlapped' = (overlapped /\ ~NobodyTwice)
  /\ UNCHANGED <<account, token, owner>>

Next ==
  \/ \E r \in Request :
       \/ BeginLogin(r) \/ BeginLogout(r) \/ BeginPassword(r) \/ BeginLocalUser(r) \/ BeginGlobalRole(r)
       \/ BeginAdd(r) \/ BeginRemove(r) \/ BeginRole(r) \/ BeginTransfer(r)
       \/ CommitLogin(r) \/ CommitLogout(r) \/ CommitPassword(r) \/ CommitLocalUser(r) \/ CommitGlobalRole(r)
       \/ CommitAdd(r) \/ CommitRemove(r) \/ CommitRole(r) \/ CommitTransfer(r)
       \/ Abort(r)
  \/ Restart

Spec == Init /\ [][Next]_vars

-----------------------------------------------------------------------------
\* Properties

OwnerRows == {i \in Rows : member[i].role = "business_owner"}

\* As long as no two requests overlapped, through transfers, removals, changes
\* of role and restarts: some account is an administrator, the project has
\* "exactly one row with role='business_owner' whose user_id matches
\* Project.owner_id", and a member has one row.  So it is again after a start that
\* repaired what overlapping requests left, unless they left a user with two rows.
RolesKept ==
  ~overlapped => /\ Admins # {}
                 /\ Cardinality(OwnerRows) = 1
                 /\ \A i \in OwnerRows : member[i].user = owner
                 /\ \A u \in User : Cardinality(RowsOf(u)) <= 1

\* Whatever overlapping transfers, removals and role changes left behind, a start of
\* the server changes the rows as a whole or not at all: if it changed any, the
\* owner has an owner's row and no other user does.
StartRepairsOrKeeps ==
  [][Restart => \/ member' = member
                \/ /\ \E i \in Row : member'[i] # Missing /\ member'[i] = [user |-> owner', role |-> "business_owner"]
                   /\ \A i \in Row : (member'[i] # Missing /\ member'[i].role = "business_owner")
                                       => member'[i].user = owner']_vars

\* A session obtained with a password that was since changed or reset is not
\* accepted, even when the sign-in was under way during the change.
SessionsCurrent ==
  \A t \in token : Accepted(t) => t.password = account[t.user].password

\* "cannot demote the last remaining admin (would lock the platform out of
\* further admin actions)" (users.py:111): some administrator can sign in. The
\* guard counts accounts that were pre-provisioned and have no password.
AdminCanSignIn == \E u \in Admins : CanSignIn(u)
=============================================================================
