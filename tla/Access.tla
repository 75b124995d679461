------------------------------- MODULE Access -------------------------------
(***************************************************************************)
(* Accounts and department membership: registration, first directory       *)
(* sign-in, activation and deactivation (app/auth/router.py, app/users/),  *)
(* grants, revocations and the departments themselves (app/rag/router.py,  *)
(* permissions.py, access.py, repository.py).                              *)
(*                                                                         *)
(* Every request runs in one READ COMMITTED session, so each statement of  *)
(* it is a step of its own and reads what has committed by then; the rows  *)
(* it locks FOR UPDATE stay locked until its commit.  A request is a       *)
(* record with the values it has read so far and the step it is at.        *)
(***************************************************************************)
EXTENDS Naturals, FiniteSets

CONSTANTS
  Users,          \* email addresses
  Depts,          \* department codes
  AdminEmails,    \* ADMIN_EMAILS
  DefaultDepts,   \* DEFAULT_DEPARTMENTS
  Requests,       \* the requests that can be in flight at once
  Nobody,         \* no account: an anonymous caller, a free lock
  MaxRequests,    \* bound on the requests served in a behaviour
  StartStates     \* the settled databases a behaviour may start from

ASSUME AccessAssumption ==
  /\ IsFiniteSet(Users)
  /\ AdminEmails \subseteq Users
  /\ DefaultDepts \subseteq Depts
  /\ Nobody \notin Users \cup Requests
  /\ MaxRequests \in Nat

VARIABLES
  users,        \* users: the row of each address, NoRow when there is none
  depts,        \* departments: "absent", "active" or "disabled"
  level,        \* user_departments.role, "none" where there is no row
  memberLock,   \* who holds a department's row FOR UPDATE
  adminLock,    \* who holds the active admins' rows FOR UPDATE
  req,          \* the requests in flight
  served        \* how many requests have begun

vars == <<users, depts, level, memberLock, adminLock, req, served>>
database == <<users, depts, level>>
locks == <<memberLock, adminLock>>

Levels == {"viewer", "editor", "owner"}
NoRow == [role |-> "none", active |-> FALSE]
Rows == [role : {"admin", "member"}, active : BOOLEAN]
Idle == [op |-> "none", at |-> "idle"]

Exists(u) == users[u] # NoRow
ActiveAdmins == {u \in Users : users[u].role = "admin" /\ users[u].active}

-----------------------------------------------------------------------------
(* Policies *)

EffectiveLevel(role, grant) == IF role = "admin" THEN "owner" ELSE grant

LevelOf(u, d) == EffectiveLevel(users[u].role, level[u][d])

GrantRefused(r, existing) ==
  /\ r.role # "admin"
  /\ \/ r.level # "owner"
     \/ /\ r.target # r.caller
        /\ r.wanted = "owner" \/ existing = "owner"

DeactivationRefused(r, activeAdmins) ==
  \/ r.target = r.caller
  \/ r.row.role = "admin" /\ r.row.active /\ activeAdmins <= 1

\* The level a grant leaves behind: no level asked for keeps the one there is.
Upserted(wanted, existing) ==
  IF wanted # "keep" THEN wanted ELSE IF existing = "none" THEN "viewer" ELSE existing

ResolvedRole(email) ==
  IF email \in AdminEmails \/ ~(\E u \in Users : Exists(u)) THEN "admin" ELSE "member"

DirectoryRole(email) == IF email \in AdminEmails THEN "admin" ELSE "member"

-----------------------------------------------------------------------------
\* The tables, with the two foreign keys of user_departments.
TypedTables(table, departments, grants) ==
  /\ table \in [Users -> Rows \cup {NoRow}]
  /\ departments \in [Depts -> {"absent", "active", "disabled"}]
  /\ grants \in [Users -> [Depts -> Levels \cup {"none"}]]
  /\ \A u \in Users, d \in Depts :
       grants[u][d] # "none" => table[u] # NoRow /\ departments[d] # "absent"

ASSUME StartAssumption == \A s \in StartStates : TypedTables(s.users, s.depts, s.level)

Init ==
  /\ \E s \in StartStates : users = s.users /\ depts = s.depts /\ level = s.level
  /\ memberLock = [d \in Depts |-> Nobody]
  /\ adminLock = Nobody
  /\ req = [r \in Requests |-> Idle]
  /\ served = 0

Begin(r, record) ==
  /\ req[r] = Idle
  /\ served < MaxRequests
  /\ served' = served + 1
  /\ req' = [req EXCEPT ![r] = record]

At(r, op, at) == req[r].op = op /\ req[r].at = at

Continue(r, record) == req' = [req EXCEPT ![r] = record] /\ UNCHANGED served

Finish(r) == Continue(r, Idle)

\* get_current_user: the token names an address, the row is read each time.
Authenticated(u) == Exists(u) /\ users[u].active

-----------------------------------------------------------------------------
(* POST /auth/register and the first sign-in of a directory account *)

\* register up to its first count: anonymous callers pass an empty table only.
BeginRegister(r, caller, email) ==
  /\ caller # Nobody => Authenticated(caller)
  /\ (\E u \in Users : Exists(u)) => caller # Nobody /\ users[caller].role = "admin"
  /\ Begin(r, [op |-> "register", at |-> "resolve", email |-> email])
  /\ UNCHANGED <<database, locks>>

RegisterResolves(r) ==
  /\ At(r, "register", "resolve")
  /\ IF Exists(req[r].email)
     THEN Finish(r)
     ELSE Continue(r, [op |-> "register", at |-> "insert", email |-> req[r].email,
                       role |-> ResolvedRole(req[r].email)])
  /\ UNCHANGED <<database, locks>>

\* The directory has vouched for an address with no row of ours.
BeginDirectoryLogin(r, email) ==
  /\ ~Exists(email)
  /\ Begin(r, [op |-> "login", at |-> "insert", email |-> email,
               role |-> DirectoryRole(email)])
  /\ UNCHANGED <<database, locks>>

\* The unique index decides: a registration is refused, a sign-in adopts the row.
InsertAccount(r) ==
  /\ req[r].op \in {"register", "login"} /\ req[r].at = "insert"
  /\ IF Exists(req[r].email)
     THEN /\ IF req[r].op = "register" THEN Finish(r)
             ELSE Continue(r, [req[r] EXCEPT !.at = "defaults"])
          /\ UNCHANGED users
     ELSE /\ users' = [users EXCEPT ![req[r].email] = [role |-> req[r].role, active |-> TRUE]]
          /\ Continue(r, [req[r] EXCEPT !.at = "defaults"])
  /\ UNCHANGED <<depts, level, locks>>

DefaultGrants(members) ==
  [u \in Users |-> [d \in Depts |->
     IF /\ u \in members /\ users[u].active
        /\ d \in DefaultDepts /\ depts[d] = "active" /\ level[u][d] = "none"
     THEN "viewer" ELSE level[u][d]]]

\* _grant_default_departments: a transaction of its own, its failure swallowed.
GrantDefaults(r) ==
  /\ req[r].op \in {"register", "login"} /\ req[r].at = "defaults"
  /\ level' \in {level, DefaultGrants({req[r].email})}
  /\ Finish(r)
  /\ UNCHANGED <<users, depts, locks>>

\* scripts/grant_default_departments.py --apply, over every account.
Backfill ==
  /\ level' = DefaultGrants(Users)
  /\ level' # level
  /\ UNCHANGED <<users, depts, memberLock, adminLock, req, served>>

-----------------------------------------------------------------------------
(* PATCH /users/{id} *)

BeginUpdate(r, caller, target, active) ==
  /\ Authenticated(caller) /\ users[caller].role = "admin"
  /\ Exists(target)
  /\ Begin(r, [op |-> "update", at |-> IF active THEN "write" ELSE "count",
               caller |-> caller, target |-> target, row |-> users[target],
               active |-> active])
  /\ UNCHANGED <<database, locks>>

\* The active admins are counted without FOR UPDATE.
CountActiveAdminsUnlocked(r) ==
  /\ At(r, "update", "count")
  /\ IF DeactivationRefused(req[r], Cardinality(ActiveAdmins))
     THEN Finish(r)
     ELSE Continue(r, [req[r] EXCEPT !.at = "write"])
  /\ UNCHANGED <<database, locks>>

\* count_active_admins: the rows are locked, then counted, for this transaction.
CountActiveAdmins(r) ==
  /\ At(r, "update", "count")
  /\ adminLock = Nobody
  /\ IF DeactivationRefused(req[r], Cardinality(ActiveAdmins))
     THEN Finish(r) /\ UNCHANGED adminLock
     ELSE Continue(r, [req[r] EXCEPT !.at = "write"]) /\ adminLock' = r
  /\ UNCHANGED <<database, memberLock>>

\* An UPDATE is issued only when the value differs from the one that was read,
\* and it waits for a row another transaction has locked.
WriteActive(r) ==
  /\ At(r, "update", "write")
  /\ LET q == req[r] IN
     /\ IF q.row.active = q.active THEN UNCHANGED users
        ELSE /\ q.target \in ActiveAdmins => adminLock \in {r, Nobody}
             /\ users' = [users EXCEPT ![q.target].active = q.active]
     /\ adminLock' = IF adminLock = r THEN Nobody ELSE adminLock
     /\ Finish(r)
  /\ UNCHANGED <<depts, level, memberLock>>

-----------------------------------------------------------------------------
(* Membership of a department *)

\* get_current_user and _require_level: a member's level is read before any lock.
BeginMembership(r, op, caller, target, d, wanted) ==
  /\ Authenticated(caller)
  /\ depts[d] # "absent"
  /\ LevelOf(caller, d) = "owner"
  /\ Begin(r, [op |-> op, at |-> IF op = "grant" THEN "target" ELSE "lock",
               caller |-> caller, role |-> users[caller].role, level |-> "owner",
               target |-> target, dept |-> d, wanted |-> wanted])
  /\ UNCHANGED <<database, locks>>

\* grant_member resolves whom it is about, and refuses a deactivated account.
ResolveTarget(r) ==
  /\ At(r, "grant", "target")
  /\ IF users[req[r].target].active
     THEN Continue(r, [req[r] EXCEPT !.at = "lock"])
     ELSE Finish(r)
  /\ UNCHANGED <<database, locks>>

\* The target's level is read without the department's lock.
LockMembersNot(r) ==
  /\ req[r].op \in {"grant", "revoke"} /\ req[r].at = "lock"
  /\ IF GrantRefused(req[r], level[req[r].target][req[r].dept])
     THEN Finish(r)
     ELSE Continue(r, [req[r] EXCEPT !.at = "write"])
  /\ UNCHANGED <<database, locks>>

\* lock_department_for_members, then the target's level and the policy's answer.
LockMembers(r) ==
  /\ req[r].op \in {"grant", "revoke"} /\ req[r].at = "lock"
  /\ LET d == req[r].dept IN
     /\ memberLock[d] = Nobody
     /\ IF GrantRefused(req[r], level[req[r].target][d])
        THEN Finish(r) /\ UNCHANGED memberLock
        ELSE /\ Continue(r, [req[r] EXCEPT !.at = "write"])
             /\ memberLock' = [memberLock EXCEPT ![d] = r]
  /\ UNCHANGED <<database, adminLock>>

Unlocked(r) == [d \in Depts |-> IF memberLock[d] = r THEN Nobody ELSE memberLock[d]]

WriteGrant(r) ==
  /\ At(r, "grant", "write")
  /\ LET q == req[r] IN
       level' = [level EXCEPT ![q.target][q.dept] = Upserted(q.wanted, @)]
  /\ memberLock' = Unlocked(r)
  /\ Finish(r)
  /\ UNCHANGED <<users, depts, adminLock>>

WriteRevocation(r) ==
  /\ At(r, "revoke", "write")
  /\ level' = [level EXCEPT ![req[r].target][req[r].dept] = "none"]
  /\ memberLock' = Unlocked(r)
  /\ Finish(r)
  /\ UNCHANGED <<users, depts, adminLock>>

-----------------------------------------------------------------------------
(* POST and PATCH /departments *)

\* A department's row is one of those the membership changes lock.
SetDepartment(caller, d, status) ==
  /\ Authenticated(caller) /\ users[caller].role = "admin"
  /\ served < MaxRequests /\ served' = served + 1
  /\ \/ depts[d] = "absent" /\ status = "active"
     \/ depts[d] # "absent" /\ status # depts[d] /\ memberLock[d] = Nobody
  /\ depts' = [depts EXCEPT ![d] = status]
  /\ UNCHANGED <<users, level, locks, req>>

-----------------------------------------------------------------------------
BeginSome(r) ==
  \/ \E c \in Users \cup {Nobody}, e \in Users : BeginRegister(r, c, e)
  \/ \E e \in Users : BeginDirectoryLogin(r, e)
  \/ \E c, t \in Users, a \in BOOLEAN : BeginUpdate(r, c, t, a)
  \/ \E c, t \in Users, d \in Depts :
       \/ \E w \in Levels \cup {"keep"} : BeginMembership(r, "grant", c, t, d, w)
       \/ BeginMembership(r, "revoke", c, t, d, "none")

Step(r) ==
  \/ RegisterResolves(r) \/ InsertAccount(r) \/ GrantDefaults(r)
  \/ CountActiveAdmins(r) \/ WriteActive(r)
  \/ ResolveTarget(r) \/ LockMembers(r) \/ WriteGrant(r) \/ WriteRevocation(r)

Next ==
  \/ \E r \in Requests : BeginSome(r) \/ Step(r)
  \/ Backfill
  \/ \E c \in Users, d \in Depts, s \in {"active", "disabled"} : SetDepartment(c, d, s)

Spec == Init /\ [][Next]_vars

-----------------------------------------------------------------------------
(* Properties *)

Roles == {"admin", "member"}
Records ==
  {Idle}
  \cup [op : {"register"}, at : {"resolve"}, email : Users]
  \cup [op : {"register", "login"}, at : {"insert", "defaults"}, email : Users, role : Roles]
  \cup [op : {"update"}, at : {"count", "write"}, caller : Users, target : Users, row : Rows,
        active : BOOLEAN]
  \cup [op : {"grant", "revoke"}, at : {"target", "lock", "write"}, caller : Users, role : Roles,
        level : {"owner"}, target : Users, dept : Depts, wanted : Levels \cup {"keep", "none"}]

\* Types; and a member row is of an account and a department that exist
\* (user_departments' two foreign keys).
TypeOK ==
  /\ TypedTables(users, depts, level)
  /\ memberLock \in [Depts -> Requests \cup {Nobody}]
  /\ adminLock \in Requests \cup {Nobody}
  /\ req \in [Requests -> Records]

\* A deployment that has an active administrator always has one: however
\* deactivations interleave, the last admin is never switched off
\* (users/policy.py LAST_ADMIN, users/repository.py count_active_admins).
ActiveAdminRemains == [][ActiveAdmins # {} => ActiveAdmins' # {}]_vars

\* An owner's row is made, changed or removed by a global administrator or at
\* the owner's own request only: no owner demotes or evicts a fellow owner and
\* none mints one, whatever is committed between the checks and the write
\* (rag/permissions.py grant_refusal, rag/repository.py lock_department_for_members).
OwnersAnswerToAdmins ==
  [][\A u \in Users, d \in Depts :
       (level[u][d] = "owner") # (level'[u][d] = "owner")
         => \E r \in Requests :
              /\ req[r].at = "write" /\ req'[r] = Idle
              /\ req[r].role = "admin" \/ req[r].caller = u]_vars
=============================================================================
