---------------------------- MODULE AccessProofs ----------------------------
(***************************************************************************)
(* Theorems about Access, for any accounts, departments, requests and      *)
(* settled databases to start from.                                        *)
(***************************************************************************)
EXTENDS Access, FiniteSetTheorems, TLAPS

Membership == {"grant", "revoke"}

\* What a request remembers of the row it will write is still so: rows are never
\* deleted and roles never change.
TargetsStand == \A r \in Requests :
  /\ req[r].op = "update" =>
       /\ Exists(req[r].target) /\ users[req[r].target].role = req[r].row.role
       /\ req[r].at = "count" => ~req[r].active
  /\ req[r].op \in Membership =>
       /\ depts[req[r].dept] # "absent"
       /\ req[r].op = "grant" /\ req[r].at # "target" => Exists(req[r].target)

TwoAdmins == \E a, b \in ActiveAdmins : a # b

Deactivates(q) == q.row.role = "admin" /\ q.row.active /\ ~q.active

\* Who is about to switch an administrator off holds their rows, and there are two.
CountStands == \A r \in Requests :
  At(r, "update", "write") /\ Deactivates(req[r]) => adminLock = r /\ TwoAdmins

\* Who is about to write a level holds the department's row ...
WritersHoldTheRow == \A r \in Requests :
  req[r].op \in Membership /\ req[r].at = "write" => memberLock[req[r].dept] = r

\* ... so that what the policy judged is what is overwritten.
JudgmentStands == \A r \in Requests :
  LET q == req[r] IN
  q.op \in Membership /\ q.at = "write" =>
    q.role = "admin" \/ q.target = q.caller
      \/ (q.wanted # "owner" /\ level[q.target][q.dept] # "owner")

Inv == TypeOK /\ TargetsStand /\ CountStands /\ WritersHoldTheRow /\ JudgmentStands

-----------------------------------------------------------------------------
(* The records of requests *)

LEMMA BeginIsTyped ==
  ASSUME TypeOK, NEW r \in Requests, NEW record \in Records, Begin(r, record)
  PROVE  req' \in [Requests -> Records]
  BY DEF TypeOK, Begin

LEMMA ContinueIsTyped ==
  ASSUME TypeOK, NEW r \in Requests, NEW record \in Records, Continue(r, record)
  PROVE  req' \in [Requests -> Records]
  BY DEF TypeOK, Continue

LEMMA IdleIsARecord == Idle \in Records
  BY DEF Records

LEMMA FinishIsTyped ==
  ASSUME TypeOK, NEW r \in Requests, Finish(r)
  PROVE  req' \in [Requests -> Records] /\ req'[r] = Idle /\ \A q \in Requests \ {r} : req'[q] = req[q]
  <1>1. req' \in [Requests -> Records]
    BY ContinueIsTyped, IdleIsARecord DEF Finish
  <1>2. QED
    BY <1>1 DEF TypeOK, Finish, Continue

\* What each operation's record holds.
LEMMA RecordsByOperation ==
  ASSUME NEW q \in Records
  PROVE  /\ q.op \in {"register", "login"} =>
              /\ q.email \in Users
              /\ q.at \in {"insert", "defaults"} =>
                   q \in [op : {"register", "login"}, at : {"insert", "defaults"}, email : Users, role : Roles]
         /\ q.op = "update" =>
              q \in [op : {"update"}, at : {"count", "write"}, caller : Users, target : Users,
                     row : Rows, active : BOOLEAN]
         /\ q.op \in Membership =>
              q \in [op : {"grant", "revoke"}, at : {"target", "lock", "write"}, caller : Users,
                     role : Roles, level : {"owner"}, target : Users, dept : Depts,
                     wanted : Levels \cup {"keep", "none"}]
         /\ q.op = "none" => q = Idle
         /\ q.op \in {"none", "register", "login", "update", "grant", "revoke"}
  BY DEF Records, Idle, Membership

LEMMA StationsAreRecords ==
  ASSUME NEW q \in Records
  PROVE  /\ q.op \in {"register", "login"} /\ q.at = "insert" => [q EXCEPT !.at = "defaults"] \in Records
         /\ q.op = "update" => [q EXCEPT !.at = "write"] \in Records
         /\ q.op \in Membership => [q EXCEPT !.at = "lock"] \in Records /\ [q EXCEPT !.at = "write"] \in Records
  BY RecordsByOperation DEF Records, Membership

\* Going to another station changes nothing else.
LEMMA FieldsStay ==
  ASSUME NEW q \in Records, NEW x
  PROVE  LET m == [q EXCEPT !.at = x] IN
         /\ m.op = q.op /\ m.at = x
         /\ q.op \in {"update", "grant", "revoke"} => m.caller = q.caller /\ m.target = q.target
         /\ q.op = "update" => m.row = q.row /\ m.active = q.active
         /\ q.op \in Membership =>
              m.role = q.role /\ m.level = q.level /\ m.dept = q.dept /\ m.wanted = q.wanted
  BY RecordsByOperation DEF Records, Membership, Idle

\* A request moves on with its own record only.
LEMMA ContinueMoves ==
  ASSUME TypeOK, NEW r \in Requests, NEW record, Continue(r, record)
  PROVE  req'[r] = record /\ \A q \in Requests \ {r} : req'[q] = req[q]
  BY DEF TypeOK, Continue

LEMMA BeginMoves ==
  ASSUME TypeOK, NEW r \in Requests, NEW record, Begin(r, record)
  PROVE  req'[r] = record /\ \A q \in Requests \ {r} : req'[q] = req[q]
  BY DEF TypeOK, Begin

\* A set with more than one element has two.
LEMMA MoreThanOneIsTwo ==
  ASSUME NEW S, ~(Cardinality(S) <= 1)
  PROVE  \E a, b \in S : a # b
  <1> SUFFICES ASSUME \A a, b \in S : a = b PROVE FALSE
    OBVIOUS
  <1>1. CASE S = {}
    BY <1>1, FS_EmptySet
  <1>2. CASE S # {}
    <2>1. PICK a : S = {a}
      BY <1>2
    <2>2. Cardinality({a}) = 1
      BY FS_Singleton
    <2>3. QED
      BY <2>1, <2>2
  <1>3. QED
    BY <1>1, <1>2

-----------------------------------------------------------------------------
(* Type correctness *)

LEMMA InitIsTyped == Init => TypeOK
  BY StartAssumption, IdleIsARecord DEF Init, TypeOK

LEMMA DefaultsAreTyped ==
  ASSUME TypeOK, NEW members
  PROVE  TypedTables(users, depts, DefaultGrants(members))
  BY DEF TypeOK, TypedTables, DefaultGrants, NoRow, Levels

LEMMA BeginningsAreTyped ==
  ASSUME TypeOK, NEW r \in Requests, BeginSome(r)
  PROVE  TypeOK'
  <1>1. req' \in [Requests -> Records]
    <2>1. ASSUME NEW c \in Users \cup {Nobody}, NEW e \in Users, BeginRegister(r, c, e)
          PROVE  req' \in [Requests -> Records]
      <3>1. [op |-> "register", at |-> "resolve", email |-> e] \in Records
        BY DEF Records
      <3>2. QED
        BY <2>1, <3>1, BeginIsTyped DEF BeginRegister
    <2>2. ASSUME NEW e \in Users, BeginDirectoryLogin(r, e)
          PROVE  req' \in [Requests -> Records]
      <3>1. [op |-> "login", at |-> "insert", email |-> e, role |-> DirectoryRole(e)] \in Records
        BY DEF Records, Roles, DirectoryRole
      <3>2. QED
        BY <2>2, <3>1, BeginIsTyped DEF BeginDirectoryLogin
    <2>3. ASSUME NEW c \in Users, NEW t \in Users, NEW a \in BOOLEAN, BeginUpdate(r, c, t, a)
          PROVE  req' \in [Requests -> Records]
      <3>1. users[t] \in Rows
        BY <2>3 DEF BeginUpdate, Exists, TypeOK, TypedTables
      <3>2. [op |-> "update", at |-> IF a THEN "write" ELSE "count", caller |-> c, target |-> t,
             row |-> users[t], active |-> a] \in Records
        BY <3>1 DEF Records
      <3>3. QED
        BY <2>3, <3>2, BeginIsTyped DEF BeginUpdate
    <2>4. ASSUME NEW op \in Membership, NEW c \in Users, NEW t \in Users, NEW d \in Depts,
                 NEW w \in Levels \cup {"keep", "none"}, BeginMembership(r, op, c, t, d, w)
          PROVE  req' \in [Requests -> Records]
      <3>1. users[c].role \in Roles
        BY <2>4 DEF BeginMembership, Authenticated, Exists, TypeOK, TypedTables, Rows, Roles
      <3>2. [op |-> op, at |-> IF op = "grant" THEN "target" ELSE "lock", caller |-> c,
             role |-> users[c].role, level |-> "owner", target |-> t, dept |-> d, wanted |-> w] \in Records
        BY <3>1 DEF Records, Membership
      <3>3. QED
        BY <2>4, <3>2, BeginIsTyped DEF BeginMembership
    <2>5. QED
      BY <2>1, <2>2, <2>3, <2>4 DEF BeginSome, Membership
  <1>2. UNCHANGED <<database, locks>>
    BY DEF BeginSome, BeginRegister, BeginDirectoryLogin, BeginUpdate, BeginMembership
  <1>3. QED
    BY <1>1, <1>2 DEF TypeOK, database, locks

LEMMA StepsAreTyped ==
  ASSUME TypeOK, TargetsStand, NEW r \in Requests, Step(r)
  PROVE  TypeOK'
  <1> DEFINE q == req[r]
  <1>0. q \in Records
    BY DEF TypeOK
  <1>1. CASE RegisterResolves(r)
    <2>1. [op |-> "register", at |-> "insert", email |-> q.email, role |-> ResolvedRole(q.email)] \in Records
      BY <1>0, <1>1, RecordsByOperation DEF RegisterResolves, At, Records, Roles, ResolvedRole
    <2>2. req' \in [Requests -> Records]
      BY <1>1, <2>1, ContinueIsTyped, FinishIsTyped DEF RegisterResolves
    <2>3. QED
      BY <1>1, <2>2 DEF RegisterResolves, TypeOK, database, locks
  <1>2. CASE InsertAccount(r)
    <2>1. [q EXCEPT !.at = "defaults"] \in Records
      BY <1>0, <1>2, StationsAreRecords DEF InsertAccount
    <2>2. req' \in [Requests -> Records]
      BY <1>2, <2>1, ContinueIsTyped, FinishIsTyped DEF InsertAccount
    <2>3. q.email \in Users /\ q.role \in Roles
      BY <1>0, <1>2, RecordsByOperation DEF InsertAccount
    <2>4. TypedTables(users', depts, level)
      <3>1. CASE UNCHANGED users
        BY <3>1 DEF TypeOK
      <3>2. CASE users' = [users EXCEPT ![q.email] = [role |-> q.role, active |-> TRUE]]
        <4>1. [role |-> q.role, active |-> TRUE] \in Rows /\ [role |-> q.role, active |-> TRUE] # NoRow
          BY <2>3 DEF Rows, Roles, NoRow
        <4>2. QED
          BY <3>2, <4>1 DEF TypeOK, TypedTables
      <3>3. QED
        BY <1>2, <3>1, <3>2 DEF InsertAccount
    <2>5. QED
      BY <1>2, <2>2, <2>4 DEF InsertAccount, TypeOK, locks
  <1>3. CASE GrantDefaults(r)
    <2>1. TypedTables(users, depts, level')
      BY <1>3, DefaultsAreTyped DEF GrantDefaults, TypeOK
    <2>2. QED
      BY <1>3, <2>1, FinishIsTyped DEF GrantDefaults, TypeOK, locks
  <1>4. CASE CountActiveAdmins(r)
    <2>1. [q EXCEPT !.at = "write"] \in Records
      BY <1>0, <1>4, StationsAreRecords DEF CountActiveAdmins, At
    <2>2. req' \in [Requests -> Records]
      BY <1>4, <2>1, ContinueIsTyped, FinishIsTyped DEF CountActiveAdmins
    <2>3. QED
      BY <1>4, <2>2 DEF CountActiveAdmins, TypeOK, database
  <1>5. CASE WriteActive(r)
    <2>1. q.target \in Users /\ q.active \in BOOLEAN /\ Exists(q.target)
      BY <1>0, <1>5, RecordsByOperation DEF WriteActive, At, TargetsStand
    <2>2. TypedTables(users', depts, level)
      <3>1. CASE UNCHANGED users
        BY <3>1 DEF TypeOK
      <3>2. CASE users' = [users EXCEPT ![q.target].active = q.active]
        <4> DEFINE row == [users[q.target] EXCEPT !.active = q.active]
        <4>1. users[q.target] \in Rows
          BY <2>1 DEF TypeOK, TypedTables, Exists
        <4>2. row \in Rows /\ row # NoRow
          BY <2>1, <4>1 DEF Rows, NoRow
        <4>3. users' = [users EXCEPT ![q.target] = row]
          BY <3>2
        <4> HIDE DEF row
        <4>4. QED
          BY <2>1, <4>2, <4>3 DEF TypeOK, TypedTables
      <3>3. QED
        BY <1>5, <3>1, <3>2 DEF WriteActive
    <2>3. QED
      BY <1>5, <2>2, FinishIsTyped DEF WriteActive, TypeOK
  <1>6. CASE ResolveTarget(r)
    <2>1. [q EXCEPT !.at = "lock"] \in Records
      BY <1>0, <1>6, StationsAreRecords DEF ResolveTarget, At, Membership
    <2>2. req' \in [Requests -> Records]
      BY <1>6, <2>1, ContinueIsTyped, FinishIsTyped DEF ResolveTarget
    <2>3. QED
      BY <1>6, <2>2 DEF ResolveTarget, TypeOK, database, locks
  <1>7. CASE LockMembers(r)
    <2>1. [q EXCEPT !.at = "write"] \in Records
      BY <1>0, <1>7, StationsAreRecords DEF LockMembers, Membership
    <2>2. req' \in [Requests -> Records]
      BY <1>7, <2>1, ContinueIsTyped, FinishIsTyped DEF LockMembers
    <2>3. QED
      BY <1>7, <2>2 DEF LockMembers, TypeOK, database
  <1>8. CASE WriteGrant(r)
    <2>1. /\ q.target \in Users /\ q.dept \in Depts /\ q.wanted \in Levels \cup {"keep", "none"}
          /\ Exists(q.target) /\ depts[q.dept] # "absent"
      BY <1>0, <1>8, RecordsByOperation DEF WriteGrant, At, TargetsStand, Membership
    <2>2. TypedTables(users, depts, level')
      BY <1>8, <2>1 DEF WriteGrant, TypeOK, TypedTables, Upserted, Levels, Exists
    <2>3. memberLock' \in [Depts -> Requests \cup {Nobody}]
      BY <1>8 DEF WriteGrant, Unlocked, TypeOK
    <2>4. QED
      BY <1>8, <2>2, <2>3, FinishIsTyped DEF WriteGrant, TypeOK
  <1>9. CASE WriteRevocation(r)
    <2>1. q.target \in Users /\ q.dept \in Depts
      BY <1>0, <1>9, RecordsByOperation DEF WriteRevocation, At, Membership
    <2>2. TypedTables(users, depts, level')
      BY <1>9, <2>1 DEF WriteRevocation, TypeOK, TypedTables, Levels
    <2>3. memberLock' \in [Depts -> Requests \cup {Nobody}]
      BY <1>9 DEF WriteRevocation, Unlocked, TypeOK
    <2>4. QED
      BY <1>9, <2>2, <2>3, FinishIsTyped DEF WriteRevocation, TypeOK
  <1>10. QED
    BY <1>1, <1>2, <1>3, <1>4, <1>5, <1>6, <1>7, <1>8, <1>9 DEF Step

LEMMA NextIsTyped ==
  ASSUME TypeOK, TargetsStand, [Next]_vars
  PROVE  TypeOK'
  <1>1. ASSUME NEW r \in Requests, BeginSome(r) \/ Step(r) PROVE TypeOK'
    BY <1>1, BeginningsAreTyped, StepsAreTyped
  <1>2. CASE Backfill
    BY <1>2, DefaultsAreTyped DEF Backfill, TypeOK
  <1>3. ASSUME NEW c \in Users, NEW d \in Depts, NEW s \in {"active", "disabled"}, SetDepartment(c, d, s)
        PROVE  TypeOK'
    BY <1>3 DEF SetDepartment, TypeOK, TypedTables, locks
  <1>4. CASE UNCHANGED vars
    BY <1>4 DEF vars, TypeOK
  <1>5. QED
    BY <1>1, <1>2, <1>3, <1>4 DEF Next

-----------------------------------------------------------------------------
(* What a step leaves alone *)

LEMMA OthersWait ==
  ASSUME TypeOK, NEW r \in Requests, BeginSome(r) \/ Step(r)
  PROVE  \A q \in Requests \ {r} : req'[q] = req[q]
  <1>1. CASE BeginSome(r)
    BY <1>1, BeginMoves
    DEF BeginSome, BeginRegister, BeginDirectoryLogin, BeginUpdate, BeginMembership
  <1>2. CASE Step(r)
    BY <1>2, ContinueMoves, FinishIsTyped
    DEF Step, RegisterResolves, InsertAccount, GrantDefaults, CountActiveAdmins, WriteActive,
        ResolveTarget, LockMembers, WriteGrant, WriteRevocation
  <1>3. QED
    BY <1>1, <1>2

\* Rows stay, with their roles; departments stay.
LEMMA RowsStay ==
  ASSUME TypeOK, TargetsStand, [Next]_vars
  PROVE  /\ \A u \in Users : Exists(u) => Exists(u)' /\ users'[u].role = users[u].role
         /\ \A d \in Depts : depts[d] # "absent" => depts'[d] # "absent"
  <1> DEFINE Stays == /\ \A u \in Users : Exists(u) => Exists(u)' /\ users'[u].role = users[u].role
                      /\ \A d \in Depts : depts[d] # "absent" => depts'[d] # "absent"
  <1>1. ASSUME NEW r \in Requests, InsertAccount(r) PROVE Stays
    <2>1. /\ depts' = depts
          /\ \/ users' = users
             \/ ~Exists(req[r].email) /\ users' = [users EXCEPT ![req[r].email] = [role |-> req[r].role, active |-> TRUE]]
      BY <1>1 DEF InsertAccount
    <2>2. QED
      BY <2>1 DEF TypeOK, TypedTables, Exists
  <1>2. ASSUME NEW r \in Requests, WriteActive(r) PROVE Stays
    <2> DEFINE t == req[r].target
               row == [users[t] EXCEPT !.active = req[r].active]
    <2>1. depts' = depts /\ (users' = users \/ users' = [users EXCEPT ![t] = row])
      BY <1>2 DEF WriteActive
    <2>2. t \in Users /\ Exists(t)
      BY <1>2, RecordsByOperation DEF WriteActive, At, TargetsStand, TypeOK
    <2>3. users[t] \in Rows
      BY <2>2 DEF TypeOK, TypedTables, Exists
    <2>4. row.role = users[t].role /\ row # NoRow
      BY <2>3 DEF Rows, NoRow
    <2> HIDE DEF row
    <2>5. QED
      BY <2>1, <2>2, <2>4 DEF TypeOK, TypedTables, Exists
  <1>3. ASSUME NEW c \in Users, NEW d \in Depts, NEW s \in {"active", "disabled"}, SetDepartment(c, d, s)
        PROVE  Stays
    BY <1>3 DEF SetDepartment, TypeOK, TypedTables, Exists
  <1>4. ASSUME UNCHANGED <<users, depts>> PROVE Stays
    BY <1>4 DEF Exists
  <1>5. ASSUME NEW r \in Requests, BeginSome(r) \/ Step(r) PROVE Stays
    <2>1. InsertAccount(r) \/ WriteActive(r) \/ UNCHANGED <<users, depts>>
      BY <1>5 DEF BeginSome, BeginRegister, BeginDirectoryLogin, BeginUpdate, BeginMembership,
         Step, RegisterResolves, GrantDefaults, CountActiveAdmins, ResolveTarget, LockMembers,
         WriteGrant, WriteRevocation, database
    <2>2. QED
      BY <2>1, <1>1, <1>2, <1>4
  <1>6. CASE Backfill \/ UNCHANGED vars
    BY <1>6, <1>4 DEF Backfill, vars
  <1>7. QED
    BY <1>3, <1>5, <1>6 DEF Next

-----------------------------------------------------------------------------
(* The invariant *)

\* A part of the invariant that speaks of each request alone.
LEMMA TargetsStandNext ==
  ASSUME TypeOK, TypeOK', TargetsStand, [Next]_vars
  PROVE  TargetsStand'
  <1> DEFINE Stands(q) ==
        /\ q.op = "update" =>
             /\ Exists(q.target) /\ users[q.target].role = q.row.role
             /\ q.at = "count" => ~q.active
        /\ q.op \in Membership =>
             /\ depts[q.dept] # "absent"
             /\ q.op = "grant" /\ q.at # "target" => Exists(q.target)
      StandsNext(q) ==
        /\ q.op = "update" =>
             /\ users'[q.target] # NoRow /\ users'[q.target].role = q.row.role
             /\ q.at = "count" => ~q.active
        /\ q.op \in Membership =>
             /\ depts'[q.dept] # "absent"
             /\ q.op = "grant" /\ q.at # "target" => users'[q.target] # NoRow
  <1>1. ASSUME NEW q \in Records, Stands(q) PROVE StandsNext(q)
    <2>1. q.op = "update" => q.target \in Users
      BY RecordsByOperation
    <2>2. q.op \in Membership => q.target \in Users /\ q.dept \in Depts
      BY RecordsByOperation
    <2>3. QED
      BY <1>1, <2>1, <2>2, RowsStay DEF Exists
  <1>2. \A r \in Requests : Stands(req[r]) /\ req[r] \in Records
    BY DEF TargetsStand, TypeOK
  <1> HIDE DEF Stands, StandsNext
  <1>3. ASSUME NEW r \in Requests, BeginSome(r) PROVE StandsNext(req'[r])
    <2>1. ASSUME NEW c \in Users \cup {Nobody}, NEW e \in Users, BeginRegister(r, c, e)
          PROVE  StandsNext(req'[r])
      BY <2>1, BeginMoves DEF BeginRegister, StandsNext, Membership
    <2>2. ASSUME NEW e \in Users, BeginDirectoryLogin(r, e) PROVE StandsNext(req'[r])
      BY <2>2, BeginMoves DEF BeginDirectoryLogin, StandsNext, Membership
    <2>3. ASSUME NEW c \in Users, NEW t \in Users, NEW a \in BOOLEAN, BeginUpdate(r, c, t, a)
          PROVE  StandsNext(req'[r])
      BY <2>3, BeginMoves DEF BeginUpdate, StandsNext, Membership, database, Exists
    <2>4. ASSUME NEW op \in Membership, NEW c \in Users, NEW t \in Users, NEW d \in Depts,
                 NEW w \in Levels \cup {"keep", "none"}, BeginMembership(r, op, c, t, d, w)
          PROVE  StandsNext(req'[r])
      BY <2>4, BeginMoves DEF BeginMembership, StandsNext, Membership, database
    <2>5. QED
      BY <1>3, <2>1, <2>2, <2>3, <2>4 DEF BeginSome, Membership
  <1>4. ASSUME NEW r \in Requests, Step(r) PROVE StandsNext(req'[r])
    <2> DEFINE q == req[r]
    <2>0. q \in Records /\ Stands(q) /\ StandsNext(q)
      BY <1>1, <1>2
    <2>1. req'[r] = Idle => StandsNext(req'[r])
      BY DEF StandsNext, Idle, Membership
    <2>a. ASSUME NEW x \in {"defaults", "lock", "write"}, req'[r] = [q EXCEPT !.at = x],
                 q.op = "grant" /\ q.at = "target" => users'[q.target] # NoRow
          PROVE  StandsNext(req'[r])
      <3> DEFINE m == [q EXCEPT !.at = x]
      <3>1. /\ m.op = q.op /\ m.at = x
            /\ q.op \in {"update", "grant", "revoke"} => m.target = q.target
            /\ q.op = "update" => m.row = q.row
            /\ q.op \in Membership => m.dept = q.dept
        BY <2>0, FieldsStay
      <3> HIDE DEF m
      <3>2. StandsNext(m)
        BY <2>0, <2>a, <3>1 DEF StandsNext, Membership
      <3>3. QED
        BY <2>a, <3>2 DEF m
    <2>2. CASE RegisterResolves(r)
      BY <2>1, <2>2, ContinueMoves, FinishIsTyped DEF RegisterResolves, StandsNext, Membership
    <2>3. CASE InsertAccount(r)
      BY <2>1, <2>3, <2>a, ContinueMoves, FinishIsTyped DEF InsertAccount
    <2>4. CASE GrantDefaults(r) \/ WriteActive(r) \/ WriteGrant(r) \/ WriteRevocation(r)
      BY <2>1, <2>4, FinishIsTyped DEF GrantDefaults, WriteActive, WriteGrant, WriteRevocation
    <2>5. CASE CountActiveAdmins(r)
      BY <2>1, <2>5, <2>a, ContinueMoves, FinishIsTyped DEF CountActiveAdmins, At
    <2>6. CASE ResolveTarget(r)
      <3>1. q.op = "grant" /\ UNCHANGED users
        BY <2>6 DEF ResolveTarget, At, database
      <3>2. users[q.target].active => users'[q.target] # NoRow
        BY <3>1 DEF NoRow
      <3>3. QED
        BY <2>1, <2>6, <2>a, <3>2, ContinueMoves, FinishIsTyped DEF ResolveTarget
    <2>7. CASE LockMembers(r)
      BY <2>1, <2>7, <2>a, ContinueMoves, FinishIsTyped DEF LockMembers
    <2>8. QED
      BY <1>4, <2>2, <2>3, <2>4, <2>5, <2>6, <2>7 DEF Step
  <1>5. ASSUME NEW r \in Requests, BeginSome(r) \/ Step(r) PROVE \A q \in Requests : StandsNext(req'[q])
    BY <1>1, <1>2, <1>3, <1>4, <1>5, OthersWait
  <1>6. ASSUME UNCHANGED req PROVE \A q \in Requests : StandsNext(req'[q])
    BY <1>1, <1>2, <1>6
  <1>7. \A q \in Requests : StandsNext(req'[q])
    BY <1>5, <1>6 DEF Next, Backfill, SetDepartment, vars
  <1>8. QED
    BY <1>7 DEF StandsNext, TargetsStand, Exists

\* An administrator leaves the active ones only by a request that deactivates,
\* when nobody else holds their rows; and only the one it is about.
LEMMA AdminsLeave ==
  ASSUME TypeOK, TargetsStand, [Next]_vars
  PROVE  \/ ActiveAdmins \subseteq ActiveAdmins'
         \/ \E r \in Requests :
              /\ WriteActive(r) /\ Deactivates(req[r]) /\ adminLock \in {r, Nobody}
              /\ \A u \in ActiveAdmins \ {req[r].target} : u \in ActiveAdmins'
  <1> DEFINE Goal == \/ ActiveAdmins \subseteq ActiveAdmins'
                     \/ \E r \in Requests :
                          /\ WriteActive(r) /\ Deactivates(req[r]) /\ adminLock \in {r, Nobody}
                          /\ \A u \in ActiveAdmins \ {req[r].target} : u \in ActiveAdmins'
  <1>1. ASSUME UNCHANGED users PROVE Goal
    BY <1>1 DEF ActiveAdmins
  <1>2. ASSUME NEW r \in Requests, InsertAccount(r) PROVE Goal
    <2>1. \/ UNCHANGED users
          \/ ~Exists(req[r].email) /\ users' = [users EXCEPT ![req[r].email] = [role |-> req[r].role, active |-> TRUE]]
      BY <1>2 DEF InsertAccount
    <2>2. ActiveAdmins \subseteq ActiveAdmins'
      BY <2>1 DEF ActiveAdmins, Exists, NoRow, TypeOK, TypedTables
    <2>3. QED
      BY <2>2
  <1>3. ASSUME NEW r \in Requests, WriteActive(r) PROVE Goal
    <2> DEFINE q == req[r]
    <2>1. /\ q \in Records /\ q.op = "update" /\ q.target \in Users /\ q.row \in Rows
          /\ q.active \in BOOLEAN /\ Exists(q.target) /\ users[q.target].role = q.row.role
      BY <1>3, RecordsByOperation DEF WriteActive, At, TypeOK, TargetsStand
    <2>2. users[q.target] \in Rows
      BY <2>1 DEF TypeOK, TypedTables, Exists
    <2>3. CASE q.row.active = q.active
      BY <1>1, <1>3, <2>3 DEF WriteActive
    <2>4. CASE q.row.active # q.active
      <3>1. /\ q.target \in ActiveAdmins => adminLock \in {r, Nobody}
            /\ users' = [users EXCEPT ![q.target].active = q.active]
        BY <1>3, <2>4 DEF WriteActive
      <3> DEFINE row == [users[q.target] EXCEPT !.active = q.active]
      <3>2. row.role = users[q.target].role /\ row.active = q.active
        BY <2>2 DEF Rows
      <3>3. users'[q.target] = row /\ \A u \in Users \ {q.target} : users'[u] = users[u]
        BY <2>1, <3>1 DEF TypeOK, TypedTables
      <3> HIDE DEF row
      <3>4. \A u \in ActiveAdmins \ {q.target} : u \in ActiveAdmins'
        BY <3>3 DEF ActiveAdmins
      <3>5. CASE q.active \/ q.target \notin ActiveAdmins
        BY <2>1, <3>2, <3>3, <3>4, <3>5 DEF ActiveAdmins
      <3>6. CASE ~q.active /\ q.target \in ActiveAdmins
        <4>1. Deactivates(q)
          BY <2>1, <2>4, <3>6 DEF Deactivates, ActiveAdmins, Rows
        <4>2. QED
          BY <1>3, <3>1, <3>4, <3>6, <4>1
      <3>7. QED
        BY <3>5, <3>6
    <2>5. QED
      BY <2>3, <2>4
  <1>4. ASSUME NEW r \in Requests, BeginSome(r) \/ Step(r) PROVE Goal
    <2>1. InsertAccount(r) \/ WriteActive(r) \/ UNCHANGED users
      BY <1>4 DEF BeginSome, BeginRegister, BeginDirectoryLogin, BeginUpdate, BeginMembership,
         Step, RegisterResolves, GrantDefaults, CountActiveAdmins, ResolveTarget, LockMembers,
         WriteGrant, WriteRevocation, database
    <2>2. QED
      BY <2>1, <1>1, <1>2, <1>3
  <1>5. ASSUME Backfill \/ UNCHANGED vars
                 \/ \E c \in Users, d \in Depts, s \in {"active", "disabled"} : SetDepartment(c, d, s)
        PROVE  Goal
    BY <1>1, <1>5 DEF Backfill, vars, SetDepartment
  <1>6. QED
    BY <1>4, <1>5 DEF Next

LEMMA CountStandsNext ==
  ASSUME TypeOK, TargetsStand, CountStands, [Next]_vars
  PROVE  CountStands'
  <1> SUFFICES ASSUME NEW r \in Requests,
                      req'[r].op = "update", req'[r].at = "write", Deactivates(req'[r])
               PROVE  adminLock' = r /\ TwoAdmins'
    BY DEF CountStands, At, Deactivates
  <1> DEFINE Writes(q) == q.op = "update" /\ q.at = "write" /\ Deactivates(q)
  <1>1. ASSUME req'[r] = req[r], adminLock' = adminLock PROVE adminLock' = r /\ TwoAdmins'
    <2>1. adminLock = r /\ TwoAdmins
      BY <1>1 DEF CountStands, At
    <2>2. CASE ActiveAdmins \subseteq ActiveAdmins'
      BY <1>1, <2>1, <2>2 DEF TwoAdmins
    <2>3. ASSUME NEW p \in Requests, WriteActive(p), Deactivates(req[p]) PROVE FALSE
      <3>1. adminLock = p
        BY <2>3 DEF CountStands, WriteActive
      <3>2. adminLock' = Nobody /\ Nobody \notin Requests
        BY <2>3, <3>1, AccessAssumption DEF WriteActive
      <3>3. QED
        BY <1>1, <2>1, <3>2
    <2>4. QED
      BY <2>2, <2>3, AdminsLeave, <1>1, <2>1
  <1>2. ASSUME NEW p \in Requests \ {r}, Step(p) PROVE adminLock' = r /\ TwoAdmins'
    <2>1. req'[r] = req[r]
      BY <1>2, OthersWait
    <2>2. adminLock = r /\ TwoAdmins
      BY <2>1 DEF CountStands, At
    <2>3. adminLock' = adminLock
      BY <1>2, <2>2, AccessAssumption DEF Step, RegisterResolves, InsertAccount, GrantDefaults,
         CountActiveAdmins, WriteActive, ResolveTarget, LockMembers, WriteGrant, WriteRevocation, locks
    <2>4. QED
      BY <1>1, <2>1, <2>3
  <1>3. CASE Step(r)
    <2> DEFINE q == req[r]
    <2>1. q \in Records /\ (req'[r] # Idle)
      BY DEF TypeOK, Idle
    <2>2. ASSUME NEW x, req'[r] = [q EXCEPT !.at = x] PROVE q.op = "update" /\ Deactivates(q)
      <3> DEFINE m == [q EXCEPT !.at = x]
      <3>1. m.op = q.op /\ (q.op = "update" => m.row = q.row /\ m.active = q.active)
        BY <2>1, FieldsStay
      <3> HIDE DEF m
      <3>2. Deactivates(m) /\ m.op = "update"
        BY <2>2 DEF m
      <3>3. QED
        BY <3>1, <3>2 DEF Deactivates
    <2>3. CASE CountActiveAdmins(r)
      <3>1. adminLock' = r /\ UNCHANGED users /\ ~DeactivationRefused(q, Cardinality(ActiveAdmins))
            /\ req'[r] = [q EXCEPT !.at = "write"]
        BY <2>1, <2>3, FinishIsTyped, ContinueMoves DEF CountActiveAdmins, database
      <3>2. ~(Cardinality(ActiveAdmins) <= 1)
        BY <2>2, <3>1 DEF DeactivationRefused, Deactivates
      <3>3. TwoAdmins
        BY <3>2, MoreThanOneIsTwo DEF TwoAdmins
      <3>4. QED
        BY <3>1, <3>3 DEF TwoAdmins, ActiveAdmins
    <2>4. CASE GrantDefaults(r) \/ WriteActive(r) \/ WriteGrant(r) \/ WriteRevocation(r)
      BY <2>1, <2>4, FinishIsTyped DEF GrantDefaults, WriteActive, WriteGrant, WriteRevocation
    <2>5. CASE RegisterResolves(r)
      BY <2>1, <2>5, FinishIsTyped, ContinueMoves DEF RegisterResolves
    <2>6. CASE InsertAccount(r)
      BY <2>1, <2>2, <2>6, FinishIsTyped, ContinueMoves DEF InsertAccount
    <2>7. CASE ResolveTarget(r)
      BY <2>1, <2>2, <2>7, FinishIsTyped, ContinueMoves DEF ResolveTarget, At
    <2>8. CASE LockMembers(r)
      BY <2>1, <2>2, <2>8, FinishIsTyped, ContinueMoves DEF LockMembers
    <2>9. QED
      BY <1>3, <2>3, <2>4, <2>5, <2>6, <2>7, <2>8 DEF Step
  <1>4. ASSUME NEW p \in Requests \ {r}, BeginSome(p) PROVE adminLock' = r /\ TwoAdmins'
    <2>1. req'[r] = req[r]
      BY <1>4, OthersWait
    <2>2. adminLock' = adminLock
      BY <1>4 DEF BeginSome, BeginRegister, BeginDirectoryLogin, BeginUpdate, BeginMembership, locks
    <2>3. QED
      BY <1>1, <2>1, <2>2
  <1>5. CASE BeginSome(r)
    \* Only an activation begins at the write.
    <2>1. ASSUME NEW c \in Users, NEW t \in Users, NEW a \in BOOLEAN, BeginUpdate(r, c, t, a)
          PROVE  FALSE
      <3> DEFINE record == [op |-> "update", at |-> IF a THEN "write" ELSE "count",
                            caller |-> c, target |-> t, row |-> users[t], active |-> a]
      <3>1. req'[r] = record
        BY <2>1, BeginMoves DEF BeginUpdate
      <3>2. record.at = "write" => record.active
        OBVIOUS
      <3>3. QED
        BY <3>1, <3>2 DEF Deactivates
    <2>2. ASSUME NEW c \in Users \cup {Nobody}, NEW e \in Users, BeginRegister(r, c, e) PROVE FALSE
      BY <2>2, BeginMoves DEF BeginRegister
    <2>3. ASSUME NEW e \in Users, BeginDirectoryLogin(r, e) PROVE FALSE
      BY <2>3, BeginMoves DEF BeginDirectoryLogin
    <2>4. ASSUME NEW op \in Membership, NEW c \in Users, NEW t \in Users, NEW d \in Depts,
                 NEW w \in Levels \cup {"keep", "none"}, BeginMembership(r, op, c, t, d, w)
          PROVE  FALSE
      BY <2>4, BeginMoves DEF BeginMembership, Membership
    <2>5. QED
      BY <1>5, <2>1, <2>2, <2>3, <2>4 DEF BeginSome, Membership
  <1>6. ASSUME Backfill \/ UNCHANGED vars
                 \/ \E c \in Users, d \in Depts, s \in {"active", "disabled"} : SetDepartment(c, d, s)
        PROVE  adminLock' = r /\ TwoAdmins'
    BY <1>1, <1>6 DEF Backfill, vars, SetDepartment, locks
  <1>7. QED
    BY <1>2, <1>3, <1>4, <1>5, <1>6 DEF Next

\* A level changes from none to viewer, or by the write of a request.
LEMMA LevelsChange ==
  ASSUME TypeOK, [Next]_vars, NEW u \in Users, NEW d \in Depts, level'[u][d] # level[u][d]
  PROVE  \/ level[u][d] = "none" /\ level'[u][d] = "viewer"
         \/ \E r \in Requests :
              /\ WriteGrant(r) \/ WriteRevocation(r)
              /\ req[r].target = u /\ req[r].dept = d
              /\ level'[u][d] = IF req[r].op = "grant" THEN Upserted(req[r].wanted, level[u][d]) ELSE "none"
  <1>1. ASSUME NEW members, level' = DefaultGrants(members)
        PROVE  level[u][d] = "none" /\ level'[u][d] = "viewer"
    BY <1>1 DEF DefaultGrants
  <1>2. ASSUME NEW r \in Requests, WriteGrant(r)
        PROVE  /\ req[r].target = u /\ req[r].dept = d /\ req[r].op = "grant"
               /\ level'[u][d] = Upserted(req[r].wanted, level[u][d])
    BY <1>2 DEF WriteGrant, At, TypeOK, TypedTables
  <1>3. ASSUME NEW r \in Requests, WriteRevocation(r)
        PROVE  /\ req[r].target = u /\ req[r].dept = d /\ req[r].op = "revoke"
               /\ level'[u][d] = "none"
    BY <1>3 DEF WriteRevocation, At, TypeOK, TypedTables
  <1>4. ASSUME NEW r \in Requests, BeginSome(r) \/ Step(r)
        PROVE  (\E members : level' = DefaultGrants(members)) \/ WriteGrant(r) \/ WriteRevocation(r)
    BY <1>4 DEF BeginSome, BeginRegister, BeginDirectoryLogin, BeginUpdate, BeginMembership,
       Step, RegisterResolves, InsertAccount, GrantDefaults, CountActiveAdmins, WriteActive,
       ResolveTarget, LockMembers, database
  <1>5. QED
    BY <1>1, <1>2, <1>3, <1>4 DEF Next, Backfill, SetDepartment, vars

\* A department's row changes hands by its holder's commit and by a free lock's taking.
LEMMA MemberLocksStay ==
  ASSUME TypeOK, NEW r \in Requests, NEW d \in Depts, memberLock[d] = r, [Next]_vars,
         ~Step(r)
  PROVE  memberLock'[d] = r
  <1>1. ASSUME NEW p \in Requests \ {r}, Step(p) PROVE memberLock'[d] = r
    BY <1>1, AccessAssumption DEF Step, RegisterResolves, InsertAccount, GrantDefaults,
       CountActiveAdmins, WriteActive, ResolveTarget, LockMembers, WriteGrant, WriteRevocation,
       Unlocked, locks, TypeOK
  <1>2. ASSUME NEW p \in Requests, BeginSome(p) PROVE memberLock'[d] = r
    BY <1>2 DEF BeginSome, BeginRegister, BeginDirectoryLogin, BeginUpdate, BeginMembership, locks
  <1>3. QED
    BY <1>1, <1>2 DEF Next, Backfill, SetDepartment, vars, locks

\* Who comes to write a level has just locked the department's row.
LEMMA WritersHaveLocked ==
  ASSUME TypeOK, NEW r \in Requests, BeginSome(r) \/ Step(r),
         req'[r].op \in Membership, req'[r].at = "write"
  PROVE  LockMembers(r) /\ req'[r] = [req[r] EXCEPT !.at = "write"]
  <1> DEFINE q == req[r]
  <1>0. q \in Records /\ req'[r] # Idle
    BY DEF TypeOK, Idle, Membership
  <1>1. ASSUME NEW c \in Users, NEW t \in Users, NEW a \in BOOLEAN, BeginUpdate(r, c, t, a)
        PROVE  FALSE
    BY <1>1, BeginMoves DEF BeginUpdate, Membership
  <1>2. ASSUME NEW c \in Users \cup {Nobody}, NEW e \in Users, BeginRegister(r, c, e) PROVE FALSE
    BY <1>2, BeginMoves DEF BeginRegister
  <1>3. ASSUME NEW e \in Users, BeginDirectoryLogin(r, e) PROVE FALSE
    BY <1>3, BeginMoves DEF BeginDirectoryLogin
  <1>4. ASSUME NEW op \in Membership, NEW c \in Users, NEW t \in Users, NEW d \in Depts,
               NEW w \in Levels \cup {"keep", "none"}, BeginMembership(r, op, c, t, d, w)
        PROVE  FALSE
    <2>1. req'[r].at = IF op = "grant" THEN "target" ELSE "lock"
      BY <1>4, BeginMoves DEF BeginMembership
    <2>2. QED
      BY <2>1
  <1>5. ASSUME NEW x, req'[r] = [q EXCEPT !.at = x] PROVE q.op \in Membership /\ x = "write"
    BY <1>0, <1>5, FieldsStay
  <1>6. CASE RegisterResolves(r)
    BY <1>0, <1>6, FinishIsTyped, ContinueMoves DEF RegisterResolves
  <1>7. CASE InsertAccount(r)
    BY <1>0, <1>5, <1>7, FinishIsTyped, ContinueMoves DEF InsertAccount
  <1>8. CASE GrantDefaults(r) \/ WriteActive(r) \/ WriteGrant(r) \/ WriteRevocation(r)
    BY <1>0, <1>8, FinishIsTyped DEF GrantDefaults, WriteActive, WriteGrant, WriteRevocation
  <1>9. CASE CountActiveAdmins(r)
    BY <1>0, <1>5, <1>9, FinishIsTyped, ContinueMoves DEF CountActiveAdmins, At, Membership
  <1>10. CASE ResolveTarget(r)
    BY <1>0, <1>5, <1>10, FinishIsTyped, ContinueMoves DEF ResolveTarget
  <1>11. CASE LockMembers(r)
    BY <1>0, <1>11, FinishIsTyped, ContinueMoves DEF LockMembers
  <1>12. QED
    BY <1>1, <1>2, <1>3, <1>4, <1>6, <1>7, <1>8, <1>9, <1>10, <1>11 DEF BeginSome, Step, Membership

LEMMA JudgmentStandsNext ==
  ASSUME TypeOK, WritersHoldTheRow, JudgmentStands, [Next]_vars
  PROVE  WritersHoldTheRow' /\ JudgmentStands'
  <1> DEFINE Judged(q, table) == q.role = "admin" \/ q.target = q.caller
                                   \/ (q.wanted # "owner" /\ table[q.target][q.dept] # "owner")
  <1> SUFFICES ASSUME NEW r \in Requests, req'[r].op \in Membership, req'[r].at = "write"
               PROVE  memberLock'[req'[r].dept] = r /\ Judged(req'[r], level')
    BY DEF WritersHoldTheRow, JudgmentStands
  <1>1. CASE BeginSome(r) \/ Step(r)
    <2> DEFINE q == req[r]
               m == [q EXCEPT !.at = "write"]
    <2>1. LockMembers(r) /\ req'[r] = m
      BY <1>1, WritersHaveLocked
    <2>2. q \in Records /\ q.op \in Membership /\ m.dept = q.dept /\ m.role = q.role
            /\ m.target = q.target /\ m.caller = q.caller /\ m.wanted = q.wanted /\ m.op = q.op /\ m # Idle
      BY <2>1, FieldsStay DEF LockMembers, Membership, TypeOK, Idle
    <2>3. q.dept \in Depts /\ q.level = "owner"
      BY <2>2, RecordsByOperation
    <2>4. ~GrantRefused(q, level[q.target][q.dept]) /\ memberLock' = [memberLock EXCEPT ![q.dept] = r]
            /\ level' = level
      BY <2>1, <2>2, FinishIsTyped DEF LockMembers, database
    <2> HIDE DEF m
    <2>5. QED
      BY <2>1, <2>2, <2>3, <2>4 DEF GrantRefused, TypeOK
  <1>2. CASE ~(BeginSome(r) \/ Step(r))
    <2> DEFINE q == req[r]
    <2>1. req'[r] = q
      BY <1>2, OthersWait DEF Next, Backfill, SetDepartment, vars
    <2>2. q.target \in Users /\ q.dept \in Depts /\ memberLock[q.dept] = r /\ Judged(q, level)
      BY <2>1, RecordsByOperation DEF TypeOK, WritersHoldTheRow, JudgmentStands
    <2>3. memberLock'[q.dept] = r
      BY <1>2, <2>2, MemberLocksStay
    <2>4. level'[q.target][q.dept] # level[q.target][q.dept] =>
            level'[q.target][q.dept] = "viewer"
      <3>1. ASSUME NEW p \in Requests, WriteGrant(p) \/ WriteRevocation(p), req[p].dept = q.dept
            PROVE  FALSE
        <4>1. memberLock[q.dept] = p
          BY <3>1 DEF WritersHoldTheRow, WriteGrant, WriteRevocation, At, Membership
        <4>2. QED
          BY <1>2, <2>2, <3>1, <4>1 DEF Step
      <3>2. QED
        BY <2>2, <3>1, LevelsChange
    <2>5. QED
      BY <2>1, <2>2, <2>3, <2>4
  <1>3. QED
    BY <1>1, <1>2

-----------------------------------------------------------------------------
(* Theorems *)

LEMMA InitInv == Init => Inv
  BY InitIsTyped DEF Init, Inv, TargetsStand, CountStands, WritersHoldTheRow, JudgmentStands,
     Idle, At, Membership

LEMMA NextInv == Inv /\ [Next]_vars => Inv'
  BY NextIsTyped, TargetsStandNext, CountStandsNext, JudgmentStandsNext DEF Inv

LEMMA AlwaysInv == Spec => []Inv
  BY InitInv, NextInv, PTL DEF Spec

\* In every reachable state the tables, the locks and the records of the requests
\* have their types, and a member row is of an account and a department that exist
\* (the foreign keys of user_departments): no interleaving of a grant with the
\* statements before it writes one that is not.
THEOREM AccessTypeCorrect == Spec => []TypeOK
  BY AlwaysInv, PTL DEF Inv

\* Whatever deactivations interleave, an installation with an active administrator
\* keeps one: the rows counted are locked until the write (users/repository.py,
\* count_active_admins).
THEOREM AdminAlwaysRemains == Spec => ActiveAdminRemains
  <1>1. Inv /\ [Next]_vars => [ActiveAdmins # {} => ActiveAdmins' # {}]_vars
    <2> SUFFICES ASSUME Inv, [Next]_vars, ActiveAdmins # {} PROVE ActiveAdmins' # {}
      OBVIOUS
    <2>1. ASSUME NEW r \in Requests, WriteActive(r), Deactivates(req[r]),
                 \A u \in ActiveAdmins \ {req[r].target} : u \in ActiveAdmins'
          PROVE  ActiveAdmins' # {}
      <3>1. TwoAdmins
        BY <2>1 DEF Inv, CountStands, WriteActive
      <3>2. QED
        BY <2>1, <3>1 DEF TwoAdmins
    <2>2. QED
      BY <2>1, AdminsLeave DEF Inv
  <1>2. QED
    BY <1>1, AlwaysInv, PTL DEF Spec, ActiveAdminRemains

\* An owner's row is made, changed or removed by an administrator or at the owner's
\* own request only, whatever commits between the policy's checks and the write
\* (rag/repository.py, lock_department_for_members).
THEOREM OwnersAnswerToAdminsOnly == Spec => OwnersAnswerToAdmins
  <1> DEFINE A == \A u \in Users, d \in Depts :
       (level[u][d] = "owner") # (level'[u][d] = "owner")
         => \E r \in Requests :
              /\ req[r].at = "write" /\ req'[r] = Idle
              /\ req[r].role = "admin" \/ req[r].caller = u
  <1>1. Inv /\ [Next]_vars => A
    <2> SUFFICES ASSUME Inv, [Next]_vars, NEW u \in Users, NEW d \in Depts,
                        (level[u][d] = "owner") # (level'[u][d] = "owner")
                 PROVE  \E r \in Requests :
                          /\ req[r].at = "write" /\ req'[r] = Idle
                          /\ req[r].role = "admin" \/ req[r].caller = u
      OBVIOUS
    <2>1. PICK r \in Requests :
            /\ WriteGrant(r) \/ WriteRevocation(r)
            /\ req[r].target = u /\ req[r].dept = d
            /\ level'[u][d] = IF req[r].op = "grant" THEN Upserted(req[r].wanted, level[u][d]) ELSE "none"
      BY LevelsChange DEF Inv
    <2>2. req[r].op \in Membership /\ req[r].at = "write" /\ req'[r] = Idle
      BY <2>1, FinishIsTyped DEF Inv, WriteGrant, WriteRevocation, At, Membership
    <2>3. req[r].role = "admin" \/ req[r].caller = u \/ (req[r].wanted # "owner" /\ level[u][d] # "owner")
      BY <2>1, <2>2 DEF Inv, JudgmentStands
    <2>4. QED
      BY <2>1, <2>2, <2>3 DEF Upserted
  <1>2. QED
    BY <1>1, AlwaysInv, PTL DEF Spec, OwnersAnswerToAdmins
=============================================================================
