------------------------------ MODULE SeedProofs ------------------------------
(***************************************************************************)
(* Proofs about Seed for any catalogue, any configurations and any number  *)
(* of runs, stops and changes by the service.                              *)
(*                                                                         *)
(* What the statements of the seed do to one role's grants or to one       *)
(* user's roles does not depend on where in the program they stand: what   *)
(* matters is that a user's row is there when its roles are written, and   *)
(* that the role to be kept was assigned before the others are deleted.    *)
(*                                                                         *)
(* What a run leaves does: DoneOK follows a run that nobody disturbs from  *)
(* one statement to the next.  For that the program is taken apart into    *)
(* the statements it holds and their order.                                *)
(***************************************************************************)
EXTENDS Seed, NumberLemmas, TLAPS

\* A User row with its roles.
IsRow(r) == r = [org |-> r.org, branch |-> r.branch, active |-> r.active, roles |-> r.roles]

IsRun(r) == r = [config |-> r.config, pc |-> r.pc, step |-> r.step]

\* The users whose row the seed or an edit is about to write again.
Written(e) ==
  \/ edit # None /\ e = edit
  \/ AtUser("assign") /\ e = Current.user.email
  \/ AtUser("unassign") /\ e = Current.user.email

\* Undisturbed, the seed finds the role it has assigned.
AssignedOK ==
  AtUser("unassign") /\ undisturbed /\ Current.user.email \in Emails =>
    Current.user.role \in account[Current.user.email].roles

\* The tables are functions of their keys, and the rows that are there are complete.
SeedOK ==
  /\ grants = [ role \in Roles |-> grants[role] ]
  /\ account = [ e \in Emails |-> account[e] ]
  /\ \A e \in Emails : account[e] # None \/ Written(e) => IsRow(account[e])
  /\ AssignedOK
  /\ IsRun(run)

-------------------------------------------------------------------------------
(* Rows.                                                                   *)

\* A row with other roles.
LEMMA RolesOfRow ==
  ASSUME NEW r, IsRow(r), NEW roles
  PROVE  /\ IsRow([ r EXCEPT !.roles = roles ])
         /\ [ r EXCEPT !.roles = roles ].roles = roles
<1>1. r = [org |-> r.org, branch |-> r.branch, active |-> r.active, roles |-> r.roles]
  BY DEF IsRow
<1>2. [ r EXCEPT !.roles = roles ] =
        [org |-> r.org, branch |-> r.branch, active |-> r.active, roles |-> roles]
  BY <1>1
<1> QED
  BY <1>2 DEF IsRow

\* A statement of the seed that is done.
LEMMA ContinueStep ==
  ASSUME SeedOK, Continue
  PROVE  IsRun(run') /\ run'.step = "upsert"
BY DEF SeedOK, Continue, IsRun

\* A statement of ensureUserWithRole that is done.
LEMMA GoToStep ==
  ASSUME SeedOK, NEW step, GoTo(step)
  PROVE  /\ IsRun(run') /\ run'.step = step
         /\ run'.config = run.config /\ run'.pc = run.pc
         /\ Running' <=> Running
         /\ Current' = Current
<1>1. run' = [config |-> run.config, pc |-> run.pc, step |-> step]
  BY DEF SeedOK, GoTo, IsRun
<1> QED
  BY <1>1 DEF IsRun, Running, Current

\* Between users, nobody's roles are about to be written by the seed.
LEMMA BetweenUsers ==
  ASSUME run'.step = "upsert"
  PROVE  /\ \A e : Written(e)' <=> edit' # None /\ e = edit'
         /\ AssignedOK'
BY DEF Written, AssignedOK, AtUser

\* A step that leaves the users alone.
LEMMA AccountKept ==
  ASSUME SeedOK, account' = account, edit' = edit, IsRun(run'),
         grants' = [ role \in Roles |-> grants'[role] ],
         \/ run'.step = "upsert"
         \/ run' = run /\ (undisturbed' => undisturbed)
  PROVE  SeedOK'
<1>1. CASE run'.step = "upsert"
  <2>1. \A e \in Emails : Written(e)' => Written(e)
    BY <1>1, BetweenUsers DEF Written
  <2> QED
    BY <1>1, <2>1, BetweenUsers DEF SeedOK
<1>2. CASE run' = run /\ (undisturbed' => undisturbed)
  <2>1. AssignedOK'
    BY <1>2 DEF SeedOK, AssignedOK, AtUser, Running, Current
  <2>2. \A e \in Emails : Written(e)' => Written(e)
    BY <1>2 DEF Written, AtUser, Running, Current
  <2> QED
    BY <2>1, <2>2 DEF SeedOK
<1> QED
  BY <1>1, <1>2

\* A step that writes one user's row.
LEMMA AccountStep ==
  ASSUME SeedOK, NEW e, NEW r, e \in Emails => IsRow(r),
         account' = [ account EXCEPT ![e] = r ],
         \A f \in Emails : f # e /\ Written(f)' => account[f] # None \/ Written(f),
         AssignedOK', IsRun(run'), UNCHANGED grants
  PROVE  SeedOK'
<1>1. account' = [ f \in Emails |-> IF f = e THEN r ELSE account[f] ]
  BY DEF SeedOK
<1>2. ASSUME NEW f \in Emails, account'[f] # None \/ Written(f)'
      PROVE  IsRow(account'[f])
  <2>1. CASE f = e
    BY <1>1, <2>1
  <2>2. CASE f # e
    BY <1>1, <1>2, <2>2 DEF SeedOK
  <2> QED
    BY <2>1, <2>2
<1> QED
  BY <1>1, <1>2 DEF SeedOK

-------------------------------------------------------------------------------
(* ensureUserWithRole.                                                     *)

\* The row is there when its roles are written.
LEMMA UpsertUserStep ==
  ASSUME SeedOK, UpsertUser
  PROVE  SeedOK'
<1> DEFINE u == Current.user
           r == [ org |-> u.org, branch |-> u.branch, active |-> TRUE,
                  roles |-> IF account[u.email] = None THEN {} ELSE account[u.email].roles ]
<1>0. GoTo("assign")
  BY DEF UpsertUser
<1>1. account' = [ account EXCEPT ![u.email] = r ]
  BY DEF UpsertUser, SeedOK
<1>2. IsRow(r)
  BY DEF IsRow
<1>3. AssignedOK'
  BY <1>0, GoToStep DEF AssignedOK, AtUser
<1>4. \A f \in Emails : f # u.email /\ Written(f)' => Written(f)
  BY <1>0, GoToStep DEF Written, AtUser, UpsertUser, service
<1>5. IsRun(run') /\ UNCHANGED grants
  BY <1>0, GoToStep DEF UpsertUser
<1> HIDE DEF r
<1> QED
  BY <1>1, <1>2, <1>3, <1>4, <1>5, AccountStep

\* The role is assigned to a row that is there.
LEMMA UpsertUserRoleStep ==
  ASSUME SeedOK, UpsertUserRole
  PROVE  /\ SeedOK'
         /\ Current.user.email \in Emails =>
              account'[Current.user.email].roles =
                account[Current.user.email].roles \cup {Current.user.role}
<1> DEFINE u == Current.user
           s == account[u.email].roles \cup {u.role}
           r == [ account[u.email] EXCEPT !.roles = s ]
<1>0. GoTo("unassign")
  BY DEF UpsertUserRole
<1>1. account' = [ account EXCEPT ![u.email] = r ]
  BY DEF UpsertUserRole, SeedOK
<1>2. u.email \in Emails => IsRow(r) /\ r.roles = s
  <2>1. Written(u.email)
    BY DEF UpsertUserRole, Written
  <2> HIDE DEF s
  <2> QED
    BY <2>1, RolesOfRow DEF SeedOK
<1>3. u.email \in Emails => account'[u.email] = r
  BY <1>1 DEF SeedOK
<1>4. AssignedOK'
  <2>1. Current' = Current
    BY <1>0, GoToStep
  <2> QED
    BY <1>2, <1>3, <2>1 DEF AssignedOK
<1>5. \A f \in Emails : f # u.email /\ Written(f)' => Written(f)
  BY <1>0, GoToStep DEF Written, AtUser, UpsertUserRole, service
<1>6. IsRun(run') /\ UNCHANGED grants
  BY <1>0, GoToStep DEF UpsertUserRole
<1>7. u.email \in Emails => account'[u.email].roles = s
  BY <1>2, <1>3
<1> HIDE DEF r
<1>8. SeedOK'
  BY <1>1, <1>2, <1>4, <1>5, <1>6, AccountStep
<1> QED
  BY <1>7, <1>8

\* The other roles are deleted from a row that is there.
LEMMA DeleteOtherRolesStep ==
  ASSUME SeedOK, DeleteOtherRoles
  PROVE  /\ SeedOK'
         /\ Current.user.email \in Emails =>
              account'[Current.user.email].roles =
                account[Current.user.email].roles \cap {Current.user.role}
<1> DEFINE u == Current.user
           s == account[u.email].roles \cap {u.role}
           r == [ account[u.email] EXCEPT !.roles = s ]
<1>0. Continue
  BY DEF DeleteOtherRoles
<1>1. account' = [ account EXCEPT ![u.email] = r ]
  BY DEF DeleteOtherRoles, SeedOK
<1>2. u.email \in Emails => IsRow(r) /\ r.roles = s
  <2>1. Written(u.email)
    BY DEF DeleteOtherRoles, Written
  <2> HIDE DEF s
  <2> QED
    BY <2>1, RolesOfRow DEF SeedOK
<1>3. u.email \in Emails => account'[u.email] = r
  BY <1>1 DEF SeedOK
<1>4. AssignedOK' /\ IsRun(run')
  BY <1>0, ContinueStep, BetweenUsers
<1>5. \A f \in Emails : f # u.email /\ Written(f)' => Written(f)
  BY <1>0, ContinueStep, BetweenUsers DEF Written, DeleteOtherRoles, service
<1>6. UNCHANGED grants
  BY DEF DeleteOtherRoles
<1>7. u.email \in Emails => account'[u.email].roles = s
  BY <1>2, <1>3
<1> HIDE DEF r
<1>8. SeedOK'
  BY <1>1, <1>2, <1>4, <1>5, <1>6, AccountStep
<1> QED
  BY <1>7, <1>8

-------------------------------------------------------------------------------
(* The service.                                                            *)

\* A change to one user's row.
LEMMA ChangeStep ==
  ASSUME SeedOK, NEW e, NEW r, e \in Emails => IsRow(r),
         account' = [ account EXCEPT ![e] = r ],
         edit' \in {edit, e, None}, ~undisturbed', UNCHANGED <<run, grants>>
  PROVE  SeedOK'
<1>1. \A f \in Emails : f # e /\ Written(f)' => Written(f)
  BY DEF Written, AtUser, Running, Current
<1>2. AssignedOK' /\ IsRun(run')
  BY DEF AssignedOK, SeedOK
<1> QED
  BY <1>1, <1>2, AccountStep

\* A user is created, or its fields are written.
LEMMA UserStep ==
  ASSUME SeedOK, NEW e, NEW b, NEW active, CreateUser(e) \/ UpdateUser(e, b, active)
  PROVE  SeedOK'
<1>1. CASE CreateUser(e)
  <2>1. PICK r : r = [org |-> "demo", branch |-> None, active |-> TRUE, roles |-> {"MANAGER"}]
    OBVIOUS
  <2>2. IsRow(r)
    BY <2>1 DEF IsRow
  <2> QED
    BY <1>1, <2>1, <2>2, ChangeStep DEF CreateUser, Change
<1>2. CASE UpdateUser(e, b, active)
  <2>1. PICK r : r = [ account[e] EXCEPT !.branch = b, !.active = active ]
    OBVIOUS
  <2>2. e \in Emails => IsRow(account[e])
    BY <1>2 DEF UpdateUser, SeedOK
  <2>3. e \in Emails => IsRow(r)
    BY <2>1, <2>2 DEF IsRow
  <2>4. account' = [ account EXCEPT ![e] = r ]
    BY <1>2, <2>1 DEF UpdateUser, SeedOK
  <2> QED
    BY <1>2, <2>3, <2>4, ChangeStep DEF UpdateUser, Change
<1> QED
  BY <1>1, <1>2

\* The two statements of a role edit.
LEMMA RoleEditStep ==
  ASSUME SeedOK, (\E e : DeleteRoles(e)) \/ (\E role : CreateRoles(role))
  PROVE  SeedOK'
<1>1. ASSUME NEW e, DeleteRoles(e)
      PROVE  SeedOK'
  <2>1. PICK r : r = [ account[e] EXCEPT !.roles = {} ]
    OBVIOUS
  <2>2. e \in Emails => IsRow(r)
    BY <1>1, <2>1, RolesOfRow DEF DeleteRoles, SeedOK
  <2>3. account' = [ account EXCEPT ![e] = r ]
    BY <1>1, <2>1 DEF DeleteRoles, SeedOK
  <2> QED
    BY <1>1, <2>2, <2>3, ChangeStep DEF DeleteRoles, Change
<1>2. ASSUME NEW role, CreateRoles(role)
      PROVE  SeedOK'
  <2>1. PICK s : s = account[edit].roles \cup {role}
    OBVIOUS
  <2>2. PICK r : r = [ account[edit] EXCEPT !.roles = s ]
    OBVIOUS
  <2>3. edit \in Emails => IsRow(r)
    BY <1>2, <2>2, RolesOfRow DEF CreateRoles, Written, SeedOK
  <2>4. PICK e : e = edit
    OBVIOUS
  <2>5. account' = [ account EXCEPT ![e] = r ]
    BY <1>2, <2>1, <2>2, <2>4 DEF CreateRoles, SeedOK
  <2> QED
    BY <1>2, <2>3, <2>4, <2>5, ChangeStep DEF CreateRoles
<1> QED
  BY <1>1, <1>2

-------------------------------------------------------------------------------
(* All steps.                                                              *)

\* Grants are written by role.
LEMMA GrantsFunction ==
  ASSUME SeedOK, [SeedNext]_seedVars
  PROVE  grants' = [ role \in Roles |-> grants'[role] ]
<1>1. CASE RevokeOthers
  <2>1. PICK k, q : grants' = [ grants EXCEPT ![q] = k ]
    BY <1>1 DEF RevokeOthers
  <2> QED
    BY <2>1 DEF SeedOK
<1>2. CASE UpsertGrant
  <2>1. PICK k, q : grants' = [ grants EXCEPT ![q] = k ]
    BY <1>2 DEF UpsertGrant
  <2> QED
    BY <2>1 DEF SeedOK
<1>3. CASE UNCHANGED grants
  BY <1>3 DEF SeedOK
<1> QED
  BY <1>1, <1>2, <1>3 DEF SeedNext, Start, Stop, SeedStep, ServiceStep, UpsertRow,
     UpsertUser, UpsertUserRole, PassCheck, DeleteOtherRoles, DeleteDemoMovements,
     CreateDemoMovements, CreateUser, UpdateUser, DeleteRoles, CreateRoles, DeactivateBranch, RejectMovement, seedVars

\* What the seed does besides users leaves them alone.
LEMMA OtherStep ==
  ASSUME SeedOK, [SeedNext]_seedVars,
         \/ \E c \in Configs : Start(c)
         \/ Stop \/ UpsertRow \/ RevokeOthers \/ UpsertGrant \/ PassCheck
         \/ DeleteDemoMovements \/ CreateDemoMovements
         \/ \E b \in Branches : DeactivateBranch(b)
         \/ \E m \in movements : RejectMovement(m)
         \/ UNCHANGED seedVars
  PROVE  SeedOK' /\ account' = account
<1>0. grants' = [ role \in Roles |-> grants'[role] ]
  BY GrantsFunction
<1>1. CASE (\E c \in Configs : Start(c)) \/ Stop
  <2>1. IsRun(run') /\ run'.step = "upsert"
    BY <1>1 DEF Start, Stop, Idle, IsRun
  <2>2. account' = account /\ edit' = edit
    BY <1>1 DEF Start, Stop, service
  <2> QED
    BY <1>0, <2>1, <2>2, AccountKept
<1>2. CASE \/ UpsertRow \/ RevokeOthers \/ UpsertGrant \/ PassCheck
           \/ DeleteDemoMovements \/ CreateDemoMovements
  <2>1. Continue /\ account' = account /\ edit' = edit
    BY <1>2 DEF UpsertRow, RevokeOthers, UpsertGrant, PassCheck, DeleteDemoMovements,
                CreateDemoMovements, service
  <2> QED
    BY <1>0, <2>1, ContinueStep, AccountKept
<1>3. CASE \/ \E b \in Branches : DeactivateBranch(b)
           \/ \E m \in movements : RejectMovement(m)
           \/ UNCHANGED seedVars
  <2>1. UNCHANGED <<account, edit, run>> /\ (undisturbed' => undisturbed)
    BY <1>3 DEF DeactivateBranch, RejectMovement, Change, seedVars, service
  <2>2. IsRun(run')
    BY <2>1 DEF SeedOK
  <2> QED
    BY <1>0, <2>1, <2>2, AccountKept
<1> QED
  BY <1>1, <1>2, <1>3

\* Every step keeps the rows complete, and none but the service's takes a user's roles.
LEMMA SeedOKStep ==
  ASSUME SeedOK, [SeedNext]_seedVars
  PROVE  /\ SeedOK'
         /\ undisturbed' => \A e \in Emails :
              account[e] # None /\ account[e].roles # {} => account'[e].roles # {}
<1>1. CASE UpsertUser
  <2>1. SeedOK'
    BY <1>1, UpsertUserStep
  <2>2. ASSUME NEW e \in Emails, account[e] # None, account[e].roles # {}
        PROVE  account'[e].roles # {}
    <3>1. CASE e = Current.user.email
      BY <1>1, <2>2, <3>1 DEF UpsertUser, SeedOK
    <3>2. CASE e # Current.user.email
      BY <1>1, <2>2, <3>2 DEF UpsertUser, SeedOK
    <3> QED
      BY <3>1, <3>2
  <2> QED
    BY <2>1, <2>2
<1>2. CASE UpsertUserRole
  <2>1. /\ SeedOK'
        /\ Current.user.email \in Emails =>
             account'[Current.user.email].roles =
               account[Current.user.email].roles \cup {Current.user.role}
    BY <1>2, UpsertUserRoleStep
  <2>2. ASSUME NEW e \in Emails, account[e] # None, account[e].roles # {}
        PROVE  account'[e].roles # {}
    <3>1. CASE e = Current.user.email
      BY <2>1, <2>2, <3>1
    <3>2. CASE e # Current.user.email
      BY <1>2, <2>2, <3>2 DEF UpsertUserRole, SeedOK
    <3> QED
      BY <3>1, <3>2
  <2> QED
    BY <2>1, <2>2
<1>3. CASE DeleteOtherRoles
  <2>1. /\ SeedOK'
        /\ Current.user.email \in Emails =>
             account'[Current.user.email].roles =
               account[Current.user.email].roles \cap {Current.user.role}
    BY <1>3, DeleteOtherRolesStep
  <2>2. ASSUME undisturbed', NEW e \in Emails, account[e] # None, account[e].roles # {}
        PROVE  account'[e].roles # {}
    <3>1. CASE e = Current.user.email
      <4>1. Current.user.role \in account[Current.user.email].roles
        BY <1>3, <2>2, <3>1 DEF DeleteOtherRoles, SeedOK, AssignedOK
      <4> QED
        BY <2>1, <3>1, <4>1
    <3>2. CASE e # Current.user.email
      BY <1>3, <2>2, <3>2 DEF DeleteOtherRoles, SeedOK
    <3> QED
      BY <3>1, <3>2
  <2> QED
    BY <2>1, <2>2
<1>4. CASE \E e \in Edited :
             \/ CreateUser(e)
             \/ \E b \in Branches \cup {None}, active \in BOOLEAN : UpdateUser(e, b, active)
  <2>1. PICK e, b, active : CreateUser(e) \/ UpdateUser(e, b, active)
    BY <1>4
  <2>2. SeedOK' /\ ~undisturbed'
    BY <2>1, UserStep DEF CreateUser, UpdateUser, Change
  <2> QED
    BY <2>2
<1>5. CASE (\E e \in Edited : DeleteRoles(e)) \/ (\E role \in Roles : CreateRoles(role))
  BY <1>5, RoleEditStep DEF DeleteRoles, CreateRoles, Change
<1>6. CASE \/ \E c \in Configs : Start(c)
           \/ Stop \/ UpsertRow \/ RevokeOthers \/ UpsertGrant \/ PassCheck
           \/ DeleteDemoMovements \/ CreateDemoMovements
           \/ \E b \in Branches : DeactivateBranch(b)
           \/ \E m \in movements : RejectMovement(m)
           \/ UNCHANGED seedVars
  BY <1>6, OtherStep
<1> QED
  BY <1>1, <1>2, <1>3, <1>4, <1>5, <1>6 DEF SeedNext, SeedStep, ServiceStep

\* A fresh database.
LEMMA SeedInitially ==
  SeedInit => SeedOK
<1> SUFFICES ASSUME SeedInit PROVE SeedOK
  OBVIOUS
<1>1. ~Running /\ IsRun(run)
  BY DEF SeedInit, Idle, Running, IsRun
<1>2. AssignedOK /\ \A e : ~Written(e)
  BY <1>1 DEF SeedInit, AssignedOK, Written, AtUser
<1> QED
  BY <1>1, <1>2 DEF SeedInit, SeedOK

-------------------------------------------------------------------------------
(* What the seed may never do.                                             *)

\* The rows are complete, always.
LEMMA SeedInvariance ==
  SeedSpec => []SeedOK
<1>1. SeedOK /\ [SeedNext]_seedVars => SeedOK'
  BY SeedOKStep
<1> QED
  BY <1>1, SeedInitially, PTL DEF SeedSpec

\* Granting is an upsert and revoking spares what the role is to have: no statement of
\* prisma/seed.ts takes such a permission from a role, whatever the maps were before.
THEOREM SeedKeepsGrants ==
  SeedSpec => GrantsKept
<1>1. ASSUME SeedOK, [SeedNext]_seedVars
      PROVE  [ \A role \in Roles : KeysOf(role) \subseteq grants[role] =>
                                   KeysOf(role) \subseteq grants'[role] ]_grants
  <2> SUFFICES ASSUME NEW role \in Roles, KeysOf(role) \subseteq grants[role]
               PROVE  KeysOf(role) \subseteq grants'[role]
    OBVIOUS
  <2>1. CASE RevokeOthers
    BY <1>1, <2>1 DEF RevokeOthers, Kept, SeedOK
  <2>2. CASE UpsertGrant
    BY <1>1, <2>2 DEF UpsertGrant, SeedOK
  <2>3. CASE UNCHANGED grants
    BY <2>3
  <2> QED
    BY <1>1, <2>1, <2>2, <2>3 DEF SeedNext, Start, Stop, SeedStep, ServiceStep, UpsertRow,
       UpsertUser, UpsertUserRole, PassCheck, DeleteOtherRoles, DeleteDemoMovements,
       CreateDemoMovements, CreateUser, UpdateUser, DeleteRoles, CreateRoles, DeactivateBranch, RejectMovement,
       seedVars
<1> QED
  BY <1>1, SeedInvariance, PTL DEF SeedSpec, GrantsKept

\* ensureUserWithRole assigns the role before it deletes the others: a user who had a
\* role has one after every statement, unless the service edits it meanwhile.
THEOREM SeedKeepsRoles ==
  SeedSpec => RolesKept
<1>1. ASSUME SeedOK, [SeedNext]_seedVars
      PROVE  [ undisturbed' => \A e \in Emails :
                 account[e] # None /\ account[e].roles # {} => account'[e].roles # {} ]_account
  BY <1>1, SeedOKStep
<1> QED
  BY <1>1, SeedInvariance, PTL DEF SeedSpec, RolesKept

-------------------------------------------------------------------------------
(* Sequences.  What FlattenSeq and Chosen compute is shown by induction on *)
(* how much of the sequence they have seen.                                *)

\* What concatenation does to the entries.
LEMMA Concatenated ==
  ASSUME NEW S, NEW s \in Seq(S), NEW t \in Seq(S)
  PROVE  /\ s \o t \in Seq(S)
         /\ Len(s \o t) = Len(s) + Len(t)
         /\ \A i \in 1..Len(s) : (s \o t)[i] = s[i]
         /\ \A i \in 1..Len(t) : (s \o t)[Len(s) + i] = t[i]
         /\ ToSet(s \o t) = ToSet(s) \cup ToSet(t)
<1>1. /\ s \o t \in Seq(S)
      /\ Len(s \o t) = Len(s) + Len(t)
      /\ \A i \in 1..Len(s) : (s \o t)[i] = s[i]
      /\ \A i \in 1..Len(t) : (s \o t)[Len(s) + i] = t[i]
  OBVIOUS
<1>2. ASSUME NEW x \in ToSet(s \o t)
      PROVE  x \in ToSet(s) \cup ToSet(t)
  <2>1. PICK i \in 1..Len(s) + Len(t) : x = (s \o t)[i]
    BY <1>1 DEF ToSet
  <2>2. CASE i \in 1..Len(s)
    BY <1>1, <2>1, <2>2 DEF ToSet
  <2>3. CASE i \notin 1..Len(s)
    <3>1. i - Len(s) \in 1..Len(t)
      BY <2>3
    <3>2. x = t[i - Len(s)]
      BY <2>1, <2>3
    <3> QED
      BY <3>1, <3>2 DEF ToSet
  <2> QED
    BY <2>2, <2>3
<1>3. ToSet(s) \subseteq ToSet(s \o t)
  BY <1>1 DEF ToSet
<1>4. ASSUME NEW i \in 1..Len(t)
      PROVE  t[i] \in ToSet(s \o t)
  <2>1. PICK k : k = Len(s) + i
    OBVIOUS
  <2>2. k \in DOMAIN (s \o t) /\ (s \o t)[k] = t[i]
    BY <1>1, <2>1
  <2> QED
    BY <2>2 DEF ToSet
<1>5. ToSet(t) \subseteq ToSet(s \o t)
  BY <1>4 DEF ToSet
<1> QED
  BY <1>1, <1>2, <1>3, <1>5

\* f is defined by recursion.
Recursive(f, S, base, step, n) ==
  /\ f \in [0..n -> S]
  /\ f = [ i \in 0..n |-> IF i = 0 THEN base ELSE step[<<i - 1, f[i - 1]>>] ]

\* There is such a function.
LEMMA Recursion ==
  ASSUME NEW S, NEW base \in S, NEW step \in [Nat \X S -> S], NEW n \in Nat
  PROVE  \E f : Recursive(f, S, base, step, n)
<1>1. PICK h : Iterated(h, S, base, step)
  BY Iteration
<1>2. PICK f : f = [ i \in 0..n |-> h[i] ]
  OBVIOUS
<1>3. f \in [0..n -> S]
  BY <1>1, <1>2 DEF Iterated
<1>4. ASSUME NEW i \in 0..n
      PROVE  f[i] = IF i = 0 THEN base ELSE step[<<i - 1, f[i - 1]>>]
  <2>1. CASE i = 0
    BY <1>1, <1>2, <2>1 DEF Iterated
  <2>2. CASE i # 0
    <3>1. PICK j \in Nat : i = j + 1 /\ j \in 0..n
      BY <2>2
    <3>2. h[j + 1] = step[<<j, h[j]>>]
      BY <1>1 DEF Iterated
    <3> QED
      BY <1>2, <2>2, <3>1, <3>2
  <2> QED
    BY <2>1, <2>2
<1> QED
  BY <1>3, <1>4 DEF Recursive

\* Chosen picks the entries that are in the set, and no others.
LEMMA ChosenEntries ==
  ASSUME NEW R, NEW s \in Seq(R), NEW S
  PROVE  /\ Chosen(s, S) \in Seq(R)
         /\ ToSet(Chosen(s, S)) = ToSet(s) \cap S
<1> DEFINE More(n, t) == IF n + 1 <= Len(s) /\ s[n + 1] \in S THEN Append(t, s[n + 1]) ELSE t
           Body(f, n) == IF n = 0 THEN << >>
                         ELSE IF s[n] \in S THEN Append(f[n - 1], s[n]) ELSE f[n - 1]
           chosen == CHOOSE f : f = [ n \in 0..Len(s) |-> Body(f, n) ]
<1>1. PICK step : step = [ p \in Nat \X Seq(R) |-> More(p[1], p[2]) ]
  OBVIOUS
<1>2. ASSUME NEW n \in Nat, NEW t \in Seq(R)
      PROVE  More(n, t) \in Seq(R) /\ step[<<n, t>>] = More(n, t)
  <2>1. More(n, t) \in Seq(R)
    OBVIOUS
  <2>2. <<n, t>> \in Nat \X Seq(R)
    OBVIOUS
  <2> HIDE DEF More
  <2> QED
    BY <1>1, <2>1, <2>2
<1>3. step \in [Nat \X Seq(R) -> Seq(R)]
  <2> HIDE DEF More
  <2>1. \A p \in Nat \X Seq(R) : p[1] \in Nat /\ p[2] \in Seq(R)
    OBVIOUS
  <2> QED
    BY <1>1, <1>2, <2>1
<1>4. PICK f : Recursive(f, Seq(R), << >>, step, Len(s))
  <2>1. << >> \in Seq(R) /\ Len(s) \in Nat
    OBVIOUS
  <2> QED
    BY <1>3, <2>1, Recursion
<1>5. ASSUME NEW n \in 0..Len(s)
      PROVE  f[n] = Body(f, n)
  <2>1. CASE n = 0
    BY <1>4, <2>1 DEF Recursive
  <2>2. CASE n # 0
    <3>1. n - 1 \in Nat /\ n - 1 \in 0..Len(s) /\ f[n - 1] \in Seq(R)
      BY <1>4, <2>2 DEF Recursive
    <3>2. f[n] = step[<<n - 1, f[n - 1]>>]
      BY <1>4, <2>2 DEF Recursive
    <3>3. f[n] = More(n - 1, f[n - 1])
      BY <1>2, <3>1, <3>2
    <3> QED
      BY <2>2, <3>1, <3>3
  <2> QED
    BY <2>1, <2>2
<1>6. chosen = [ n \in 0..Len(s) |-> Body(chosen, n) ]
  <2>1. f = [ n \in 0..Len(s) |-> f[n] ]
    BY <1>4 DEF Recursive
  <2>2. f = [ n \in 0..Len(s) |-> Body(f, n) ]
    <3> HIDE DEF Body
    <3> QED
      BY <1>5, <2>1
  <2> QED
    BY <2>2
<1> DEFINE T == { n \in Nat : n <= Len(s) => /\ chosen[n] \in Seq(R)
                                             /\ ToSet(chosen[n]) = { s[i] : i \in 1..n } \cap S }
<1> HIDE DEF chosen
<1>7. 0 \in T
  <2>1. chosen[0] = << >>
    BY <1>6
  <2>2. ToSet(<< >>) = {} /\ { s[i] : i \in 1..0 } = {} /\ << >> \in Seq(R)
    BY DEF ToSet
  <2> QED
    BY <2>1, <2>2
<1>8. ASSUME NEW n \in Nat, n \in T
      PROVE  n + 1 \in T
  <2> SUFFICES ASSUME n + 1 <= Len(s)
               PROVE  /\ chosen[n + 1] \in Seq(R)
                      /\ ToSet(chosen[n + 1]) = { s[i] : i \in 1..n + 1 } \cap S
    OBVIOUS
  <2>1. chosen[n + 1] = IF s[n + 1] \in S THEN Append(chosen[n], s[n + 1]) ELSE chosen[n]
    <3>1. PICK m \in 0..Len(s) : m = n + 1 /\ m # 0 /\ m - 1 = n
      OBVIOUS
    <3>2. chosen[m] = Body(chosen, m)
      BY <1>6
    <3> QED
      BY <3>1, <3>2
  <2>2. chosen[n] \in Seq(R) /\ ToSet(chosen[n]) = { s[i] : i \in 1..n } \cap S
    BY <1>8
  <2>3. { s[i] : i \in 1..n + 1 } = { s[i] : i \in 1..n } \cup {s[n + 1]}
    OBVIOUS
  <2>4. CASE s[n + 1] \in S
    <3>0. s[n + 1] \in R /\ <<s[n + 1]>> \in Seq(R)
      <4>1. n + 1 \in 1..Len(s)
        OBVIOUS
      <4> QED
        BY <4>1
    <3>1. PICK c \in Seq(R), e \in Seq(R) : c = chosen[n] /\ e = <<s[n + 1]>>
      BY <2>2, <3>0
    <3>2. ToSet(e) = {s[n + 1]}
      BY <3>1 DEF ToSet
    <3>3. chosen[n + 1] = c \o e
      BY <2>1, <2>4, <3>1
    <3>4. ToSet(chosen[n + 1]) = ToSet(c) \cup ToSet(e) /\ chosen[n + 1] \in Seq(R)
      BY <3>3, Concatenated
    <3> QED
      BY <2>2, <2>3, <2>4, <3>1, <3>2, <3>4
  <2>5. CASE s[n + 1] \notin S
    BY <2>1, <2>2, <2>3, <2>5
  <2> QED
    BY <2>4, <2>5
<1>9. \A n \in Nat : n \in T
  BY <1>7, <1>8, SetInduction
<1>10. PICK m \in Nat : m = Len(s)
  OBVIOUS
<1>13. /\ chosen[Len(s)] \in Seq(R)
       /\ ToSet(chosen[Len(s)]) = { s[i] : i \in 1..Len(s) } \cap S
  <2>1. m \in T
    <3> HIDE DEF T
    <3> QED
      BY <1>9
  <2> QED
    BY <1>10, <2>1
<1>11. Chosen(s, S) = chosen[Len(s)]
  BY DEF Chosen, chosen
<1>12. ToSet(s) = { s[i] : i \in 1..Len(s) }
  BY DEF ToSet
<1> QED
  BY <1>13, <1>11, <1>12

\* FlattenSeq has the entries of its sequences.
LEMMA FlattenedEntries ==
  ASSUME NEW R, NEW seqs \in Seq(Seq(R))
  PROVE  /\ FlattenSeq(seqs) \in Seq(R)
         /\ ToSet(FlattenSeq(seqs)) = UNION { ToSet(seqs[i]) : i \in 1..Len(seqs) }
<1>1. CASE Len(seqs) = 0
  <2>1. seqs = << >> /\ FlattenSeq(seqs) = << >>
    BY <1>1 DEF FlattenSeq
  <2>2. ToSet(<< >>) = {} /\ 1..Len(seqs) = {} /\ << >> \in Seq(R)
    BY <1>1 DEF ToSet
  <2> QED
    BY <2>1, <2>2
<1>2. CASE Len(seqs) # 0
  <2> DEFINE Body(f, i) == IF i = 1 THEN seqs[i] ELSE f[i - 1] \o seqs[i]
             flatten == CHOOSE f : f = [ i \in 1..Len(seqs) |-> Body(f, i) ]
             More(i, s) == IF i + 2 <= Len(seqs) THEN s \o seqs[i + 2] ELSE s
  <2>0. PICK m \in Nat : m = Len(seqs) /\ m # 0 /\ m - 1 \in Nat
    BY <1>2
  <2>e. \A i \in 1..m : seqs[i] \in Seq(R)
    BY <2>0
  <2>1. PICK step : step = [ p \in Nat \X Seq(R) |-> More(p[1], p[2]) ]
    OBVIOUS
  <2>2. ASSUME NEW i \in Nat, NEW s \in Seq(R)
        PROVE  More(i, s) \in Seq(R) /\ step[<<i, s>>] = More(i, s)
    <3>1. More(i, s) \in Seq(R)
      <4>1. CASE i + 2 <= Len(seqs)
        <5>1. PICK t \in Seq(R) : t = seqs[i + 2]
          BY <2>0, <2>e, <4>1
        <5> QED
          BY <4>1, <5>1
      <4> QED
        BY <4>1
    <3>2. <<i, s>> \in Nat \X Seq(R)
      OBVIOUS
    <3> HIDE DEF More
    <3> QED
      BY <2>1, <3>1, <3>2
  <2>3. step \in [Nat \X Seq(R) -> Seq(R)]
    <3> HIDE DEF More
    <3>1. \A p \in Nat \X Seq(R) : p[1] \in Nat /\ p[2] \in Seq(R)
      OBVIOUS
    <3> QED
      BY <2>1, <2>2, <3>1
  <2>k. PICK k \in Nat, q \in Seq(R) : k = m - 1 /\ q = seqs[1]
    <3>1. 1 \in 1..m
      BY <2>0
    <3> QED
      BY <2>0, <2>e, <3>1
  <2>4. PICK f : Recursive(f, Seq(R), q, step, k)
    BY <2>3, Recursion
  <2>5. PICK g : g = [ i \in 1..m |-> f[i - 1] ]
    OBVIOUS
  <2>6. ASSUME NEW i \in 1..m
        PROVE  g[i] = Body(g, i)
    <3>1. CASE i = 1
      BY <2>k, <2>4, <2>5, <3>1 DEF Recursive
    <3>2. CASE i # 1
      <4>1. PICK j \in Nat : i = j + 2
        BY <3>2
      <4>2. /\ j + 1 \in 0..k /\ j + 1 # 0 /\ (j + 1) - 1 = j /\ j \in 0..k /\ j + 2 <= m
            /\ i - 1 = j + 1 /\ i - 1 \in 1..m /\ (i - 1) - 1 = j
        BY <2>k, <4>1
      <4>3. f[j + 1] = step[<<j, f[j]>>] /\ f[j] \in Seq(R)
        BY <2>4, <4>2 DEF Recursive
      <4>4. f[j + 1] = More(j, f[j])
        BY <2>2, <4>3
      <4>5. f[j + 1] = f[j] \o seqs[i]
        BY <2>0, <4>1, <4>2, <4>4
      <4> QED
        BY <2>5, <3>2, <4>2, <4>5
    <3> QED
      BY <3>1, <3>2
  <2>7. flatten = [ i \in 1..Len(seqs) |-> Body(flatten, i) ]
    <3>1. g = [ i \in 1..Len(seqs) |-> g[i] ]
      BY <2>0, <2>5
    <3>2. g = [ i \in 1..Len(seqs) |-> Body(g, i) ]
      <4> HIDE DEF Body
      <4> QED
        BY <2>0, <2>6, <3>1
    <3> QED
      BY <3>2
  <2>8. FlattenSeq(seqs) = flatten[m]
    BY <1>2, <2>0 DEF FlattenSeq
  <2> DEFINE Parts(n) == { ToSet(seqs[j]) : j \in 1..n }
             Flat(n) == flatten[n] \in Seq(R) /\ ToSet(flatten[n]) = UNION Parts(n)
             T == { i \in Nat : i + 1 <= m => Flat(i + 1) }
  <2> HIDE DEF flatten
  <2>9. Flat(1)
    <3>1. flatten[1] = seqs[1] /\ seqs[1] \in Seq(R)
      BY <2>0, <2>e, <2>7
    <3>2. Parts(1) = {ToSet(seqs[1])}
      <4>1. 1..1 = {1}
        OBVIOUS
      <4> QED
        BY <4>1
    <3> QED
      BY <3>1, <3>2
  <2>10. ASSUME NEW i \in Nat, i \in T, i + 2 <= m
         PROVE  Flat(i + 2)
    <3>1. flatten[i + 2] = flatten[i + 1] \o seqs[i + 2]
      <4>1. PICK n \in 1..Len(seqs) : n = i + 2 /\ n # 1 /\ n - 1 = i + 1
        BY <2>0, <2>10
      <4>2. flatten[n] = Body(flatten, n)
        BY <2>7
      <4> QED
        BY <4>1, <4>2
    <3>2. Flat(i + 1)
      BY <2>10
    <3>3. PICK c \in Seq(R), e \in Seq(R) : c = flatten[i + 1] /\ e = seqs[i + 2]
      <4>1. i + 2 \in 1..m
        BY <2>10
      <4> QED
        BY <2>e, <3>2, <4>1
    <3>4. ToSet(flatten[i + 2]) = ToSet(c) \cup ToSet(e) /\ flatten[i + 2] \in Seq(R)
      BY <3>1, <3>3, Concatenated
    <3>5. 1..i + 2 = (1..i + 1) \cup {i + 2}
      OBVIOUS
    <3>6. Parts(i + 2) = Parts(i + 1) \cup {ToSet(e)}
      BY <3>3, <3>5
    <3>7. UNION Parts(i + 2) = (UNION Parts(i + 1)) \cup ToSet(e)
      <4> HIDE DEF Parts
      <4> QED
        BY <3>6
    <3> HIDE DEF Parts
    <3> QED
      BY <3>2, <3>3, <3>4, <3>7
  <2> HIDE DEF Flat
  <2>11. 0 \in T
    BY <2>9
  <2>12. ASSUME NEW i \in Nat, i \in T
         PROVE  i + 1 \in T
    <3>1. (i + 1) + 1 = i + 2
      OBVIOUS
    <3> QED
      BY <2>10, <2>12, <3>1
  <2>13. \A i \in Nat : i \in T
    <3> HIDE DEF T
    <3> QED
      BY <2>11, <2>12, SetInduction
  <2>14. k \in T
    <3> HIDE DEF T
    <3> QED
      BY <2>13
  <2>15. k + 1 = m
    BY <2>0, <2>k
  <2>16. Flat(m)
    BY <2>0, <2>14, <2>15
  <2> QED
    BY <2>0, <2>8, <2>16 DEF Flat
<1> QED
  BY <1>1, <1>2

-------------------------------------------------------------------------------
(* The users of a configuration.                                           *)

BaseUserSet ==
  { Demo(<<"admin">>, "ADMIN", None), Demo(<<"manager">>, "MANAGER", Blueprints[1]),
    Demo(<<"operator">>, "OPERATOR", Blueprints[1]), Demo(<<"manager", "org">>, "MANAGER", None) }

BranchUserSet(c, b) ==
  {Demo(<<"manager", b>>, "MANAGER", b)} \cup
  { Demo(<<"operator", b, i>>, "OPERATOR", b) : i \in 1..c.operators }

DemoUserSet(c) ==
  BaseUserSet \cup UNION { BranchUserSet(c, Blueprints[n]) : n \in 1..c.branches }

\* The numbers of a configuration, and the branches it takes.
LEMMA ConfigFacts ==
  ASSUME NEW c \in Configs
  PROVE  /\ c.branches \in Nat /\ c.branches >= 2 /\ c.branches <= Len(Blueprints)
         /\ c.operators \in Nat \ {0} /\ c.movements \in Nat
         /\ \A n \in 1..c.branches : /\ Blueprints[n] \in Branches \ {DefaultBranch}
                                     /\ Blueprints[n] # "org" /\ Blueprints[n] # None
<1> USE SeedAssumption, BranchAssumption
<1>1. c \in ConfigRows
  OBVIOUS
<1>2. /\ c.branches \in 2..Len(Blueprints) /\ c.operators \in Nat \ {0} /\ c.movements \in Nat
  BY <1>1 DEF ConfigRows
<1>3. Len(Blueprints) \in Nat /\ DOMAIN Blueprints = 1..Len(Blueprints)
  OBVIOUS
<1>4. ASSUME NEW n \in 1..c.branches
      PROVE  /\ Blueprints[n] \in Branches \ {DefaultBranch}
             /\ Blueprints[n] # "org" /\ Blueprints[n] # None
  <2>1. n \in DOMAIN Blueprints
    BY <1>2, <1>3
  <2>2. Blueprints[n] \in Branches \ {DefaultBranch}
    BY <1>3, <2>1
  <2>3. Blueprints[n] \in ToSet(Blueprints)
    BY <2>1 DEF ToSet
  <2> QED
    BY <2>2, <2>3
<1> QED
  BY <1>2, <1>3, <1>4

\* A manager and the operators of a branch.
LEMMA BranchUsersAre ==
  ASSUME NEW c \in Configs, NEW b
  PROVE  /\ BranchUsers(c, b) \in Seq(BranchUserSet(c, b))
         /\ ToSet(BranchUsers(c, b)) = BranchUserSet(c, b)
<1>0. c.operators \in Nat
  BY ConfigFacts
<1>1. PICK s : s = << Demo(<<"manager", b>>, "MANAGER", b) >>
  OBVIOUS
<1>2. PICK t : t = [ i \in 1..c.operators |-> Demo(<<"operator", b, i>>, "OPERATOR", b) ]
  OBVIOUS
<1>3. /\ s \in Seq(BranchUserSet(c, b))
      /\ ToSet(s) = {Demo(<<"manager", b>>, "MANAGER", b)}
  <2>1. Demo(<<"manager", b>>, "MANAGER", b) \in BranchUserSet(c, b)
    BY DEF BranchUserSet
  <2> QED
    BY <1>1, <2>1 DEF ToSet
<1>4. /\ t \in Seq(BranchUserSet(c, b))
      /\ ToSet(t) = { Demo(<<"operator", b, i>>, "OPERATOR", b) : i \in 1..c.operators }
  <2>1. t \in [1..c.operators -> BranchUserSet(c, b)]
    BY <1>2 DEF BranchUserSet
  <2>2. t \in Seq(BranchUserSet(c, b))
    BY <1>0, <2>1
  <2>3. ToSet(t) = { t[i] : i \in 1..c.operators }
    BY <2>1 DEF ToSet
  <2> QED
    BY <1>2, <2>2, <2>3
<1>5. BranchUsers(c, b) = s \o t
  BY <1>1, <1>2 DEF BranchUsers
<1>6. s \o t \in Seq(BranchUserSet(c, b)) /\ ToSet(s \o t) = ToSet(s) \cup ToSet(t)
  BY <1>3, <1>4, Concatenated
<1> QED
  BY <1>3, <1>4, <1>5, <1>6 DEF BranchUserSet

\* The users the seed makes up, as a set.
LEMMA DemoUsersAre ==
  ASSUME NEW c \in Configs
  PROVE  DemoUsers(c) \in Seq(DemoUserSet(c)) /\ ToSet(DemoUsers(c)) = DemoUserSet(c)
<1>0. c.branches \in Nat
  BY ConfigFacts
<1>1. BaseUsers \in Seq(DemoUserSet(c)) /\ ToSet(BaseUsers) = BaseUserSet
  <2>1. BaseUserSet \subseteq DemoUserSet(c)
    BY DEF DemoUserSet
  <2>2. PICK p \in BaseUserSet, q \in BaseUserSet, r \in BaseUserSet, s \in BaseUserSet :
          BaseUsers = <<p, q, r, s>> /\ BaseUserSet = {p, q, r, s}
    BY DEF BaseUsers, BaseUserSet
  <2>3. <<p, q, r, s>> \in Seq(DemoUserSet(c))
    BY <2>1, <2>2
  <2>4. ToSet(<<p, q, r, s>>) = {p, q, r, s}
    BY DEF ToSet
  <2> QED
    BY <2>2, <2>3, <2>4
<1>2. PICK seqs : seqs = [ n \in 1..c.branches |-> BranchUsers(c, Blueprints[n]) ]
  OBVIOUS
<1>3. ASSUME NEW n \in 1..c.branches
      PROVE  /\ seqs[n] \in Seq(DemoUserSet(c))
             /\ ToSet(seqs[n]) = BranchUserSet(c, Blueprints[n])
  <2>1. BranchUserSet(c, Blueprints[n]) \subseteq DemoUserSet(c)
    BY DEF DemoUserSet
  <2>2. PICK s : s = seqs[n] /\ s = BranchUsers(c, Blueprints[n])
    BY <1>2
  <2>3. s \in Seq(BranchUserSet(c, Blueprints[n])) /\ ToSet(s) = BranchUserSet(c, Blueprints[n])
    BY <2>2, BranchUsersAre
  <2>4. s \in Seq(DemoUserSet(c))
    BY <2>1, <2>3
  <2> QED
    BY <2>2, <2>3, <2>4
<1>4. seqs \in Seq(Seq(DemoUserSet(c))) /\ Len(seqs) = c.branches
  <2>1. PICK S : S = Seq(DemoUserSet(c))
    OBVIOUS
  <2>2. seqs \in [1..c.branches -> S]
    BY <1>2, <1>3, <2>1
  <2> QED
    BY <1>0, <2>1, <2>2
<1>5. PICK t : t = FlattenSeq(seqs)
  OBVIOUS
<1>6. t \in Seq(DemoUserSet(c)) /\ ToSet(t) = UNION { ToSet(seqs[n]) : n \in 1..Len(seqs) }
  BY <1>4, <1>5, FlattenedEntries
<1>7. { ToSet(seqs[n]) : n \in 1..Len(seqs) } =
        { BranchUserSet(c, Blueprints[n]) : n \in 1..c.branches }
  BY <1>3, <1>4
<1>8. DemoUsers(c) = BaseUsers \o t
  BY <1>2, <1>5 DEF DemoUsers
<1>9. /\ BaseUsers \o t \in Seq(DemoUserSet(c))
      /\ ToSet(BaseUsers \o t) = ToSet(BaseUsers) \cup ToSet(t)
  BY <1>1, <1>6, Concatenated
<1> QED
  BY <1>1, <1>6, <1>7, <1>8, <1>9 DEF DemoUserSet

\* A user the seed makes up has an e-mail of its own, and is fit for its role.
LEMMA DemoUserFacts ==
  ASSUME NEW c \in Configs, NEW u \in DemoUserSet(c)
  PROVE  /\ u.email \in Emails /\ u.email # None
         /\ u.org = "demo" /\ u.role \in CanonicalRoles
         /\ u.branch \in Branches \cup {None}
         /\ u.role = "OPERATOR" => u.branch # None
         /\ \A v \in DemoUserSet(c) : v.email = u.email => v = u
<1>1. u.email \in Emails /\ u.email # None
  <2>1. u \in ToSet(DemoUsers(c))
    BY DemoUsersAre
  <2> QED
    BY <2>1, EmailAssumption DEF Emails
<1>2. \A v \in DemoUserSet(c) :
        \/ v = Demo(<<"admin">>, "ADMIN", None)
        \/ v = Demo(<<"manager">>, "MANAGER", Blueprints[1])
        \/ v = Demo(<<"operator">>, "OPERATOR", Blueprints[1])
        \/ v = Demo(<<"manager", "org">>, "MANAGER", None)
        \/ \E n \in 1..c.branches :
             \/ v = Demo(<<"manager", Blueprints[n]>>, "MANAGER", Blueprints[n])
             \/ \E i \in 1..c.operators :
                  v = Demo(<<"operator", Blueprints[n], i>>, "OPERATOR", Blueprints[n])
  BY DEF DemoUserSet, BaseUserSet, BranchUserSet
<1>3. \A n \in 1..c.branches : /\ Blueprints[n] \in Branches
                               /\ Blueprints[n] # "org" /\ Blueprints[n] # None
  BY ConfigFacts
<1>4. 1 \in 1..c.branches
  BY ConfigFacts
<1> DEFINE UserOf(e) == IF Len(e) = 1
                          THEN IF e[1] = "admin" THEN Demo(e, "ADMIN", None)
                               ELSE IF e[1] = "manager" THEN Demo(e, "MANAGER", Blueprints[1])
                               ELSE Demo(e, "OPERATOR", Blueprints[1])
                          ELSE IF Len(e) = 3 THEN Demo(e, "OPERATOR", e[2])
                          ELSE IF e[2] = "org" THEN Demo(e, "MANAGER", None)
                          ELSE Demo(e, "MANAGER", e[2])
<1>5. ASSUME NEW v \in DemoUserSet(c)
      PROVE  /\ v.org = "demo" /\ v.role \in CanonicalRoles
             /\ v.branch \in Branches \cup {None}
             /\ v.role = "OPERATOR" => v.branch # None
  BY <1>2, <1>3, <1>4 DEF Demo, CanonicalRoles
<1>6. ASSUME NEW v \in DemoUserSet(c)
      PROVE  v = UserOf(v.email)
  <2>1. CASE v = Demo(<<"admin">>, "ADMIN", None)
    BY <2>1 DEF Demo
  <2>2. CASE v = Demo(<<"manager">>, "MANAGER", Blueprints[1])
    BY <2>2 DEF Demo
  <2>3. CASE v = Demo(<<"operator">>, "OPERATOR", Blueprints[1])
    BY <2>3 DEF Demo
  <2>4. CASE v = Demo(<<"manager", "org">>, "MANAGER", None)
    BY <2>4 DEF Demo
  <2>5. ASSUME NEW n \in 1..c.branches,
               v = Demo(<<"manager", Blueprints[n]>>, "MANAGER", Blueprints[n])
        PROVE  v = UserOf(v.email)
    BY <1>3, <2>5 DEF Demo
  <2>6. ASSUME NEW n \in 1..c.branches, NEW i \in 1..c.operators,
               v = Demo(<<"operator", Blueprints[n], i>>, "OPERATOR", Blueprints[n])
        PROVE  v = UserOf(v.email)
    BY <2>6 DEF Demo
  <2> HIDE DEF UserOf
  <2> QED
    BY <1>2, <2>1, <2>2, <2>3, <2>4, <2>5, <2>6
<1>7. \A v \in DemoUserSet(c) : v.email = u.email => v = u
  <2> HIDE DEF UserOf
  <2> QED
    BY <1>6
<1> HIDE DEF UserOf
<1> QED
  BY <1>1, <1>5, <1>7

-------------------------------------------------------------------------------
(* The statements of a configuration.                                      *)

OptionalUserSet(c) ==
  { u \in { Default(c.adminEmail, "ADMIN", None),
            Default(c.userEmail, "OPERATOR", DefaultBranch) } : u.email # None }

RowStatements ==
  UNION { { EnsureRow(table, key) : key \in Orgs \cup Branches \cup Roles \cup Permissions } :
            table \in {"organization", "branch", "role", "permission"} }

GrantStatements(role) == {Revoke(role)} \cup { Grant(role, key) : key \in KeysOf(role) }

Statements(c) ==
  RowStatements \cup (UNION { GrantStatements(role) : role \in Roles })
  \cup { EnsureUser(u) : u \in OptionalUserSet(c) \cup DemoUserSet(c) }
  \cup {CheckEmails, DeleteMovements, CreateMovements}

\* What a statement does says what it holds.
LEMMA StatementFacts ==
  ASSUME NEW c, NEW s \in Statements(c)
  PROVE  /\ s.do = "revoke" => s.role \in Roles
         /\ s.do = "grant" => s.role \in Roles /\ s.key \in KeysOf(s.role)
         /\ s.do = "ensureUser" => /\ s.user \in OptionalUserSet(c) \cup DemoUserSet(c)
                                   /\ s = EnsureUser(s.user)
         /\ s.do \in {"ensureRow", "revoke", "grant", "ensureUser", "checkEmails",
                      "deleteMovements", "createMovements"}
         /\ s.do = "deleteMovements" => s = DeleteMovements
         /\ s.do = "createMovements" => s = CreateMovements
<1>1. CASE s \in RowStatements
  BY <1>1 DEF RowStatements, EnsureRow
<1>2. ASSUME NEW role \in Roles, s \in GrantStatements(role)
      PROVE  \/ s = Revoke(role) 
             \/ \E key \in KeysOf(role) : s = Grant(role, key)
  BY <1>2 DEF GrantStatements
<1>3. CASE \E role \in Roles : s = Revoke(role)
  BY <1>3 DEF Revoke
<1>4. CASE \E role \in Roles : \E key \in KeysOf(role) : s = Grant(role, key)
  BY <1>4 DEF Grant
<1>5. CASE \E u \in OptionalUserSet(c) \cup DemoUserSet(c) : s = EnsureUser(u)
  BY <1>5 DEF EnsureUser
<1>6. CASE s \in {CheckEmails, DeleteMovements, CreateMovements}
  BY <1>6 DEF CheckEmails, DeleteMovements, CreateMovements
<1>7. \/ s \in RowStatements
      \/ \E role \in Roles : s \in GrantStatements(role)
      \/ \E u \in OptionalUserSet(c) \cup DemoUserSet(c) : s = EnsureUser(u)
      \/ s \in {CheckEmails, DeleteMovements, CreateMovements}
  BY DEF Statements
<1>8. CASE \E role \in Roles : s \in GrantStatements(role)
  BY <1>2, <1>3, <1>4, <1>8
<1> QED
  BY <1>1, <1>5, <1>6, <1>7, <1>8

\* The users the environment names, one by e-mail if the e-mails differ.
LEMMA OptionalUsersAre ==
  ASSUME NEW c \in Configs
  PROVE  /\ OptionalUsers(c) \in Seq(OptionalUserSet(c))
         /\ ToSet(OptionalUsers(c)) = OptionalUserSet(c)
         /\ \A u \in OptionalUserSet(c) :
              /\ u.email \in EnvEmails
              /\ EmailsDiffer(c) =>
                   \A v \in OptionalUserSet(c) : v.email = u.email => v = u
<1>1. PICK admin, user : /\ admin = Default(c.adminEmail, "ADMIN", None)
                         /\ user = Default(c.userEmail, "OPERATOR", DefaultBranch)
  OBVIOUS
<1>2. admin.email = c.adminEmail /\ user.email = c.userEmail
  BY <1>1 DEF Default
<1>3. PICK s : s = IF c.adminEmail = None THEN << >> ELSE <<admin>>
  OBVIOUS
<1>4. PICK t : t = IF c.userEmail = None THEN << >> ELSE <<user>>
  OBVIOUS
<1>5. OptionalUserSet(c) = ToSet(s) \cup ToSet(t)
  <2>1. ToSet(s) = IF c.adminEmail = None THEN {} ELSE {admin}
    BY <1>3 DEF ToSet
  <2>2. ToSet(t) = IF c.userEmail = None THEN {} ELSE {user}
    BY <1>4 DEF ToSet
  <2> QED
    BY <1>1, <1>2, <2>1, <2>2 DEF OptionalUserSet
<1>6. s \in Seq(OptionalUserSet(c)) /\ t \in Seq(OptionalUserSet(c))
  <2>1. /\ c.adminEmail # None => admin \in OptionalUserSet(c)
        /\ c.userEmail # None => user \in OptionalUserSet(c)
    BY <1>1, <1>2 DEF OptionalUserSet
  <2>2. PICK S : S = OptionalUserSet(c)
    OBVIOUS
  <2>3. s \in Seq(S) /\ t \in Seq(S)
    BY <1>3, <1>4, <2>1, <2>2
  <2> QED
    BY <2>2, <2>3
<1>7. OptionalUsers(c) = s \o t
  BY <1>1, <1>3, <1>4 DEF OptionalUsers
<1>8. s \o t \in Seq(OptionalUserSet(c)) /\ ToSet(s \o t) = ToSet(s) \cup ToSet(t)
  BY <1>6, Concatenated
<1>9. c.adminEmail \in EnvEmails \cup {None} /\ c.userEmail \in EnvEmails \cup {None}
  <2>1. c \in ConfigRows
    BY SeedAssumption
  <2> QED
    BY <2>1, SeedAssumption DEF ConfigRows
<1>10. \A u \in OptionalUserSet(c) :
              /\ u.email \in EnvEmails
              /\ EmailsDiffer(c) =>
                   \A v \in OptionalUserSet(c) : v.email = u.email => v = u
  BY <1>1, <1>2, <1>9 DEF OptionalUserSet, EmailsDiffer
<1> QED
  BY <1>5, <1>7, <1>8, <1>10

\* The calls for some users, and the statements for some rows.
LEMMA CallsAre ==
  ASSUME NEW R, NEW users \in Seq(R), NEW S, \A u \in ToSet(users) : EnsureUser(u) \in S
  PROVE  /\ UserCalls(users) \in Seq(S)
         /\ ToSet(UserCalls(users)) = { EnsureUser(u) : u \in ToSet(users) }
<1>1. PICK n \in Nat : n = Len(users) /\ DOMAIN users = 1..n
  OBVIOUS
<1>2. UserCalls(users) = [ i \in 1..n |-> EnsureUser(users[i]) ]
  BY <1>1 DEF UserCalls
<1>3. ToSet(users) = { users[i] : i \in 1..n }
  BY <1>1 DEF ToSet
<1>4. PICK f : f = UserCalls(users)
  OBVIOUS
<1>5. f \in [1..n -> S] /\ \A i \in 1..n : f[i] = EnsureUser(users[i])
  BY <1>2, <1>3, <1>4
<1>6. f \in Seq(S)
  BY <1>1, <1>5
<1>7. ToSet(f) = { f[i] : i \in 1..n }
  BY <1>5 DEF ToSet
<1> QED
  BY <1>3, <1>4, <1>5, <1>6, <1>7

\* A row for each key.
LEMMA RowsAre ==
  ASSUME NEW R, NEW keys \in Seq(R), NEW table, NEW S, \A k \in R : EnsureRow(table, k) \in S
  PROVE  /\ Rows(table, keys) \in Seq(S)
         /\ \A s \in ToSet(Rows(table, keys)) : s.do = "ensureRow"
         /\ \A i \in 1..Len(keys) : EnsureRow(table, keys[i]) \in ToSet(Rows(table, keys))
<1>1. PICK n \in Nat : n = Len(keys) /\ DOMAIN keys = 1..n /\ \A i \in 1..n : keys[i] \in R
  OBVIOUS
<1>2. PICK f : f = Rows(table, keys) /\ f = [ i \in 1..n |-> EnsureRow(table, keys[i]) ]
  BY <1>1 DEF Rows
<1>3. f \in [1..n -> S] /\ \A i \in 1..n : f[i] = EnsureRow(table, keys[i])
  BY <1>1, <1>2
<1>4. f \in Seq(S)
  BY <1>3
<1>5. \A s \in ToSet(f) : s.do = "ensureRow"
  BY <1>3 DEF ToSet, EnsureRow
<1>6. \A i \in 1..n : EnsureRow(table, keys[i]) \in ToSet(f)
  BY <1>3 DEF ToSet
<1> QED
  BY <1>1, <1>2, <1>4, <1>5, <1>6

\* A role is granted what it is to have, and nothing else.
LEMMA GrantProgramIs ==
  ASSUME NEW role, NEW S, GrantStatements(role) \subseteq S
  PROVE  /\ GrantProgram(role) \in Seq(S)
         /\ ToSet(GrantProgram(role)) = GrantStatements(role)
<1>0. Revoke(role) \in S /\ \A k \in KeysOf(role) : Grant(role, k) \in S
  BY DEF GrantStatements
<1>1. PICK keys : keys = Chosen(Catalog, KeysOf(role))
  OBVIOUS
<1>2. keys \in Seq(Permissions) /\ ToSet(keys) = KeysOf(role)
  <2>1. Catalog \in Seq(Permissions)
    BY SeedAssumption
  <2>2. PICK K : K = KeysOf(role) /\ K \subseteq ToSet(Catalog)
    BY DEF KeysOf, Keys
  <2>3. Chosen(Catalog, K) \in Seq(Permissions) /\ ToSet(Chosen(Catalog, K)) = ToSet(Catalog) \cap K
    BY <2>1, ChosenEntries
  <2> QED
    BY <1>1, <2>2, <2>3
<1>3. PICK n \in Nat : n = Len(keys) /\ DOMAIN keys = 1..n
  BY <1>2
<1>4. { keys[i] : i \in 1..n } = KeysOf(role)
  BY <1>2, <1>3 DEF ToSet
<1>5. PICK f : f = [ i \in 1..n |-> Grant(role, keys[i]) ]
  OBVIOUS
<1>6. f \in [1..n -> S] /\ \A i \in 1..n : f[i] = Grant(role, keys[i])
  BY <1>0, <1>4, <1>5
<1>7. f \in Seq(S) /\ ToSet(f) = { f[i] : i \in 1..n }
  BY <1>6 DEF ToSet
<1>8. ToSet(f) = { Grant(role, k) : k \in KeysOf(role) }
  BY <1>4, <1>6, <1>7
<1>9. PICK g : g = <<Revoke(role)>>
  OBVIOUS
<1>10. g \in Seq(S) /\ ToSet(g) = {Revoke(role)}
  BY <1>0, <1>9 DEF ToSet
<1>11. GrantProgram(role) = g \o f
  BY <1>1, <1>3, <1>5, <1>9 DEF GrantProgram
<1>12. g \o f \in Seq(S) /\ ToSet(g \o f) = ToSet(g) \cup ToSet(f)
  BY <1>7, <1>10, Concatenated
<1> QED
  BY <1>8, <1>10, <1>11, <1>12 DEF GrantStatements

-------------------------------------------------------------------------------
(* The program of a configuration.                                         *)

\* Of one e-mail, the statements write no other user.
OnlyAs(S, u) == \A s \in S : s.do = "ensureUser" /\ s.user.email = u.email => s.user = u

\* The program writes u, and afterwards no other user with that e-mail.
Settled(program, u) ==
  \E i \in 1..Len(program) :
    /\ program[i] = EnsureUser(u)
    /\ \A j \in i..Len(program) :
         program[j].do = "ensureUser" /\ program[j].user.email = u.email => program[j].user = u

\* What is settled stays so when the statements that follow write no other user.
LEMMA SettledLonger ==
  ASSUME NEW S, NEW s \in Seq(S), NEW t \in Seq(S), NEW u, OnlyAs(ToSet(t), u),
         Settled(s, u) \/ EnsureUser(u) \in ToSet(t)
  PROVE  Settled(s \o t, u)
<1>1. PICK m \in Nat, n \in Nat, p \in Seq(S) :
        m = Len(s) /\ n = Len(t) /\ p = s \o t /\ Len(p) = m + n
  <2>1. s \o t \in Seq(S) /\ Len(s \o t) = Len(s) + Len(t) /\ Len(s) \in Nat /\ Len(t) \in Nat
    OBVIOUS
  <2> QED
    BY <2>1
<1>2. \A i \in 1..m + n : p[i] = IF i <= m THEN s[i] ELSE t[i - m]
  BY <1>1
<1>3. ASSUME NEW j \in m + 1..m + n, p[j].do = "ensureUser", p[j].user.email = u.email
      PROVE  p[j].user = u
  <2>1. PICK i \in 1..n : i = j - m
    OBVIOUS
  <2>2. p[j] = t[i]
    BY <1>2, <2>1
  <2>3. t[i] \in ToSet(t)
    <3>1. i \in DOMAIN t
      BY <1>1
    <3> QED
      BY <3>1 DEF ToSet
  <2> QED
    BY <1>3, <2>2, <2>3 DEF OnlyAs
<1>4. CASE Settled(s, u)
  <2>1. PICK i \in 1..m :
          /\ s[i] = EnsureUser(u)
          /\ \A j \in i..m :
               s[j].do = "ensureUser" /\ s[j].user.email = u.email => s[j].user = u
    BY <1>1, <1>4 DEF Settled
  <2>2. ASSUME NEW j \in i..m + n, p[j].do = "ensureUser", p[j].user.email = u.email
        PROVE  p[j].user = u
    <3>1. CASE j <= m
      BY <1>2, <2>1, <2>2, <3>1
    <3>2. CASE ~(j <= m)
      BY <1>3, <2>2, <3>2
    <3> QED
      BY <3>1, <3>2
  <2>3. i \in 1..m + n /\ p[i] = EnsureUser(u)
    BY <1>1, <1>2, <2>1
  <2> QED
    BY <1>1, <2>2, <2>3 DEF Settled
<1>5. CASE EnsureUser(u) \in ToSet(t)
  <2>1. PICK i \in 1..n : t[i] = EnsureUser(u)
    BY <1>1, <1>5 DEF ToSet
  <2>2. PICK k \in 1..m + n : k = m + i /\ p[k] = EnsureUser(u)
    <3>1. PICK k \in 1..m + n : k = m + i /\ k - m = i /\ ~(k <= m)
      OBVIOUS
    <3> QED
      BY <1>2, <2>1, <3>1
  <2>3. \A j \in k..m + n : j \in m + 1..m + n
    BY <1>1, <2>1, <2>2
  <2> QED
    BY <1>1, <1>3, <2>2, <2>3 DEF Settled
<1> QED
  BY <1>4, <1>5

\* The program in parts: up to the check of the e-mails, the optional users, what the
\* demo users need, and these.
LEMMA ProgramParts ==
  ASSUME NEW c \in Configs
  PROVE  \E a \in Seq(Statements(c)), b \in Seq(Statements(c)), d \in Seq(Statements(c)) :
           /\ Program(c) = a \o UserCalls(OptionalUsers(c)) \o b \o d
                             \o UserCalls(DemoUsers(c)) \o <<DeleteMovements, CreateMovements>>
           /\ \A role \in Roles : GrantStatements(role) \subseteq ToSet(a)
           /\ CheckEmails \in ToSet(a)
           /\ \A s \in ToSet(b) \cup ToSet(d) : s.do = "ensureRow"
           /\ \A n \in 1..c.branches : EnsureRow("branch", Blueprints[n]) \in ToSet(d)
<1> DEFINE S == Statements(c)
<1> USE SeedAssumption
<1>1. ASSUME NEW table \in {"organization", "branch", "role", "permission"},
             NEW key \in Orgs \cup Branches \cup Roles \cup Permissions
      PROVE  EnsureRow(table, key) \in S
  BY DEF Statements, RowStatements
<1>1a. CheckEmails \in S
  BY DEF Statements
<1> HIDE DEF S
<1>2. PICK r1 : r1 = << EnsureRow("organization", "default"), EnsureRow("branch", DefaultBranch) >>
  OBVIOUS
<1>3. r1 \in Seq(S)
  <2>1. EnsureRow("organization", "default") \in S /\ EnsureRow("branch", DefaultBranch) \in S
    BY <1>1
  <2> QED
    BY <1>2, <2>1
<1>4. Rows("role", RoleOrder) \in Seq(S)
  <2>1. RoleOrder \in Seq(Roles)
    BY DEF RoleOrder, Roles, CanonicalRoles
  <2>2. \A k \in Roles : EnsureRow("role", k) \in S
    BY <1>1
  <2> QED
    BY <2>1, <2>2, RowsAre
<1>5. Rows("permission", Catalog) \in Seq(S)
  <2>1. \A k \in Permissions : EnsureRow("permission", k) \in S
    BY <1>1
  <2> QED
    BY <2>1, RowsAre
<1>6. PICK seqs : seqs = [ i \in DOMAIN RoleOrder |-> GrantProgram(RoleOrder[i]) ]
  OBVIOUS
<1>7. /\ seqs \in Seq(Seq(S)) /\ Len(seqs) = 4
      /\ \A role \in Roles : \E i \in 1..4 : ToSet(seqs[i]) = GrantStatements(role)
  <2>1. DOMAIN RoleOrder = 1..4 /\ \A i \in 1..4 : RoleOrder[i] \in Roles
    BY DEF RoleOrder, Roles, CanonicalRoles
  <2>2. \A role \in Roles : GrantStatements(role) \subseteq S
    BY DEF S, Statements
  <2>3. \A role \in Roles : /\ GrantProgram(role) \in Seq(S)
                            /\ ToSet(GrantProgram(role)) = GrantStatements(role)
    BY <2>2, GrantProgramIs
  <2>4. PICK Q : Q = Seq(S)
    OBVIOUS
  <2>5. seqs \in [1..4 -> Q]
    BY <1>6, <2>1, <2>3, <2>4
  <2>6. \A role \in Roles : \E i \in 1..4 : RoleOrder[i] = role
    BY DEF RoleOrder, Roles, CanonicalRoles
  <2>7. seqs \in Seq(Q) /\ Len(seqs) = 4
    <3>1. PICK n \in Nat : n = 4
      OBVIOUS
    <3>2. seqs \in [1..n -> Q]
      BY <2>5, <3>1
    <3>3. seqs \in Seq(Q) /\ Len(seqs) = n
      BY <3>2
    <3> QED
      BY <3>1, <3>3
  <2>8. \A i \in 1..4 : seqs[i] = GrantProgram(RoleOrder[i])
    BY <1>6, <2>1
  <2>9. \A role \in Roles : \E i \in 1..4 : ToSet(seqs[i]) = GrantStatements(role)
    BY <2>3, <2>6, <2>8
  <2> QED
    BY <2>4, <2>7, <2>9
<1>8. PICK g : g = FlattenSeq(seqs)
  OBVIOUS
<1>9. g \in Seq(S) /\ \A role \in Roles : GrantStatements(role) \subseteq ToSet(g)
  <2>1. g \in Seq(S) /\ ToSet(g) = UNION { ToSet(seqs[i]) : i \in 1..Len(seqs) }
    BY <1>7, <1>8, FlattenedEntries
  <2> QED
    BY <1>7, <2>1
<1>10. PICK a, check :
         /\ a = r1 \o Rows("role", RoleOrder) \o Rows("permission", Catalog) \o g \o check
         /\ check = << CheckEmails >>
  OBVIOUS
<1>11. /\ a \in Seq(S) /\ \A role \in Roles : GrantStatements(role) \subseteq ToSet(a)
       /\ CheckEmails \in ToSet(a)
  <2>1. PICK p \in Seq(S) : p = r1 \o Rows("role", RoleOrder) \o Rows("permission", Catalog)
    BY <1>3, <1>4, <1>5, Concatenated
  <2>2. PICK q \in Seq(S) : q = p \o g /\ ToSet(q) = ToSet(p) \cup ToSet(g)
    <3>1. p \o g \in Seq(S) /\ ToSet(p \o g) = ToSet(p) \cup ToSet(g)
      BY <1>9, Concatenated
    <3> QED
      BY <3>1
  <2>3. check \in Seq(S) /\ CheckEmails \in ToSet(check)
    BY <1>1a, <1>10 DEF ToSet
  <2>4. a = q \o check
    BY <1>10, <2>1, <2>2
  <2>5. q \o check \in Seq(S) /\ ToSet(q \o check) = ToSet(q) \cup ToSet(check)
    BY <2>3, Concatenated
  <2> QED
    BY <1>9, <2>2, <2>3, <2>4, <2>5
<1>12. PICK b : b = << EnsureRow("organization", "demo") >>
  OBVIOUS
<1>13. b \in Seq(S) /\ \A s \in ToSet(b) : s.do = "ensureRow"
  <2>1. EnsureRow("organization", "demo") \in S
    BY <1>1
  <2>2. ToSet(b) = {EnsureRow("organization", "demo")}
    BY <1>12 DEF ToSet
  <2> QED
    BY <1>12, <2>1, <2>2 DEF EnsureRow
<1>14. PICK d : d = Rows("branch", DemoBranches(c))
  OBVIOUS
<1>15. /\ d \in Seq(S) /\ \A s \in ToSet(d) : s.do = "ensureRow"
       /\ \A n \in 1..c.branches : EnsureRow("branch", Blueprints[n]) \in ToSet(d)
  <2>1. PICK keys \in Seq(Branches) : /\ keys = DemoBranches(c) /\ Len(keys) = c.branches
                                      /\ \A n \in 1..c.branches : keys[n] = Blueprints[n]
    <3>1. PICK m \in Nat : m = c.branches /\ m <= Len(Blueprints) /\ m >= 1
      BY ConfigFacts
    <3>2. PICK s \in Seq(Branches) : s = Blueprints
      BY SeedAssumption
    <3>3. /\ SubSeq(s, 1, m) \in Seq(Branches) /\ Len(SubSeq(s, 1, m)) = m
          /\ \A n \in 1..m : SubSeq(s, 1, m)[n] = s[n]
      BY <3>1, <3>2
    <3>4. DemoBranches(c) = SubSeq(s, 1, m)
      BY <3>1, <3>2 DEF DemoBranches
    <3> QED
      BY <3>1, <3>2, <3>3, <3>4
  <2>2. \A k \in Branches : EnsureRow("branch", k) \in S
    BY <1>1
  <2>3. /\ d \in Seq(S) /\ \A s \in ToSet(d) : s.do = "ensureRow"
        /\ \A i \in 1..Len(keys) : EnsureRow("branch", keys[i]) \in ToSet(d)
    BY <1>14, <2>1, <2>2, RowsAre
  <2> QED
    BY <2>1, <2>3
<1>16. Program(c) = a \o UserCalls(OptionalUsers(c)) \o b \o d
                      \o UserCalls(DemoUsers(c)) \o <<DeleteMovements, CreateMovements>>
  BY <1>2, <1>6, <1>8, <1>10, <1>12, <1>14 DEF Program
<1> QED
  BY <1>11, <1>13, <1>15, <1>16 DEF S

\* All that the proofs below use of a program.
LEMMA ProgramFacts ==
  ASSUME NEW c \in Configs
  PROVE  \E p \in Seq(Statements(c)), n \in Nat :
           /\ Programs[c] = p /\ Len(p) = n + 2
           /\ p[n + 1] = DeleteMovements /\ p[n + 2] = CreateMovements
           /\ \A role \in Roles : GrantStatements(role) \subseteq ToSet(p)
           /\ CheckEmails \in ToSet(p)
           /\ EmailsDiffer(c) => \A u \in SeedUsers(c) : Settled(p, u)
           /\ \A i \in 1..c.branches : EnsureRow("branch", Blueprints[i]) \in ToSet(p)
<1> DEFINE S == Statements(c)
<1>1. \A u \in OptionalUserSet(c) \cup DemoUserSet(c) : EnsureUser(u) \in S
  BY DEF Statements
<1>2. PICK o \in Seq(S) : /\ o = UserCalls(OptionalUsers(c))
                          /\ ToSet(o) = { EnsureUser(u) : u \in OptionalUserSet(c) }
  <2>1. /\ OptionalUsers(c) \in Seq(OptionalUserSet(c))
        /\ ToSet(OptionalUsers(c)) = OptionalUserSet(c)
    BY OptionalUsersAre
  <2> QED
    BY <1>1, <2>1, CallsAre
<1>3. PICK h \in Seq(S) : /\ h = UserCalls(DemoUsers(c))
                          /\ ToSet(h) = { EnsureUser(u) : u \in DemoUserSet(c) }
  <2>1. DemoUsers(c) \in Seq(DemoUserSet(c)) /\ ToSet(DemoUsers(c)) = DemoUserSet(c)
    BY DemoUsersAre
  <2> QED
    BY <1>1, <2>1, CallsAre
<1>4. PICK e \in Seq(S) : /\ e = <<DeleteMovements, CreateMovements>> /\ Len(e) = 2
                          /\ ToSet(e) = {DeleteMovements, CreateMovements}
  <2>1. DeleteMovements \in S /\ CreateMovements \in S
    BY DEF Statements
  <2>2. ToSet(<<DeleteMovements, CreateMovements>>) = {DeleteMovements, CreateMovements}
    BY DEF ToSet
  <2> HIDE DEF S
  <2>3. /\ <<DeleteMovements, CreateMovements>> \in Seq(S)
        /\ Len(<<DeleteMovements, CreateMovements>>) = 2
    BY <2>1
  <2> QED
    BY <2>2, <2>3
<1>5. PICK a \in Seq(S), b \in Seq(S), d \in Seq(S) :
        /\ Program(c) = a \o o \o b \o d \o h \o e
        /\ \A role \in Roles : GrantStatements(role) \subseteq ToSet(a)
        /\ CheckEmails \in ToSet(a)
        /\ \A s \in ToSet(b) \cup ToSet(d) : s.do = "ensureRow"
        /\ \A n \in 1..c.branches : EnsureRow("branch", Blueprints[n]) \in ToSet(d)
  <2>1. PICK a \in Seq(Statements(c)), b \in Seq(Statements(c)), d \in Seq(Statements(c)) :
           /\ Program(c) = a \o UserCalls(OptionalUsers(c)) \o b \o d
                             \o UserCalls(DemoUsers(c)) \o <<DeleteMovements, CreateMovements>>
           /\ \A role \in Roles : GrantStatements(role) \subseteq ToSet(a)
           /\ CheckEmails \in ToSet(a)
           /\ \A s \in ToSet(b) \cup ToSet(d) : s.do = "ensureRow"
           /\ \A n \in 1..c.branches : EnsureRow("branch", Blueprints[n]) \in ToSet(d)
    BY ProgramParts
  <2>2. Program(c) = a \o o \o b \o d \o h \o e
    BY <1>2, <1>3, <1>4, <2>1
  <2> QED
    BY <2>1, <2>2
<1> HIDE DEF S
<1>6. PICK p1 \in Seq(S) : p1 = a \o o /\ ToSet(p1) = ToSet(a) \cup ToSet(o)
  <2>1. a \o o \in Seq(S) /\ ToSet(a \o o) = ToSet(a) \cup ToSet(o)
    BY Concatenated
  <2> QED
    BY <2>1
<1>7. PICK p2 \in Seq(S) : p2 = p1 \o b /\ ToSet(p2) = ToSet(p1) \cup ToSet(b)
  <2>1. p1 \o b \in Seq(S) /\ ToSet(p1 \o b) = ToSet(p1) \cup ToSet(b)
    BY Concatenated
  <2> QED
    BY <2>1
<1>8. PICK p3 \in Seq(S) : p3 = p2 \o d /\ ToSet(p3) = ToSet(p2) \cup ToSet(d)
  <2>1. p2 \o d \in Seq(S) /\ ToSet(p2 \o d) = ToSet(p2) \cup ToSet(d)
    BY Concatenated
  <2> QED
    BY <2>1
<1>9. PICK p4 \in Seq(S) : p4 = p3 \o h /\ ToSet(p4) = ToSet(p3) \cup ToSet(h)
  <2>1. p3 \o h \in Seq(S) /\ ToSet(p3 \o h) = ToSet(p3) \cup ToSet(h)
    BY Concatenated
  <2> QED
    BY <2>1
<1>10. PICK p \in Seq(S) : p = p4 \o e /\ ToSet(p) = ToSet(p4) \cup ToSet(e)
  <2>1. p4 \o e \in Seq(S) /\ ToSet(p4 \o e) = ToSet(p4) \cup ToSet(e)
    BY Concatenated
  <2> QED
    BY <2>1
<1>11. Programs[c] = p
  BY <1>5, <1>6, <1>7, <1>8, <1>9, <1>10 DEF Programs
<1>12. PICK n \in Nat : /\ n = Len(p4) /\ Len(p) = n + 2
                        /\ p[n + 1] = DeleteMovements /\ p[n + 2] = CreateMovements
  <2>1. PICK n \in Nat : n = Len(p4)
    OBVIOUS
  <2>2. /\ Len(p4 \o e) = Len(p4) + Len(e)
        /\ \A i \in 1..Len(e) : (p4 \o e)[Len(p4) + i] = e[i]
    BY Concatenated
  <2>3. e[1] = DeleteMovements /\ e[2] = CreateMovements
    BY <1>4
  <2>4. Len(p) = n + 2 /\ \A i \in 1..2 : p[n + i] = e[i]
    BY <1>4, <1>10, <2>1, <2>2
  <2>5. p[n + 1] = e[1] /\ p[n + 2] = e[2]
    <3>1. 1 \in 1..2 /\ 2 \in 1..2
      OBVIOUS
    <3> QED
      BY <2>4, <3>1
  <2> QED
    BY <2>1, <2>3, <2>4, <2>5
<1>13. CheckEmails \in ToSet(p) /\ \A role \in Roles : GrantStatements(role) \subseteq ToSet(p)
  BY <1>5, <1>6, <1>7, <1>8, <1>9, <1>10
<1>14. ASSUME EmailsDiffer(c), NEW u \in SeedUsers(c)
       PROVE  Settled(p, u)
  <2>1. OnlyAs(ToSet(b), u) /\ OnlyAs(ToSet(d), u) /\ OnlyAs(ToSet(e), u)
    <3>1. /\ \A s \in ToSet(b) : s.do # "ensureUser"
          /\ \A s \in ToSet(d) : s.do # "ensureUser"
      BY <1>5
    <3>2. \A s \in ToSet(e) : s.do # "ensureUser"
      <4>1. DeleteMovements.do # "ensureUser" /\ CreateMovements.do # "ensureUser"
        BY DEF DeleteMovements, CreateMovements
      <4>2. ToSet(e) = {DeleteMovements, CreateMovements}
        BY <1>4
      <4> QED
        BY <4>1, <4>2
    <3> QED
      BY <3>1, <3>2 DEF OnlyAs
  <2>2. CASE u \in DemoUserSet(c)
    <3>1. EnsureUser(u) \in ToSet(h)
      BY <1>3, <2>2
    <3>2. OnlyAs(ToSet(h), u)
      BY <1>3, <2>2, DemoUserFacts DEF OnlyAs, EnsureUser
    <3>3. Settled(p4, u)
      BY <1>9, <3>1, <3>2, SettledLonger
    <3> QED
      BY <1>10, <2>1, <3>3, SettledLonger
  <2>3. CASE u \notin DemoUserSet(c)
    <3>1. u \in OptionalUserSet(c) /\ \A v \in DemoUserSet(c) : v.email # u.email
      BY <2>3, OptionalUsersAre, DemoUsersAre DEF SeedUsers
    <3>2. EnsureUser(u) \in ToSet(o)
      BY <1>2, <3>1
    <3>3. OnlyAs(ToSet(o), u)
      BY <1>2, <1>14, <3>1, OptionalUsersAre DEF OnlyAs, EnsureUser
    <3>4. OnlyAs(ToSet(h), u)
      BY <1>3, <3>1 DEF OnlyAs, EnsureUser
    <3>5. Settled(p1, u)
      BY <1>6, <3>2, <3>3, SettledLonger
    <3>6. Settled(p2, u)
      BY <1>7, <2>1, <3>5, SettledLonger
    <3>7. Settled(p3, u)
      BY <1>8, <2>1, <3>6, SettledLonger
    <3>8. Settled(p4, u)
      BY <1>9, <3>4, <3>7, SettledLonger
    <3> QED
      BY <1>10, <2>1, <3>8, SettledLonger
  <2> QED
    BY <2>2, <2>3
<1>15. \A i \in 1..c.branches : EnsureRow("branch", Blueprints[i]) \in ToSet(p)
  BY <1>5, <1>8, <1>9, <1>10
<1> QED
  BY <1>11, <1>12, <1>13, <1>14, <1>15 DEF S

-------------------------------------------------------------------------------
(* A run that the service does not disturb.  What a statement has done     *)
(* stays done, unless a later one writes the same user otherwise.          *)

Statement(i) == Programs[run.config][i]

\* A user as ensureUserWithRole leaves it.
RowOf(u) == [org |-> u.org, branch |-> u.branch, active |-> TRUE, roles |-> {u.role}]

RowsDone ==
  \A i \in 1..run.pc - 1 : Statement(i).do = "ensureRow" => Statement(i).row \in rows

\* A run that has passed the check has two e-mails for two users.
Checked ==
  \A i \in 1..run.pc - 1 : Statement(i).do = "checkEmails" => EmailsDiffer(run.config)

GrantsDone ==
  \A i \in 1..run.pc - 1 :
    /\ Statement(i).do = "revoke" =>
         grants[Statement(i).role] \subseteq KeysOf(Statement(i).role)
    /\ Statement(i).do = "grant" => Statement(i).key \in grants[Statement(i).role]

\* From statement i to the current one, none writes another user with the e-mail of u.
StillLast(i, u) ==
  \A j \in i..run.pc :
    /\ j <= Len(Programs[run.config])
    /\ Statement(j).do = "ensureUser" /\ Statement(j).user.email = u.email
    => Statement(j).user = u

UsersDone ==
  \A i \in 1..run.pc - 1 :
    Statement(i).do = "ensureUser" /\ StillLast(i, Statement(i).user) =>
      account[Statement(i).user.email] = RowOf(Statement(i).user)

UserBegun ==
  AtUser("assign") \/ AtUser("unassign") =>
    LET u == Current.user
        a == account[u.email]
    IN  a.org = u.org /\ a.branch = u.branch /\ a.active = TRUE

MovementsDone ==
  /\ run.pc = Len(Programs[run.config]) => movements = {}
  /\ run.pc = Len(Programs[run.config]) + 1 => movements = DemoMovements(run.config)

InProgram ==
  run.config # None =>
    run.config \in Configs /\ run.pc \in 1..Len(Programs[run.config]) + 1

DoneOK ==
  run.config # None /\ undisturbed =>
    RowsDone /\ Checked /\ GrantsDone /\ UsersDone /\ UserBegun /\ MovementsDone

\* What there is to know of a run that has started.
LEMMA RunFacts ==
  ASSUME InProgram, run.config # None
  PROVE  \E p \in Seq(Statements(run.config)), n \in Nat :
           /\ run.config \in Configs /\ run.pc \in 1..n + 3
           /\ Programs[run.config] = p /\ Len(p) = n + 2
           /\ p[n + 1] = DeleteMovements /\ p[n + 2] = CreateMovements
           /\ \A role \in Roles : GrantStatements(role) \subseteq ToSet(p)
           /\ CheckEmails \in ToSet(p)
           /\ EmailsDiffer(run.config) => \A u \in SeedUsers(run.config) : Settled(p, u)
           /\ \A b \in 1..run.config.branches :
                EnsureRow("branch", Blueprints[b]) \in ToSet(p)
           /\ \A i \in 1..n + 2 : Statement(i) \in Statements(run.config) /\ Statement(i) = p[i]
           /\ Running <=> run.pc \in 1..n + 2
           /\ Current = Statement(run.pc)
<1>1. run.config \in Configs /\ run.pc \in 1..Len(Programs[run.config]) + 1
  BY DEF InProgram
<1>2. PICK p \in Seq(Statements(run.config)), n \in Nat :
           /\ Programs[run.config] = p /\ Len(p) = n + 2
           /\ p[n + 1] = DeleteMovements /\ p[n + 2] = CreateMovements
           /\ \A role \in Roles : GrantStatements(role) \subseteq ToSet(p)
           /\ CheckEmails \in ToSet(p)
           /\ EmailsDiffer(run.config) => \A u \in SeedUsers(run.config) : Settled(p, u)
           /\ \A b \in 1..run.config.branches :
                EnsureRow("branch", Blueprints[b]) \in ToSet(p)
  BY <1>1, ProgramFacts
<1>3. run.pc \in 1..n + 3 /\ (Running <=> run.pc \in 1..n + 2)
  BY <1>1, <1>2 DEF Running
<1>4. \A i \in 1..n + 2 : Statement(i) \in Statements(run.config) /\ Statement(i) = p[i]
  BY <1>2 DEF Statement
<1>5. Current = Statement(run.pc)
  BY DEF Current, Statement
<1> QED
  BY <1>1, <1>2, <1>3, <1>4, <1>5

\* A statement that writes a user writes one of the configuration, by an e-mail of the table.
LEMMA UserFacts ==
  ASSUME InProgram, run.config # None, NEW i \in 1..Len(Programs[run.config]),
         Statement(i).do = "ensureUser"
  PROVE  Statement(i).user.email \in Emails
<1>1. Statement(i) \in Statements(run.config) /\ run.config \in Configs
  BY RunFacts
<1>2. Statement(i).user \in OptionalUserSet(run.config) \cup DemoUserSet(run.config)
  BY <1>1, StatementFacts
<1>3. EnvEmails \subseteq Emails
  BY DEF Emails
<1> QED
  BY <1>1, <1>2, <1>3, OptionalUsersAre, DemoUserFacts

\* A statement is done, or one of ensureUserWithRole's.
LEMMA Onward ==
  ASSUME SeedOK, InProgram, Running, Continue \/ (\E step : GoTo(step))
  PROVE  /\ run'.config = run.config /\ run'.config # None
         /\ run'.pc = IF Continue THEN run.pc + 1 ELSE run.pc
         /\ InProgram'
         /\ \A i : Statement(i)' = Statement(i)
         /\ Programs[run'.config] = Programs[run.config]
<1>1. run.config # None /\ run.pc <= Len(Programs[run.config])
  BY DEF Running
<1>2. PICK n \in Nat : Len(Programs[run.config]) = n + 2 /\ run.pc \in 1..n + 2
                       /\ run.config \in Configs
  BY <1>1, RunFacts
<1>3. CASE Continue
  <2>1. run'.config = run.config /\ run'.pc = run.pc + 1
    BY <1>3 DEF SeedOK, IsRun, Continue
  <2>2. InProgram'
    BY <1>2, <2>1 DEF InProgram
  <2> QED
    BY <1>1, <1>3, <2>1, <2>2 DEF Statement
<1>4. CASE ~Continue
  <2>1. PICK step : GoTo(step)
    BY <1>4
  <2>2. run'.config = run.config /\ run'.pc = run.pc
    BY <2>1, GoToStep
  <2>3. InProgram'
    BY <1>2, <2>2 DEF InProgram
  <2> QED
    BY <1>1, <1>4, <2>2, <2>3 DEF Statement
<1> QED
  BY <1>3, <1>4

\* A step of the seed, whichever it is.
LEMMA SeedStepShape ==
  ASSUME SeedStep
  PROVE  /\ Running /\ undisturbed' = undisturbed
         /\ Continue \/ (\E step : GoTo(step))
         /\ rows \subseteq rows'
         /\ Continue /\ Current.do = "ensureRow" => Current.row \in rows'
         /\ Continue /\ Current.do = "checkEmails" => EmailsDiffer(run.config)
BY DEF SeedStep, UpsertRow, RevokeOthers, UpsertGrant, UpsertUser, UpsertUserRole,
       PassCheck, DeleteOtherRoles, DeleteDemoMovements, CreateDemoMovements, AtUser

\* The rows are there.
LEMMA RowsStep ==
  ASSUME SeedOK, InProgram, RowsDone, SeedStep
  PROVE  RowsDone'
<1> SUFFICES ASSUME NEW i \in 1..run'.pc - 1, Statement(i).do = "ensureRow"
             PROVE  Statement(i).row \in rows'
  BY SeedStepShape, Onward DEF RowsDone
<1>1. run.pc \in Nat /\ Current = Statement(run.pc)
  BY SeedStepShape, RunFacts DEF Running
<1>2. run'.pc = IF Continue THEN run.pc + 1 ELSE run.pc
  BY SeedStepShape, Onward
<1>3. CASE i \in 1..run.pc - 1
  BY <1>3, SeedStepShape DEF RowsDone
<1>4. CASE i \notin 1..run.pc - 1
  <2>1. Continue /\ i = run.pc
    BY <1>1, <1>2, <1>4
  <2> QED
    BY <1>1, <2>1, SeedStepShape
<1> QED
  BY <1>3, <1>4

\* The e-mails were compared.
LEMMA CheckedStep ==
  ASSUME SeedOK, InProgram, Checked, SeedStep
  PROVE  Checked'
<1> SUFFICES ASSUME NEW i \in 1..run'.pc - 1, Statement(i).do = "checkEmails"
             PROVE  EmailsDiffer(run.config)
  BY SeedStepShape, Onward DEF Checked, EmailsDiffer
<1>1. run.pc \in Nat /\ Current = Statement(run.pc)
  BY SeedStepShape, RunFacts DEF Running
<1>2. run'.pc = IF Continue THEN run.pc + 1 ELSE run.pc
  BY SeedStepShape, Onward
<1>3. CASE i \in 1..run.pc - 1
  BY <1>3 DEF Checked
<1>4. CASE i \notin 1..run.pc - 1
  <2>1. Continue /\ i = run.pc
    BY <1>1, <1>2, <1>4
  <2> QED
    BY <1>1, <2>1, SeedStepShape
<1> QED
  BY <1>3, <1>4

\* What became of the grants.
LEMMA GrantsOnward ==
  ASSUME SeedOK, InProgram, SeedStep, NEW role \in Roles
  PROVE  /\ grants'[role] \subseteq grants[role] \cup KeysOf(role)
         /\ grants[role] \cap KeysOf(role) \subseteq grants'[role]
         /\ Continue /\ Current.do = "revoke" /\ Current.role = role =>
              grants'[role] \subseteq KeysOf(role)
         /\ Continue /\ Current.do = "grant" /\ Current.role = role =>
              Current.key \in grants'[role]
<1>1. Current.do = "grant" => Current.role \in Roles /\ Current.key \in KeysOf(Current.role)
  <2>1. Current \in Statements(run.config)
    BY SeedStepShape, RunFacts DEF Running
  <2> QED
    BY <2>1, StatementFacts
<1>2. CASE RevokeOthers
  BY <1>2 DEF RevokeOthers, Kept, SeedOK
<1>3. CASE UpsertGrant
  BY <1>1, <1>3 DEF UpsertGrant, SeedOK
<1>4. CASE ~RevokeOthers /\ ~UpsertGrant
  <2>1. grants' = grants
    BY <1>4 DEF SeedStep, UpsertRow, UpsertUser, UpsertUserRole, PassCheck, DeleteOtherRoles,
                DeleteDemoMovements, CreateDemoMovements
  <2>2. Current.do \notin {"revoke", "grant"}
    BY <1>4 DEF SeedStep, UpsertRow, UpsertUser, UpsertUserRole, PassCheck, DeleteOtherRoles,
                DeleteDemoMovements, CreateDemoMovements, AtUser
  <2> QED
    BY <2>1, <2>2
<1> QED
  BY <1>2, <1>3, <1>4

\* A role that is revoked has nothing else, and a key that is granted stays.
LEMMA GrantsStep ==
  ASSUME SeedOK, InProgram, GrantsDone, SeedStep
  PROVE  GrantsDone'
<1> SUFFICES ASSUME NEW i \in 1..run'.pc - 1
             PROVE  /\ Statement(i).do = "revoke" =>
                         grants'[Statement(i).role] \subseteq KeysOf(Statement(i).role)
                    /\ Statement(i).do = "grant" =>
                         Statement(i).key \in grants'[Statement(i).role]
  BY SeedStepShape, Onward DEF GrantsDone
<1>1. PICK n \in Nat : /\ run.pc \in 1..n + 2 /\ Current = Statement(run.pc)
                       /\ \A k \in 1..n + 2 : Statement(k) \in Statements(run.config)
  BY SeedStepShape, RunFacts DEF Running
<1>2. run'.pc = IF Continue THEN run.pc + 1 ELSE run.pc
  BY SeedStepShape, Onward
<1>3. i \in 1..n + 2
  BY <1>1, <1>2
<1>4. /\ Statement(i).do = "revoke" => Statement(i).role \in Roles
      /\ Statement(i).do = "grant" => /\ Statement(i).role \in Roles
                                      /\ Statement(i).key \in KeysOf(Statement(i).role)
  BY <1>1, <1>3, StatementFacts
<1>5. CASE i \in 1..run.pc - 1
  BY <1>4, <1>5, GrantsOnward DEF GrantsDone
<1>6. CASE i \notin 1..run.pc - 1
  <2>1. Continue /\ Statement(i) = Current
    BY <1>1, <1>2, <1>6
  <2> QED
    BY <1>4, <2>1, GrantsOnward
<1> QED
  BY <1>5, <1>6

\* The movements are deleted, then made again.
LEMMA MovementsStep ==
  ASSUME SeedOK, InProgram, MovementsDone, SeedStep
  PROVE  MovementsDone'
<1>1. PICK n \in Nat : /\ Len(Programs[run.config]) = n + 2 /\ run.pc \in 1..n + 2
                       /\ run.pc = n + 1 => Current = DeleteMovements
                       /\ run.pc = n + 2 => Current = CreateMovements
  BY SeedStepShape, RunFacts DEF Running
<1>2. /\ run'.pc = IF Continue THEN run.pc + 1 ELSE run.pc
      /\ run'.config = run.config /\ Len(Programs[run.config])' = n + 2
  BY <1>1, SeedStepShape, Onward
<1>3. CASE run.pc = n + 1
  <2>1. Current.do = "deleteMovements"
    BY <1>1, <1>3 DEF DeleteMovements
  <2>2. movements' = {}
    BY <2>1 DEF SeedStep, UpsertRow, RevokeOthers, UpsertGrant, UpsertUser, UpsertUserRole,
                PassCheck, DeleteOtherRoles, DeleteDemoMovements, CreateDemoMovements, AtUser
  <2> QED
    BY <1>2, <1>3, <2>2 DEF MovementsDone
<1>4. CASE run.pc = n + 2
  <2>1. Current.do = "createMovements"
    BY <1>1, <1>4 DEF CreateMovements
  <2>2. Continue /\ movements' = movements \cup DemoMovements(run.config)
    BY <2>1 DEF SeedStep, UpsertRow, RevokeOthers, UpsertGrant, UpsertUser, UpsertUserRole,
                PassCheck, DeleteOtherRoles, DeleteDemoMovements, CreateDemoMovements, AtUser
  <2>3. movements' = DemoMovements(run.config)
    BY <1>1, <1>4, <2>2 DEF MovementsDone
  <2> QED
    BY <1>2, <1>4, <2>2, <2>3 DEF MovementsDone
<1>5. CASE run.pc \in 1..n
  BY <1>1, <1>2, <1>5 DEF MovementsDone
<1> QED
  BY <1>1, <1>3, <1>4, <1>5

\* The row of a user, with its roles written.
LEMMA RowWritten ==
  ASSUME SeedOK, NEW e \in Emails, NEW s,
         account[e] # None \/ Written(e), account' = [ account EXCEPT ![e].roles = s ]
  PROVE  account'[e] = [ org |-> account[e].org, branch |-> account[e].branch,
                         active |-> account[e].active, roles |-> s ]
<1>1. PICK r : r = account[e] /\ IsRow(r)
  BY DEF SeedOK
<1>2. account'[e] = [ r EXCEPT !.roles = s ]
  BY <1>1 DEF SeedOK
<1>3. r = [org |-> r.org, branch |-> r.branch, active |-> r.active, roles |-> r.roles]
  BY <1>1 DEF IsRow
<1>4. [ r EXCEPT !.roles = s ] =
        [org |-> r.org, branch |-> r.branch, active |-> r.active, roles |-> s]
  BY <1>3
<1> QED
  BY <1>1, <1>2, <1>4

\* A row as the seed leaves it is a row.
LEMMA RowOfUser ==
  ASSUME NEW c \in Configs, NEW u \in OptionalUserSet(c) \cup DemoUserSet(c)
  PROVE  RowOf(u) # None
<1>1. u.org \in Orgs /\ u.branch \in Branches \cup {None} /\ u.role \in Roles
  <2>1. CASE u \in DemoUserSet(c)
    BY <2>1, DemoUserFacts, SeedAssumption DEF Roles
  <2>2. CASE u \in OptionalUserSet(c)
    BY <2>2, SeedAssumption DEF OptionalUserSet, Default, Roles, CanonicalRoles
  <2> QED
    BY <2>1, <2>2
<1>2. RowOf(u) \in UserRows
  BY <1>1 DEF RowOf, UserRows
<1> QED
  BY <1>2, SeedAssumption

\* What ensureUserWithRole has made of the current user, and of no other.
LEMMA UsersOnward ==
  ASSUME SeedOK, InProgram, UserBegun, undisturbed, SeedStep
  PROVE  /\ \A f \in Emails : \/ Current.do = "ensureUser" /\ f = Current.user.email
                             \/ account'[f] = account[f]
         /\ Current.do = "ensureUser" /\ account[Current.user.email] = RowOf(Current.user) =>
              account'[Current.user.email] = RowOf(Current.user)
         /\ Continue /\ Current.do = "ensureUser" =>
              account'[Current.user.email] = RowOf(Current.user)
         /\ UserBegun'
<1> DEFINE u == Current.user
           e == u.email
<1>1. Current.do = "ensureUser" => e \in Emails
  BY SeedStepShape, RunFacts, UserFacts DEF Running
<1>2. Current.do = "ensureUser" => RowOf(u) # None
  <2>1. Current \in Statements(run.config) /\ run.config \in Configs
    BY SeedStepShape, RunFacts DEF Running
  <2> QED
    BY <2>1, StatementFacts, RowOfUser
<1>3. CASE UpsertUser
  <2>1. GoTo("assign") /\ AtUser("upsert") /\ Current.do = "ensureUser"
    BY <1>3 DEF UpsertUser, AtUser
  <2>2. Current' = Current /\ ~AtUser("unassign")' /\ ~Continue
    BY <2>1, GoToStep, Onward, SeedStepShape, RunFacts DEF AtUser, Running
  <2>3. PICK r : r = [ org |-> u.org, branch |-> u.branch, active |-> TRUE,
                       roles |-> IF account[e] = None THEN {} ELSE account[e].roles ]
    OBVIOUS
  <2>4. account' = [ account EXCEPT ![e] = r ]
    BY <1>1, <1>3, <2>1, <2>3 DEF UpsertUser, SeedOK
  <2>5. account'[e] = r /\ \A f \in Emails : f # e => account'[f] = account[f]
    BY <1>1, <2>1, <2>4 DEF SeedOK
  <2>6. UserBegun'
    BY <2>2, <2>3, <2>5 DEF UserBegun
  <2>7. account[e] = RowOf(u) => r = RowOf(u)
    <3>1. HAVE account[e] = RowOf(u)
    <3>2. account[e] # None /\ account[e].roles = {u.role}
      BY <1>2, <2>1, <3>1 DEF RowOf
    <3> QED
      BY <2>3, <3>2 DEF RowOf
  <2> QED
    BY <2>1, <2>2, <2>5, <2>6, <2>7
<1>4. CASE UpsertUserRole
  <2>1. GoTo("unassign") /\ AtUser("assign") /\ Current.do = "ensureUser"
    BY <1>4 DEF UpsertUserRole, AtUser
  <2>2. Current' = Current /\ ~AtUser("assign")' /\ ~Continue
    BY <2>1, GoToStep, Onward, SeedStepShape, RunFacts DEF AtUser, Running
  <2>3. PICK s : s = account[e].roles \cup {u.role}
    OBVIOUS
  <2>4. account' = [ account EXCEPT ![e].roles = s ]
    BY <1>4, <2>3 DEF UpsertUserRole
  <2>5. account'[e] = [ org |-> account[e].org, branch |-> account[e].branch,
                        active |-> account[e].active, roles |-> s ]
    BY <1>1, <2>1, <2>4, RowWritten DEF Written
  <2>6. \A f \in Emails : f # e => account'[f] = account[f]
    BY <2>4 DEF SeedOK
  <2>7. account[e].org = u.org /\ account[e].branch = u.branch /\ account[e].active = TRUE
    BY <2>1 DEF UserBegun
  <2>8. UserBegun'
    BY <2>2, <2>5, <2>7 DEF UserBegun
  <2>9. account[e] = RowOf(u) => s = {u.role}
    BY <2>3 DEF RowOf
  <2>10. account[e] = RowOf(u) => account'[e] = RowOf(u)
    BY <2>5, <2>7, <2>9 DEF RowOf
  <2> QED
    BY <2>1, <2>2, <2>6, <2>8, <2>10
<1>5. CASE DeleteOtherRoles
  <2>1. Continue /\ AtUser("unassign") /\ Current.do = "ensureUser"
    BY <1>5 DEF DeleteOtherRoles, AtUser
  <2>2. ~AtUser("assign")' /\ ~AtUser("unassign")'
    BY <2>1, ContinueStep DEF AtUser
  <2>3. PICK s : s = account[e].roles \cap {u.role}
    OBVIOUS
  <2>4. account' = [ account EXCEPT ![e].roles = s ]
    BY <1>5, <2>3 DEF DeleteOtherRoles
  <2>5. account'[e] = [ org |-> account[e].org, branch |-> account[e].branch,
                        active |-> account[e].active, roles |-> s ]
    BY <1>1, <2>1, <2>4, RowWritten DEF Written
  <2>6. \A f \in Emails : f # e => account'[f] = account[f]
    BY <2>4 DEF SeedOK
  <2>7. account[e].org = u.org /\ account[e].branch = u.branch /\ account[e].active = TRUE
    BY <2>1 DEF UserBegun
  <2>8. s = {u.role}
    BY <1>1, <2>1, <2>3 DEF SeedOK, AssignedOK
  <2>9. account'[e] = RowOf(u)
    BY <2>5, <2>7, <2>8 DEF RowOf
  <2>10. UserBegun'
    BY <2>2 DEF UserBegun
  <2> QED
    BY <2>1, <2>6, <2>9, <2>10
<1>6. CASE \/ UpsertRow \/ RevokeOthers \/ UpsertGrant \/ PassCheck
           \/ DeleteDemoMovements \/ CreateDemoMovements
  <2>1. Continue /\ account' = account /\ Current.do # "ensureUser"
    BY <1>6 DEF UpsertRow, RevokeOthers, UpsertGrant, PassCheck, DeleteDemoMovements,
                CreateDemoMovements
  <2>2. ~AtUser("assign")' /\ ~AtUser("unassign")'
    BY <2>1, ContinueStep DEF AtUser
  <2> QED
    BY <2>1, <2>2 DEF UserBegun
<1> QED
  BY <1>3, <1>4, <1>5, <1>6 DEF SeedStep

\* A user that is written stays as written, while no later statement writes another.
LEMMA UsersStep ==
  ASSUME SeedOK, InProgram, UsersDone, UserBegun, undisturbed, SeedStep
  PROVE  UsersDone' /\ UserBegun'
<1>0. UserBegun'
  BY UsersOnward
<1>1. PICK n \in Nat : /\ Len(Programs[run.config]) = n + 2 /\ run.pc \in 1..n + 2
                       /\ Current = Statement(run.pc)
  BY SeedStepShape, RunFacts DEF Running
<1>2. /\ run'.pc = IF Continue THEN run.pc + 1 ELSE run.pc
      /\ run'.config = run.config /\ Programs[run'.config] = Programs[run.config]
      /\ \A i : Statement(i)' = Statement(i)
      /\ run.config # None
  BY SeedStepShape, Onward DEF Running
<1>3. ASSUME NEW i \in 1..run'.pc - 1, Statement(i).do = "ensureUser",
             NEW u, u = Statement(i).user, StillLast(i, u)'
      PROVE  account'[u.email] = RowOf(u)
  <2>1. i \in 1..n + 2 /\ u.email \in Emails
    BY <1>1, <1>2, <1>3, UserFacts
  <2>2. \A j \in i..run'.pc :
          j <= n + 2 /\ Statement(j).do = "ensureUser" /\ Statement(j).user.email = u.email =>
            Statement(j).user = u
    BY <1>1, <1>2, <1>3 DEF StillLast
  <2>3. run.pc \in i..run'.pc /\ run.pc <= n + 2
    BY <1>1, <1>2
  <2>4. Current.do = "ensureUser" /\ Current.user.email = u.email => Current.user = u
    BY <1>1, <2>2, <2>3
  <2>5. CASE i \in 1..run.pc - 1
    <3>1. StillLast(i, u)
      BY <1>1, <1>2, <2>2 DEF StillLast
    <3>2. account[u.email] = RowOf(u)
      BY <1>3, <2>5, <3>1 DEF UsersDone
    <3>3. CASE Current.do = "ensureUser" /\ Current.user.email = u.email
      BY <2>4, <3>2, <3>3, UsersOnward
    <3>4. CASE ~(Current.do = "ensureUser" /\ Current.user.email = u.email)
      BY <2>1, <3>2, <3>4, UsersOnward
    <3> QED
      BY <3>3, <3>4
  <2>6. CASE i \notin 1..run.pc - 1
    <3>1. Continue /\ i = run.pc
      BY <1>1, <1>2, <2>6
    <3> QED
      BY <1>1, <1>3, <3>1, UsersOnward
  <2> QED
    BY <2>5, <2>6
<1>4. UsersDone'
  BY <1>2, <1>3 DEF UsersDone
<1> QED
  BY <1>0, <1>4

-------------------------------------------------------------------------------
(* The invariant.                                                          *)

SeedIInv == SeedOK /\ InProgram /\ DoneOK

\* A statement of a run that the service has not disturbed.
LEMMA DoneStep ==
  ASSUME SeedIInv, SeedStep
  PROVE  InProgram' /\ DoneOK'
<1>1. InProgram'
  BY SeedStepShape, Onward DEF SeedIInv
<1>2. ASSUME undisturbed'
      PROVE  RowsDone' /\ Checked' /\ GrantsDone' /\ UsersDone' /\ UserBegun' /\ MovementsDone'
  <2>1. SeedOK /\ InProgram /\ undisturbed
    BY <1>2, SeedStepShape DEF SeedIInv
  <2>2. RowsDone /\ Checked /\ GrantsDone /\ UsersDone /\ UserBegun /\ MovementsDone
    BY <2>1, SeedStepShape DEF SeedIInv, DoneOK, Running
  <2> QED
    BY <2>1, <2>2, RowsStep, CheckedStep, GrantsStep, UsersStep, MovementsStep
<1> QED
  BY <1>1, <1>2 DEF DoneOK

\* A run starts, whatever there is.
LEMMA DoneStart ==
  ASSUME NEW c \in Configs, Start(c)
  PROVE  InProgram' /\ DoneOK'
<1>1. run'.config = c /\ run'.pc = 1 /\ run'.step = "upsert"
  BY DEF Start
<1>2. PICK n \in Nat : Len(Programs[c]) = n + 2
  BY ProgramFacts
<1>3. RowsDone' /\ Checked' /\ GrantsDone' /\ UsersDone'
  BY <1>1 DEF RowsDone, Checked, GrantsDone, UsersDone
<1>4. UserBegun'
  BY <1>1 DEF UserBegun, AtUser
<1>5. MovementsDone'
  BY <1>1, <1>2 DEF MovementsDone
<1>6. InProgram'
  BY <1>1, <1>2 DEF InProgram
<1> QED
  BY <1>3, <1>4, <1>5, <1>6 DEF DoneOK

\* Every step keeps the invariant.
LEMMA SeedIInvStep ==
  ASSUME SeedIInv, [SeedNext]_seedVars
  PROVE  SeedIInv'
<1>0. SeedOK'
  BY SeedOKStep DEF SeedIInv
<1>1. CASE SeedStep
  BY <1>0, <1>1, DoneStep DEF SeedIInv
<1>2. CASE \E c \in Configs : Start(c)
  BY <1>0, <1>2, DoneStart DEF SeedIInv
<1>3. CASE Stop
  <2>1. run'.config = None
    BY <1>3 DEF Stop, Idle
  <2> QED
    BY <1>0, <2>1 DEF SeedIInv, InProgram, DoneOK
<1>4. CASE ServiceStep
  <2>1. run' = run /\ ~undisturbed'
    BY <1>4 DEF ServiceStep, CreateUser, UpdateUser, DeleteRoles, CreateRoles, DeactivateBranch,
                RejectMovement, Change
  <2> QED
    BY <1>0, <2>1 DEF SeedIInv, InProgram, DoneOK
<1>5. CASE UNCHANGED seedVars
  <2>1. UNCHANGED <<rows, grants, account, movements, run, undisturbed>>
    BY <1>5 DEF seedVars
  <2>2. InProgram'
    BY <2>1 DEF SeedIInv, InProgram
  <2>3. DoneOK'
    BY <2>1 DEF SeedIInv, DoneOK, RowsDone, Checked, GrantsDone, UsersDone, UserBegun,
                MovementsDone, Statement, StillLast, AtUser, Running, Current
  <2> QED
    BY <1>0, <2>2, <2>3 DEF SeedIInv
<1> QED
  BY <1>1, <1>2, <1>3, <1>4, <1>5 DEF SeedNext

\* So it holds, always.
LEMMA SeedIInvariance ==
  SeedSpec => []SeedIInv
<1>1. SeedInit => SeedIInv
  BY SeedInitially DEF SeedInit, SeedIInv, InProgram, DoneOK, Idle
<1>2. SeedIInv /\ [SeedNext]_seedVars => SeedIInv'
  BY SeedIInvStep
<1> QED
  BY <1>1, <1>2, PTL DEF SeedSpec

-------------------------------------------------------------------------------
(* What a run leaves.                                                      *)

\* A run that has ended undisturbed has done all of its statements.
LEMMA Converged ==
  ASSUME SeedIInv, Finished, undisturbed
  PROVE  /\ run.config \in Configs
         /\ \A i \in DOMAIN Programs[run.config] :
              Programs[run.config][i].do = "ensureRow" => Programs[run.config][i].row \in rows
         /\ \A i \in 1..run.config.branches : <<"branch", Blueprints[i]>> \in rows
         /\ \A role \in Roles : grants[role] = KeysOf(role)
         /\ \A u \in SeedUsers(run.config) : account[u.email] = RowOf(u)
         /\ movements = DemoMovements(run.config)
<1>1. PICK p \in Seq(Statements(run.config)), n \in Nat :
           /\ run.config \in Configs
           /\ Programs[run.config] = p /\ Len(p) = n + 2
           /\ \A role \in Roles : GrantStatements(role) \subseteq ToSet(p)
           /\ CheckEmails \in ToSet(p)
           /\ EmailsDiffer(run.config) => \A u \in SeedUsers(run.config) : Settled(p, u)
           /\ \A b \in 1..run.config.branches :
                EnsureRow("branch", Blueprints[b]) \in ToSet(p)
           /\ \A i \in 1..n + 2 : Statement(i) = p[i]
  BY RunFacts DEF SeedIInv, Finished
<1>2. run.pc = n + 3 /\ DOMAIN p = 1..n + 2 /\ run.pc - 1 = n + 2
  BY <1>1 DEF Finished
<1>3. RowsDone /\ Checked /\ GrantsDone /\ UsersDone /\ MovementsDone
  BY DEF SeedIInv, DoneOK, Finished
<1>4. \A i \in 1..n + 2 : p[i].do = "ensureRow" => p[i].row \in rows
  BY <1>1, <1>2, <1>3 DEF RowsDone
<1>5. \A s \in ToSet(p) : \E i \in 1..n + 2 : p[i] = s
  BY <1>2 DEF ToSet
<1>6. ASSUME NEW i \in 1..run.config.branches
      PROVE  <<"branch", Blueprints[i]>> \in rows
  <2>1. PICK k \in 1..n + 2 : p[k] = EnsureRow("branch", Blueprints[i])
    BY <1>1, <1>5
  <2> QED
    BY <1>4, <2>1 DEF EnsureRow
<1>7. ASSUME NEW role \in Roles
      PROVE  grants[role] = KeysOf(role)
  <2>1. grants[role] \subseteq KeysOf(role)
    <3>1. PICK i \in 1..n + 2 : p[i] = Revoke(role)
      BY <1>1, <1>5 DEF GrantStatements
    <3>2. Statement(i).do = "revoke" /\ Statement(i).role = role
      BY <1>1, <3>1 DEF Revoke
    <3> QED
      BY <1>2, <1>3, <3>2 DEF GrantsDone
  <2>2. ASSUME NEW key \in KeysOf(role)
        PROVE  key \in grants[role]
    <3>1. PICK i \in 1..n + 2 : p[i] = Grant(role, key)
      BY <1>1, <1>5 DEF GrantStatements
    <3>2. Statement(i).do = "grant" /\ Statement(i).role = role /\ Statement(i).key = key
      BY <1>1, <3>1 DEF Grant
    <3> QED
      BY <1>2, <1>3, <3>2 DEF GrantsDone
  <2> QED
    BY <2>1, <2>2
<1>8. ASSUME NEW u \in SeedUsers(run.config)
      PROVE  account[u.email] = RowOf(u)
  <2>0. EmailsDiffer(run.config)
    <3>1. PICK k \in 1..n + 2 : Statement(k) = CheckEmails
      BY <1>1, <1>5
    <3> QED
      BY <1>2, <1>3, <3>1 DEF Checked, CheckEmails
  <2>1. PICK i \in 1..n + 2 :
          /\ p[i] = EnsureUser(u)
          /\ \A j \in i..n + 2 :
               p[j].do = "ensureUser" /\ p[j].user.email = u.email => p[j].user = u
    BY <1>1, <2>0 DEF Settled
  <2>2. Statement(i).do = "ensureUser" /\ Statement(i).user = u
    BY <1>1, <2>1 DEF EnsureUser
  <2>3. StillLast(i, u)
    <3> SUFFICES ASSUME NEW j \in i..run.pc, j <= n + 2, Statement(j).do = "ensureUser",
                        Statement(j).user.email = u.email
                 PROVE  Statement(j).user = u
      BY <1>1 DEF StillLast
    <3>1. j \in i..n + 2 /\ j \in 1..n + 2
      BY <1>2
    <3> QED
      BY <1>1, <2>1, <3>1
  <2> QED
    BY <1>2, <1>3, <2>2, <2>3 DEF UsersDone
<1>9. movements = DemoMovements(run.config)
  BY <1>1, <1>2, <1>3 DEF MovementsDone
<1> QED
  BY <1>1, <1>2, <1>4, <1>6, <1>7, <1>8, <1>9

\* README.md calls the seed idempotent: a run of prisma/seed.ts that ends undisturbed leaves
\* at least the rows and the users of its configuration, and exactly its grants and movements,
\* wherever the runs before it stopped, whatever their configurations and whatever the service
\* had changed.  What an earlier run made of a larger configuration stays.
THEOREM SeedingConverges ==
  SeedSpec => []SeedConverges
<1>1. SeedIInv => SeedConverges
  BY Converged DEF SeedConverges, RowOf
<1> QED
  BY <1>1, SeedIInvariance, PTL

\* One of the values, as there are some.
LEMMA Picked ==
  ASSUME NEW R, NEW values \in Seq(R), ToSet(values) # {}, NEW i \in Nat
  PROVE  PickByIndex(values, i) \in ToSet(values)
<1>1. PICK n \in Nat : n = Len(values) /\ n > 0
  <2>1. PICK n \in Nat : n = Len(values) /\ DOMAIN values = 1..n
    OBVIOUS
  <2>2. PICK k : k \in DOMAIN values
    BY DEF ToSet
  <2>3. k \in 1..n
    BY <2>1, <2>2
  <2> QED
    BY <2>1, <2>3
<1>2. PICK k \in 1..n : k = (i % n) + 1
  <2>1. i % n \in 0..n - 1
    BY <1>1
  <2> QED
    BY <2>1
<1>3. values[k] \in ToSet(values)
  BY <1>1, <1>2 DEF ToSet
<1> QED
  BY <1>1, <1>2, <1>3 DEF PickByIndex

\* The users with a role in some branches.
LEMMA UsersAsAre ==
  ASSUME NEW c \in Configs, NEW role, NEW branches
  PROVE  /\ UsersAs(c, role, branches) \in Seq(DemoUserSet(c))
         /\ ToSet(UsersAs(c, role, branches)) =
              { u \in DemoUserSet(c) : u.role = role /\ u.branch \in branches }
<1>1. PICK users \in Seq(DemoUserSet(c)) : users = DemoUsers(c) /\ ToSet(users) = DemoUserSet(c)
  BY DemoUsersAre
<1>2. PICK S : S = { u \in ToSet(users) : u.role = role /\ u.branch \in branches }
  OBVIOUS
<1>3. Chosen(users, S) \in Seq(DemoUserSet(c)) /\ ToSet(Chosen(users, S)) = ToSet(users) \cap S
  BY ChosenEntries
<1>4. UsersAs(c, role, branches) = Chosen(users, S)
  BY <1>1, <1>2 DEF UsersAs
<1> QED
  BY <1>1, <1>2, <1>3, <1>4

\* Every demo branch has an operator to create its movements.
LEMMA Creator ==
  ASSUME NEW c \in Configs, NEW n \in 1..c.branches, NEW b, b = Blueprints[n], NEW i \in Nat
  PROVE  LET u == PickByIndex(CreatorPool(c, b), i)
         IN  u \in DemoUserSet(c) /\ u.role = "OPERATOR" /\ u.branch = b
<1>1. PICK pool \in Seq(DemoUserSet(c)) :
        /\ pool = CreatorPool(c, b)
        /\ ToSet(pool) = { u \in DemoUserSet(c) : u.role = "OPERATOR" /\ u.branch \in {b} }
  BY UsersAsAre DEF CreatorPool
<1>2. PICK u : u = Demo(<<"operator", b, 1>>, "OPERATOR", b)
  OBVIOUS
<1>3. u \in DemoUserSet(c)
  <2>1. 1 \in 1..c.operators
    BY ConfigFacts
  <2>2. u \in BranchUserSet(c, b)
    BY <1>2, <2>1 DEF BranchUserSet
  <2> QED
    BY <2>2 DEF DemoUserSet
<1>4. u \in ToSet(pool)
  BY <1>1, <1>2, <1>3 DEF Demo
<1>5. PickByIndex(pool, i) \in ToSet(pool)
  BY <1>4, Picked
<1> QED
  BY <1>1, <1>5

\* Who may be drawn to approve or deliver a movement of branch b.
MayApprove(u, b) == u.role = "ADMIN" \/ (u.role = "MANAGER" /\ u.branch \in {b, None})

\* And a manager to approve and deliver them, besides those of the organization.
LEMMA Approver ==
  ASSUME NEW c \in Configs, NEW n \in 1..c.branches, NEW b, b = Blueprints[n], NEW i \in Nat
  PROVE  LET u == PickByIndex(ApprovalPool(c, b), i)
         IN  u \in DemoUserSet(c) /\ MayApprove(u, b)
<1> DEFINE As(role, branches) ==
             { u \in DemoUserSet(c) : u.role = role /\ u.branch \in branches }
<1>1. PICK p \in Seq(DemoUserSet(c)) :
        p = UsersAs(c, "MANAGER", {b}) /\ ToSet(p) = As("MANAGER", {b})
  BY UsersAsAre
<1>2. PICK q \in Seq(DemoUserSet(c)) :
        q = UsersAs(c, "MANAGER", {None}) /\ ToSet(q) = As("MANAGER", {None})
  BY UsersAsAre
<1>3. PICK r \in Seq(DemoUserSet(c)) :
        r = UsersAs(c, "ADMIN", {None}) /\ ToSet(r) = As("ADMIN", {None})
  BY UsersAsAre
<1>4. PICK pq \in Seq(DemoUserSet(c)) : pq = p \o q /\ ToSet(pq) = ToSet(p) \cup ToSet(q)
  <2>1. p \o q \in Seq(DemoUserSet(c)) /\ ToSet(p \o q) = ToSet(p) \cup ToSet(q)
    BY Concatenated
  <2> QED
    BY <2>1
<1>5. PICK pool \in Seq(DemoUserSet(c)) :
        pool = pq \o r /\ ToSet(pool) = ToSet(pq) \cup ToSet(r)
  <2>1. pq \o r \in Seq(DemoUserSet(c)) /\ ToSet(pq \o r) = ToSet(pq) \cup ToSet(r)
    BY Concatenated
  <2> QED
    BY <2>1
<1>6. ApprovalPool(c, b) = pool
  BY <1>1, <1>2, <1>3, <1>4, <1>5 DEF ApprovalPool
<1>7. ToSet(pool) # {}
  <2>1. PICK u : u = Demo(<<"manager", b>>, "MANAGER", b)
    OBVIOUS
  <2>2. u \in BranchUserSet(c, b)
    BY <2>1 DEF BranchUserSet
  <2>4. u \in DemoUserSet(c)
    BY <2>2 DEF DemoUserSet
  <2>3. u \in ToSet(p)
    BY <1>1, <2>1, <2>4 DEF Demo
  <2> QED
    BY <1>4, <1>5, <2>3
<1>8. PickByIndex(pool, i) \in ToSet(pool)
  BY <1>7, Picked
<1>9. \A u \in ToSet(pool) : u \in DemoUserSet(c) /\ MayApprove(u, b)
  BY <1>1, <1>2, <1>3, <1>4, <1>5 DEF MayApprove
<1> QED
  BY <1>6, <1>8, <1>9

\* What a demo user may do when the seed has run.
LEMMA SeededUser ==
  ASSUME SeedIInv, Finished, undisturbed, NEW u \in DemoUserSet(run.config)
  PROVE  LET a == account[u.email]
         IN  /\ a.org = "demo" /\ a.branch = u.branch /\ a.active = TRUE
             /\ ResolveRuntimeRole(a.roles) = u.role
             /\ u.email # None
             /\ \E role \in a.roles : "CASH_MOVEMENT_CREATE" \in grants[role]
             /\ u.role \in {"ADMIN", "MANAGER"} =>
                  \E role \in a.roles : /\ "CASH_MOVEMENT_APPROVE" \in grants[role]
                                        /\ "CASH_MOVEMENT_DELIVER" \in grants[role]
<1>1. run.config \in Configs /\ \A role \in Roles : grants[role] = KeysOf(role)
  BY Converged
<1>2. u.email # None /\ u.org = "demo" /\ u.role \in CanonicalRoles
  BY <1>1, DemoUserFacts
<1>3. account[u.email] = RowOf(u)
  <2>1. u \in SeedUsers(run.config)
    BY <1>1, DemoUsersAre DEF SeedUsers
  <2> QED
    BY <2>1, Converged
<1>4. /\ account[u.email].org = "demo" /\ account[u.email].branch = u.branch
      /\ account[u.email].active = TRUE /\ account[u.email].roles = {u.role}
  BY <1>2, <1>3 DEF RowOf
<1>5. ResolveRuntimeRole({u.role}) = u.role
  BY <1>2 DEF ResolveRuntimeRole, CanonicalRoles
<1>6. grants[u.role] = RolePermissions[u.role] \cap Keys
  <2>1. u.role \in Roles /\ ToCanonicalRole(u.role) = u.role
    BY <1>2 DEF Roles, ToCanonicalRole, CanonicalRoles
  <2>2. PermissionsOf({u.role}) = RolePermissions[u.role]
    BY <2>1 DEF PermissionsOf
  <2> QED
    BY <1>1, <2>1, <2>2 DEF KeysOf
<1>7. /\ "CASH_MOVEMENT_CREATE" \in RolePermissions[u.role]
      /\ u.role \in {"ADMIN", "MANAGER"} => /\ "CASH_MOVEMENT_APPROVE" \in RolePermissions[u.role]
                                            /\ "CASH_MOVEMENT_DELIVER" \in RolePermissions[u.role]
  BY <1>2 DEF RolePermissions, CanonicalRoles, Permissions, MovementPermissions
<1>8. {"CASH_MOVEMENT_CREATE", "CASH_MOVEMENT_APPROVE", "CASH_MOVEMENT_DELIVER"} \subseteq Keys
  BY SeedAssumption
<1> QED
  BY <1>2, <1>4, <1>5, <1>6, <1>7, <1>8

\* The demo branches are the demo organization's.
LEMMA DemoBranch ==
  ASSUME NEW c \in Configs, NEW n \in 1..c.branches, NEW b, b = Blueprints[n]
  PROVE  b \in Branches /\ b # None /\ BranchOrg[b] = "demo" /\ "demo" # None
<1>1. b \in Branches \ {DefaultBranch} /\ b # None
  BY ConfigFacts
<1> QED
  BY <1>1, SeedAssumption, BranchAssumption

\* prisma/seed.ts writes movements past CashMovementsService, but when a run has ended
\* undisturbed there is none that the service would have refused: whoever created, approved
\* or delivered one has the permission and the branch to do so, and signatures go with the
\* status.
THEOREM SeededMovementsAreLegal ==
  SeedSpec => []SeededMovementsLegal
<1>1. ASSUME SeedIInv
      PROVE  SeededMovementsLegal
  <2> DEFINE Context(e) == [ org |-> account[e].org, branch |-> account[e].branch,
                             role |-> ResolveRuntimeRole(account[e].roles) ]
             Can(e, key) == account[e].active /\ \E role \in account[e].roles : key \in grants[role]
             Active == { b \in Branches : <<"branch", b>> \in rows }
  <2> SUFFICES ASSUME Finished, undisturbed, NEW m \in movements
               PROVE  /\ Can(m.creator, "CASH_MOVEMENT_CREATE")
                      /\ ResolveBranchForCreate(Context(m.creator), m.branch, Active) =
                           Granted(m.branch)
                      /\ m.approver # None <=> m.status \in {"APPROVED", "DELIVERED"}
                      /\ m.approver # None => /\ Can(m.approver, "CASH_MOVEMENT_APPROVE")
                                              /\ BranchAccessible(Context(m.approver), m.branch)
                      /\ m.deliverer # None <=> m.status = "DELIVERED"
                      /\ m.deliverer # None => /\ Can(m.deliverer, "CASH_MOVEMENT_DELIVER")
                                               /\ BranchAccessible(Context(m.deliverer), m.branch)
    BY DEF SeededMovementsLegal
  <2>1. PICK c \in Configs : c = run.config /\ m \in DemoMovements(c)
    BY <1>1, Converged
  <2>2. PICK n \in 0..c.branches - 1, i \in 0..c.movements - 1 : m = DemoMovement(c, n, i)
    BY <2>1 DEF DemoMovements
  <2>3. PICK k \in 1..c.branches : k = n + 1
    BY ConfigFacts
  <2>4. i \in Nat /\ i + 1 \in Nat
    BY ConfigFacts
  <2>5. PICK b : b = Blueprints[k]
    OBVIOUS
  <2>6. PICK u : u = PickByIndex(CreatorPool(c, b), i)
    OBVIOUS
  <2>7. PICK v : v = PickByIndex(ApprovalPool(c, b), i)
    OBVIOUS
  <2>8. PICK w : w = PickByIndex(ApprovalPool(c, b), i + 1)
    OBVIOUS
  <2>9. /\ m.branch = b /\ m.creator = u.email
        /\ m.approver = IF m.status \in {"APPROVED", "DELIVERED"} THEN v.email ELSE None
        /\ m.deliverer = IF m.status = "DELIVERED" THEN w.email ELSE None
    BY <2>2, <2>3, <2>5, <2>6, <2>7, <2>8 DEF DemoMovement
  <2>10. b \in Branches /\ b # None /\ BranchOrg[b] = "demo" /\ "demo" # None /\ b \in Active
    BY <1>1, <2>1, <2>5, DemoBranch, Converged
  <2>11. u \in DemoUserSet(c) /\ u.role = "OPERATOR" /\ u.branch = b
    <3>1. PICK j \in Nat : j = i
      BY <2>4
    <3>2. PICK r : r = PickByIndex(CreatorPool(c, b), j)
      OBVIOUS
    <3>3. r \in DemoUserSet(c) /\ r.role = "OPERATOR" /\ r.branch = b
      BY <2>5, <3>2, Creator
    <3> QED
      BY <2>6, <3>1, <3>2, <3>3
  <2>12. PICK x : x = Context(u.email)
    OBVIOUS
  <2>13. /\ Can(u.email, "CASH_MOVEMENT_CREATE")
         /\ x.org = "demo" /\ x.branch = b /\ x.role = "OPERATOR"
    BY <1>1, <2>1, <2>11, <2>12, SeededUser
  <2> HIDE DEF Active
  <2>14. ResolveBranchForCreate(x, b, Active) = Granted(b)
    BY <2>10, <2>13 DEF ResolveBranchForCreate, MissingBranch, IsBranchScoped, LookupBranch
  <2>15. ASSUME NEW a \in DemoUserSet(c), MayApprove(a, b)
         PROVE  /\ a.email # None
                /\ Can(a.email, "CASH_MOVEMENT_APPROVE") /\ Can(a.email, "CASH_MOVEMENT_DELIVER")
                /\ BranchAccessible(Context(a.email), b)
    <3>1. PICK y : y = Context(a.email)
      OBVIOUS
    <3>2. /\ a.email # None
          /\ Can(a.email, "CASH_MOVEMENT_APPROVE") /\ Can(a.email, "CASH_MOVEMENT_DELIVER")
          /\ y.org = "demo" /\ y.branch = a.branch /\ y.role = a.role
      BY <1>1, <2>1, <2>15, <3>1, SeededUser DEF MayApprove
    <3>3. BranchAccessible(y, b)
      <4>1. LookupBranch("demo", b, Branches) = Granted(b)
        BY <2>10 DEF LookupBranch
      <4>2. CASE a.role = "ADMIN" \/ a.branch = None
        <5>1. ResolveBranchForFilter(y, None) = Granted(None)
          BY <2>15, <3>2, <4>2
             DEF MayApprove, ResolveBranchForFilter, MissingBranch, IsBranchScoped
        <5> QED
          BY <3>2, <4>1, <5>1 DEF BranchAccessible, Granted
      <4>3. CASE a.role = "MANAGER" /\ a.branch = b
        <5>1. ResolveBranchForFilter(y, None) = Granted(b)
          BY <2>10, <3>2, <4>1, <4>3
             DEF ResolveBranchForFilter, MissingBranch, IsBranchScoped
        <5> QED
          BY <2>10, <5>1 DEF BranchAccessible, Granted
      <4> QED
        BY <2>15, <4>2, <4>3 DEF MayApprove
    <3> QED
      BY <3>1, <3>2, <3>3
  <2>16. /\ v \in DemoUserSet(c) /\ MayApprove(v, b)
         /\ w \in DemoUserSet(c) /\ MayApprove(w, b)
    <3>1. PICK j \in Nat : j = i + 1 /\ w = PickByIndex(ApprovalPool(c, b), j)
      BY <2>4, <2>8
    <3> QED
      BY <2>4, <2>5, <2>7, <3>1, Approver
  <2>17. /\ v.email # None /\ Can(v.email, "CASH_MOVEMENT_APPROVE")
         /\ BranchAccessible(Context(v.email), b)
    BY <2>15, <2>16
  <2>18. /\ w.email # None /\ Can(w.email, "CASH_MOVEMENT_DELIVER")
         /\ BranchAccessible(Context(w.email), b)
    BY <2>15, <2>16
  <2>19. /\ Can(m.creator, "CASH_MOVEMENT_CREATE")
         /\ ResolveBranchForCreate(Context(m.creator), m.branch, Active) = Granted(m.branch)
    BY <2>9, <2>12, <2>13, <2>14
  <2> HIDE DEF Can, Context
  <2> QED
    BY <2>9, <2>17, <2>18, <2>19
<1> QED
  BY <1>1, SeedIInvariance, PTL
===============================================================================
