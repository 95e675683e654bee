---------------------------------- MODULE Seed ----------------------------------
(***************************************************************************)
(* prisma/seed.ts: a program of statements, each of which commits at once. *)
(* It may stop anywhere and is run again, maybe with another configuration *)
(* and maybe on a database that the service is using.                      *)
(*                                                                         *)
(* A branch is named by its code, a user by its e-mail (a tuple for those  *)
(* the seed makes up).  Of a movement the type, the amount and the dates   *)
(* are left out, of a user the password, which every run sets again.       *)
(***************************************************************************)
EXTENDS BranchAccess, Integers, SequencesExt

CONSTANTS
  DefaultBranch,  \* SEED_BRANCH_CODE
  Blueprints,     \* the codes of DEMO_BRANCH_BLUEPRINTS, in their order
  Catalog,        \* ALL_PERMISSIONS, or as many of its keys as an instance uses
  Configs,        \* the environments the seed is run with
  EnvEmails,      \* what SEED_ADMIN_EMAIL and SEED_USER_EMAIL may be, of whomever
  Edited,         \* the users the service changes in an instance
  MaxChanges      \* how many changes the service makes

Keys       == ToSet(Catalog)
KeysOf(role) == PermissionsOf({role}) \cap Keys

\* The numbers are clamped from below, so that every branch has an operator.
ConfigRows ==
  [ branches : 2..Len(Blueprints), operators : Nat \ {0}, movements : Nat,
    adminEmail : EnvEmails \cup {None}, userEmail : EnvEmails \cup {None} ]

UserRows ==
  [ org : Orgs, branch : Branches \cup {None}, active : BOOLEAN, roles : SUBSET Roles ]

ASSUME SeedAssumption ==
  /\ Orgs = {"default", "demo"}
  /\ Branches = ToSet(Blueprints) \cup {DefaultBranch}
  /\ Blueprints \in Seq(Branches \ {DefaultBranch}) /\ IsInjective(Blueprints)
  /\ "org" \notin ToSet(Blueprints)  \* it would share demo.manager.org@ with BaseUsers
  /\ BranchOrg = [ b \in Branches |-> IF b = DefaultBranch THEN "default" ELSE "demo" ]
  /\ Catalog \in Seq(Permissions) /\ IsInjective(Catalog)
  /\ {"CASH_MOVEMENT_CREATE", "CASH_MOVEMENT_APPROVE", "CASH_MOVEMENT_DELIVER"} \subseteq Keys
  /\ Configs \subseteq ConfigRows
  /\ None \notin UserRows
  /\ MaxChanges \in Nat

VARIABLES
  rows,         \* Organization, Branch, Role and Permission rows, the active ones
  grants,       \* table RolePermission, by role
  account,      \* table User with its UserRole rows, by e-mail
  movements,    \* the rows of CashMovement whose description starts with [DEMO-CM:
  run,          \* the run of the seed: its configuration and where it is
  undisturbed,  \* no change by the service since the run started
  edit,         \* the user whose roles the service is editing: deleted, not yet created
  changes       \* changes by the service so far

service  == <<edit, changes>>
seedVars == <<rows, grants, account, movements, run, undisturbed, service>>

-------------------------------------------------------------------------------
(* The users and the movements of a configuration.                         *)

\* The entries of s that are in S, in their order: SelectSeq for the provers.
Chosen(s, S) ==
  LET chosen[n \in 0..Len(s)] ==
        IF n = 0 THEN << >>
        ELSE IF s[n] \in S THEN Append(chosen[n - 1], s[n]) ELSE chosen[n - 1]
  IN  chosen[Len(s)]

Demo(email, role, branch) ==
  [email |-> email, org |-> "demo", branch |-> branch, role |-> role]

BaseUsers ==
  LET hq == Blueprints[1]
  IN  << Demo(<<"admin">>, "ADMIN", None), Demo(<<"manager">>, "MANAGER", hq),
         Demo(<<"operator">>, "OPERATOR", hq), Demo(<<"manager", "org">>, "MANAGER", None) >>

BranchUsers(c, b) ==
  << Demo(<<"manager", b>>, "MANAGER", b) >> \o
  [ i \in 1..c.operators |-> Demo(<<"operator", b, i>>, "OPERATOR", b) ]

DemoBranches(c) == SubSeq(Blueprints, 1, c.branches)

DemoUsers(c) ==
  BaseUsers \o FlattenSeq([ n \in 1..c.branches |-> BranchUsers(c, Blueprints[n]) ])

Default(email, role, branch) ==
  [email |-> email, org |-> "default", branch |-> branch, role |-> role]

OptionalUsers(c) ==
  (IF c.adminEmail = None THEN << >> ELSE << Default(c.adminEmail, "ADMIN", None) >>) \o
  (IF c.userEmail = None THEN << >>
                         ELSE << Default(c.userEmail, "OPERATOR", DefaultBranch) >>)

\* That the optional users are two, where there are two, is checked on the way.
EmailsDiffer(c) == c.adminEmail # None => c.adminEmail # c.userEmail

PickByIndex(values, i) == values[(i % Len(values)) + 1]

StatusPattern ==
  << "PENDING", "APPROVED", "DELIVERED", "REJECTED",
     "DELIVERED", "APPROVED", "PENDING", "DELIVERED" >>

UsersAs(c, role, branches) ==
  Chosen(DemoUsers(c), { u \in ToSet(DemoUsers(c)) : u.role = role /\ u.branch \in branches })

\* Mutant of CreatorPool: the operators of all branches.
CreatorPoolAnywhere(c, b) == UsersAs(c, "OPERATOR", Branches)

\* Never empty: every demo branch has operators, and every pool below an admin.
CreatorPool(c, b) == UsersAs(c, "OPERATOR", {b})

ApprovalPool(c, b) ==
  UsersAs(c, "MANAGER", {b}) \o UsersAs(c, "MANAGER", {None}) \o UsersAs(c, "ADMIN", {None})

\* Branches and movements are numbered from 0.
DemoMovement(c, n, i) ==
  LET b      == Blueprints[n + 1]
      status == PickByIndex(StatusPattern, n + i)
  IN  [ branch |-> b, number |-> i, status |-> status,
        creator   |-> PickByIndex(CreatorPool(c, b), i).email,
        approver  |-> IF status \in {"APPROVED", "DELIVERED"}
                        THEN PickByIndex(ApprovalPool(c, b), i).email ELSE None,
        deliverer |-> IF status = "DELIVERED"
                        THEN PickByIndex(ApprovalPool(c, b), i + 1).email ELSE None ]

DemoMovements(c) ==
  { DemoMovement(c, n, i) : n \in 0..c.branches - 1, i \in 0..c.movements - 1 }

-------------------------------------------------------------------------------
(* The program: the statements, and the calls of ensureUserWithRole, of    *)
(* main in their order.                                                    *)

EnsureRow(table, key)   == [do |-> "ensureRow", row |-> <<table, key>>]
EnsureUser(u)           == [do |-> "ensureUser", user |-> u]
Revoke(role)            == [do |-> "revoke", role |-> role]
Grant(role, key)        == [do |-> "grant", role |-> role, key |-> key]
CheckEmails             == [do |-> "checkEmails"]
DeleteMovements         == [do |-> "deleteMovements"]
CreateMovements         == [do |-> "createMovements"]

RoleOrder == <<"ADMIN", "MANAGER", "OPERATOR", "USER">>

GrantProgram(role) ==
  LET keys == Chosen(Catalog, KeysOf(role))
  IN  <<Revoke(role)>> \o [ i \in DOMAIN keys |-> Grant(role, keys[i]) ]

Rows(table, keys)  == [ i \in DOMAIN keys |-> EnsureRow(table, keys[i]) ]
UserCalls(users)   == [ i \in DOMAIN users |-> EnsureUser(users[i]) ]

Program(c) ==
  <<EnsureRow("organization", "default"), EnsureRow("branch", DefaultBranch)>> \o
  Rows("role", RoleOrder) \o Rows("permission", Catalog) \o
  FlattenSeq([ i \in DOMAIN RoleOrder |-> GrantProgram(RoleOrder[i]) ]) \o
  <<CheckEmails>> \o UserCalls(OptionalUsers(c)) \o
  <<EnsureRow("organization", "demo")>> \o Rows("branch", DemoBranches(c)) \o
  UserCalls(DemoUsers(c)) \o
  <<DeleteMovements, CreateMovements>>

Programs == [ c \in Configs |-> Program(c) ]

Emails ==
  EnvEmails \cup UNION { { u.email : u \in ToSet(DemoUsers(c)) } : c \in Configs }

ASSUME EmailAssumption == None \notin Emails

\* Not running; pc is the place in the program, step the one in ensureUserWithRole.
Idle == [config |-> None, pc |-> 0, step |-> "upsert"]

Running    == run.config # None /\ run.pc <= Len(Programs[run.config])
Finished   == run.config # None /\ run.pc = Len(Programs[run.config]) + 1
Current    == Programs[run.config][run.pc]

\* A fresh database, or one whose grants were made for other maps than this one.
SeedInit ==
  /\ rows = {}
  /\ grants \in { [ role \in Roles |-> {} ], [ role \in Roles |-> Keys \cup {"OBSOLETE"} ] }
  /\ account = [ e \in Emails |-> None ]
  /\ movements = {}
  /\ run = Idle
  /\ undisturbed = TRUE
  /\ edit = None
  /\ changes = 0

-------------------------------------------------------------------------------
(* The steps of a run.                                                     *)

Start(c) ==
  /\ ~Running
  /\ run' = [config |-> c, pc |-> 1, step |-> "upsert"]
  /\ undisturbed' = TRUE
  /\ UNCHANGED <<rows, grants, account, movements, service>>

\* A statement rejects, the e-mails turn out to be equal, or the process is stopped.
Stop ==
  /\ Running
  /\ run' = Idle
  /\ UNCHANGED <<rows, grants, account, movements, undisturbed, service>>

Continue == run' = [run EXCEPT !.pc = @ + 1, !.step = "upsert"]

UpsertRow ==
  /\ Running /\ Current.do = "ensureRow"
  /\ rows' = rows \cup {Current.row}
  /\ Continue
  /\ UNCHANGED <<grants, account, movements, undisturbed, service>>

\* Mutant of Kept: the role is cleared before its grants are made again.
KeptNone(role) == {}

\* Mutant of Kept: grants are only ever added.
KeptAll(role) == grants[role]

\* What is left by deleteMany where the key is notIn the role's permissions.
Kept(role) == grants[role] \cap KeysOf(role)

RevokeOthers ==
  /\ Running /\ Current.do = "revoke"
  /\ grants' = [ grants EXCEPT ![Current.role] = Kept(Current.role) ]
  /\ Continue
  /\ UNCHANGED <<rows, account, movements, undisturbed, service>>

UpsertGrant ==
  /\ Running /\ Current.do = "grant"
  /\ grants' = [ grants EXCEPT ![Current.role] = @ \cup {Current.key} ]
  /\ Continue
  /\ UNCHANGED <<rows, account, movements, undisturbed, service>>

\* By now organization, branch, roles, permissions and grants are committed.
PassCheck ==
  /\ Running /\ Current.do = "checkEmails"
  /\ EmailsDiffer(run.config)
  /\ Continue
  /\ UNCHANGED <<rows, grants, account, movements, undisturbed, service>>

AtUser(step) == Running /\ Current.do = "ensureUser" /\ run.step = step

GoTo(step) == run' = [run EXCEPT !.step = step]

\* Mutants of UpsertUser and DeleteOtherRoles: the other roles go first.
UpsertUserDeletingRoles ==
  LET u == Current.user
  IN  /\ AtUser("upsert")
      /\ account' = [ account EXCEPT ![u.email] =
           [ org |-> u.org, branch |-> u.branch, active |-> TRUE,
             roles |-> IF @ = None THEN {} ELSE @.roles \cap {u.role} ] ]
      /\ GoTo("assign")
      /\ UNCHANGED <<rows, grants, movements, undisturbed, service>>

\* The row is created or taken over, wherever it belongs; its roles stay.
UpsertUser ==
  LET u == Current.user
  IN  /\ AtUser("upsert")
      /\ account' = [ account EXCEPT ![u.email] =
           [ org |-> u.org, branch |-> u.branch, active |-> TRUE,
             roles |-> IF @ = None THEN {} ELSE @.roles ] ]
      /\ GoTo("assign")
      /\ UNCHANGED <<rows, grants, movements, undisturbed, service>>

UpsertUserRole ==
  LET u == Current.user
  IN  /\ AtUser("assign")
      /\ account' = [ account EXCEPT ![u.email].roles = @ \cup {u.role} ]
      /\ GoTo("unassign")
      /\ UNCHANGED <<rows, grants, movements, undisturbed, service>>

\* removeRoleIds are all roles but the one.
DeleteOtherRoles ==
  LET u == Current.user
  IN  /\ AtUser("unassign")
      /\ account' = [ account EXCEPT ![u.email].roles = @ \cap {u.role} ]
      /\ Continue
      /\ UNCHANGED <<rows, grants, movements, undisturbed, service>>

DeleteDemoMovements ==
  /\ Running /\ Current.do = "deleteMovements"
  /\ movements' = {}
  /\ Continue
  /\ UNCHANGED <<rows, grants, account, undisturbed, service>>

\* createMany is one statement.
CreateDemoMovements ==
  /\ Running /\ Current.do = "createMovements"
  /\ movements' = movements \cup DemoMovements(run.config)
  /\ Continue
  /\ UNCHANGED <<rows, grants, account, undisturbed, service>>

-------------------------------------------------------------------------------
(* Meanwhile in the service.  A role edit is two statements; all else that *)
(* the service does to these rows is one.                                  *)

\* Another change, which finds the seed running or not.
Change ==
  /\ changes < MaxChanges
  /\ changes' = changes + 1
  /\ undisturbed' = FALSE

CreateUser(e) ==
  /\ Change
  /\ account[e] = None
  /\ account' = [ account EXCEPT ![e] =
       [org |-> "demo", branch |-> None, active |-> TRUE, roles |-> {"MANAGER"}] ]
  /\ UNCHANGED <<rows, grants, movements, run, edit>>

\* update writes fields, remove deactivates.
UpdateUser(e, b, active) ==
  /\ Change
  /\ account[e] # None
  /\ b # None => BranchOrg[b] = account[e].org
  /\ account' = [ account EXCEPT ![e].branch = b, ![e].active = active ]
  /\ UNCHANGED <<rows, grants, movements, run, edit>>

DeleteRoles(e) ==
  /\ Change
  /\ edit = None
  /\ account[e] # None
  /\ account' = [ account EXCEPT ![e].roles = {} ]
  /\ edit' = e
  /\ UNCHANGED <<rows, grants, movements, run>>

\* The second statement of the edit, which may not come.
CreateRoles(role) ==
  /\ edit # None
  /\ account' = [ account EXCEPT ![edit].roles = @ \cup {role} ]
  /\ edit' = None
  /\ undisturbed' = FALSE
  /\ UNCHANGED <<rows, grants, movements, run, changes>>

DeactivateBranch(b) ==
  /\ Change
  /\ rows' = rows \ {<<"branch", b>>}
  /\ UNCHANGED <<grants, account, movements, run, edit>>

\* An administrator of the demo organization rejects a movement that is pending.
RejectMovement(m) ==
  /\ Change
  /\ m.status = "PENDING"
  /\ movements' = (movements \ {m}) \cup {[m EXCEPT !.status = "REJECTED"]}
  /\ UNCHANGED <<rows, grants, account, run, edit>>

-------------------------------------------------------------------------------
SeedStep ==
  \/ UpsertRow \/ RevokeOthers \/ UpsertGrant \/ PassCheck
  \/ UpsertUser \/ UpsertUserRole \/ DeleteOtherRoles
  \/ DeleteDemoMovements \/ CreateDemoMovements

ServiceStep ==
  \/ \E e \in Edited :
       \/ CreateUser(e) \/ DeleteRoles(e)
       \/ \E b \in Branches \cup {None}, active \in BOOLEAN : UpdateUser(e, b, active)
  \/ \E role \in Roles : CreateRoles(role)
  \/ \E b \in Branches : DeactivateBranch(b)
  \/ \E m \in movements : RejectMovement(m)

SeedNext == (\E c \in Configs : Start(c)) \/ SeedStep \/ Stop \/ ServiceStep

SeedSpec == SeedInit /\ [][SeedNext]_seedVars

-------------------------------------------------------------------------------
(* Properties                                                              *)

\* A demo user whose e-mail the environment names too is written last, and stays one.
SeedUsers(c) ==
  LET demo == ToSet(DemoUsers(c))
  IN  demo \cup { u \in ToSet(OptionalUsers(c)) : \A d \in demo : d.email # u.email }

\* A run that ends undisturbed leaves at least the rows and the users that its
\* configuration describes, and exactly its grants and movements, wherever the runs
\* before it stopped, with whatever configuration, on whatever the service had changed:
\* README.md calls the seed idempotent.  (Branches and users that only a larger
\* configuration describes stay when a smaller one is seeded after it: nothing removes
\* them, although docs/DEMO_TEST_USERS.md lists exact sets.)
SeedConverges ==
  Finished /\ undisturbed =>
    /\ \A i \in DOMAIN Programs[run.config] :
         Programs[run.config][i].do = "ensureRow" => Programs[run.config][i].row \in rows
    /\ \A role \in Roles : grants[role] = KeysOf(role)
    /\ \A u \in SeedUsers(run.config) :
         account[u.email] =
           [org |-> u.org, branch |-> u.branch, active |-> TRUE, roles |-> {u.role}]
    /\ movements = DemoMovements(run.config)

\* Seeding a database that is in use takes away no permission that a role is to have,
\* not even between two statements.
GrantsKept ==
  [][ \A role \in Roles : KeysOf(role) \subseteq grants[role] =>
                          KeysOf(role) \subseteq grants'[role] ]_grants

\* Nor does it leave a user who has a role without one, while the service does not
\* interfere.
RolesKept ==
  [][ undisturbed' => \A e \in Emails :
        account[e] # None /\ account[e].roles # {} => account'[e].roles # {} ]_account

\* The seed writes movements past CashMovementsService, but none that it would have
\* refused: their signatures go with their status, and whoever created, approved or
\* delivered one has the permission and the branch to do so.
SeededMovementsLegal ==
  LET Context(e) == [ org |-> account[e].org, branch |-> account[e].branch,
                      role |-> ResolveRuntimeRole(account[e].roles) ]
      Can(e, key) == account[e].active /\ \E role \in account[e].roles : key \in grants[role]
      Active == { b \in Branches : <<"branch", b>> \in rows }
  IN  Finished /\ undisturbed =>
        \A m \in movements :
          /\ Can(m.creator, "CASH_MOVEMENT_CREATE")
          /\ ResolveBranchForCreate(Context(m.creator), m.branch, Active) = Granted(m.branch)
          /\ m.approver # None <=> m.status \in {"APPROVED", "DELIVERED"}
          /\ m.approver # None => /\ Can(m.approver, "CASH_MOVEMENT_APPROVE")
                                  /\ BranchAccessible(Context(m.approver), m.branch)
          /\ m.deliverer # None <=> m.status = "DELIVERED"
          /\ m.deliverer # None => /\ Can(m.deliverer, "CASH_MOVEMENT_DELIVER")
                                   /\ BranchAccessible(Context(m.deliverer), m.branch)
===============================================================================
