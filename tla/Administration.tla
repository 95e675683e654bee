---------------------------- MODULE Administration ----------------------------
(***************************************************************************)
(* UsersService and BranchesService: the accounts and branches of each     *)
(* organization, and the roles of the accounts.                            *)
(*                                                                         *)
(* No method uses a transaction: each statement commits at once, and the   *)
(* requests interleave between any two of them.  A request carries the     *)
(* context JwtStrategy read when it arrived; the row it was read from may  *)
(* have changed since.  Users, branches and role rows are never deleted.   *)
(* The user row and the roles behind a context are read in one step, as    *)
(* are those behind a permission; CashMovements takes these reads apart.   *)
(*                                                                         *)
(* UserIds and BranchIds bound the rows there can be: with no id left,     *)
(* InsertUser and InsertBranch wait, as no create in the code does.        *)
(***************************************************************************)
EXTENDS Rbac

CONSTANTS
  Organizations,
  UserIds,     \* ids a user row has or may get
  BranchIds,   \* ids a branch row has or may get
  Emails,
  Codes,       \* branch codes, as create normalises them
  Founders,    \* the users there are at the start: a function from ids to rows
  Agencies,    \* the branches there are at the start, likewise
  Requests,    \* request slots
  Operations,  \* the endpoints used in this instance
  Bodies,      \* the request bodies sent in this instance
  AbortAt,     \* the steps at which a query may reject or the process stop
  None,        \* null
  Absent       \* undefined: a field that a body leaves out

VARIABLES
  user,    \* table User with its UserRole rows
  branch,  \* table Branch
  request  \* what each request slot is doing

vars == <<user, branch, request>>

Endpoints == {"create", "update", "remove", "createBranch", "updateBranch"}

Steps ==
  { "idle", "authorize", "prepare", "resolve", "insert", "access", "write",
    "deleteRoles", "createRoles", "readBack", "deactivate", "insertBranch",
    "findBranch", "writeBranch" }

UserRows ==
  [ org : Organizations, email : Emails, active : BOOLEAN,
    branch : BranchIds \cup {None}, roles : SUBSET Roles ]

BranchRows == [org : Organizations, code : Codes, active : BOOLEAN]

\* class-validator refuses an empty roles array before the service sees it.
RequestBodies ==
  [ email : Emails \cup {Absent}, active : BOOLEAN \cup {Absent},
    branch : BranchIds \cup {None, Absent}, code : Codes \cup {Absent},
    roles : { names \in SUBSET (Roles \cup {"unknown"}) : names # {} } \cup {Absent} ]

ASSUME AdministrationAssumption ==
  /\ Founders \in [DOMAIN Founders -> UserRows]
  /\ DOMAIN Founders \subseteq UserIds
  /\ \A u, v \in DOMAIN Founders :
       Founders[u].email = Founders[v].email => u = v
  /\ \A u \in DOMAIN Founders :
       /\ Founders[u].roles # {}
       /\ Founders[u].branch # None =>
            /\ Founders[u].branch \in DOMAIN Agencies
            /\ Agencies[Founders[u].branch].org = Founders[u].org
  /\ Agencies \in [DOMAIN Agencies -> BranchRows]
  /\ DOMAIN Agencies \subseteq BranchIds
  /\ \A a, b \in DOMAIN Agencies :
       /\ Agencies[a].org = Agencies[b].org
       /\ Agencies[a].code = Agencies[b].code
       => a = b
  /\ Operations \subseteq Endpoints
  /\ Bodies \subseteq RequestBodies
  /\ AbortAt \subseteq Steps \ {"idle"}
  /\ None \notin UserIds \cup BranchIds
  /\ None \notin UserRows /\ None \notin BranchRows
  /\ Absent \notin BranchIds \cup {None}
  /\ Absent \notin Emails /\ Absent \notin Codes /\ Absent \notin BOOLEAN

-------------------------------------------------------------------------------
UserExists(u)   == user[u] # None
BranchExists(b) == branch[b] # None
EmailTaken(e)   == \E u \in UserIds : UserExists(u) /\ user[u].email = e
CodeTaken(o, c) ==
  \E b \in BranchIds : BranchExists(b) /\ branch[b].org = o /\ branch[b].code = c

\* removed is history: the roles a role edit has deleted and not yet replaced.
Idle ==
  [ pc |-> "idle", op |-> None, caller |-> None, org |-> None, role |-> None,
    target |-> None, body |-> None, removed |-> {} ]

At(r, step) == request[r].pc = step
Respond(r)  == request' = [ request EXCEPT ![r] = Idle ]
Advance(r, step) == request' = [ request EXCEPT ![r].pc = step ]

Init ==
  /\ user = [ u \in UserIds |-> IF u \in DOMAIN Founders THEN Founders[u] ELSE None ]
  /\ branch = [ b \in BranchIds |-> IF b \in DOMAIN Agencies THEN Agencies[b] ELSE None ]
  /\ request = [ r \in Requests |-> Idle ]

-------------------------------------------------------------------------------
(* Guards.                                                                 *)

\* The bodies an endpoint's DTO accepts.
BodiesFor(op) ==
  CASE op = "create"       -> { b \in Bodies : b.email # Absent /\ b.roles # Absent }
    [] op = "createBranch" -> { b \in Bodies : b.code # Absent }
    [] op \in {"update", "updateBranch"} -> Bodies
    [] op = "remove"       -> {None}

Targets(op) ==
  CASE op \in {"update", "remove"}       -> UserIds
    [] op = "updateBranch"               -> BranchIds
    [] op \in {"create", "createBranch"} -> {None}

\* JwtStrategy: the context is read, and never again.
Arrive(r, op, caller, target, body) ==
  /\ At(r, "idle")
  /\ UserExists(caller)
  /\ user[caller].active
  /\ request' = [ request EXCEPT ![r] =
       [ pc |-> "authorize", op |-> op, caller |-> caller, org |-> user[caller].org,
         role |-> ResolveRuntimeRole(user[caller].roles),
         target |-> target, body |-> body, removed |-> {} ] ]
  /\ UNCHANGED <<user, branch>>

\* The decorators of the endpoints; one of the roles is enough.
RequiredRoles(op) == IF op = "createBranch" THEN {"ADMIN"} ELSE {}

RequiredPermission(op) ==
  CASE op = "create"              -> "USER_CREATE"
    [] op \in {"update", "remove"} -> "USER_UPDATE"
    [] op = "createBranch"        -> "BRANCH_CREATE"
    [] op = "updateBranch"        -> "BRANCH_UPDATE"

FirstStep(op) ==
  CASE op = "create"               -> "prepare"
    [] op \in {"update", "remove"} -> "access"
    [] op = "createBranch"         -> "insertBranch"
    [] op = "updateBranch"         -> "findBranch"

\* PermissionsGuard: what the caller may do now.
Authorize(r) ==
  LET caller   == user[request[r].caller]
      required == RequiredRoles(request[r].op)
      allowed  == /\ caller.active
                  /\ required # {} => required \cap caller.roles # {}
                  /\ RequiredPermission(request[r].op) \in PermissionsOf(caller.roles)
  IN  /\ At(r, "authorize")
      /\ \/ allowed /\ Advance(r, FirstStep(request[r].op))
         \/ ~allowed /\ Respond(r)
      /\ UNCHANGED <<user, branch>>

-------------------------------------------------------------------------------
(* UsersService.create                                                     *)

NamesBranch(body) == body.branch \in BranchIds

\* assertCanManageUsers, the look-up of the e-mail, and loadRoles.
Prepare(r) ==
  LET body    == request[r].body
      allowed == /\ request[r].role = "ADMIN"
                 /\ ~EmailTaken(body.email)
                 /\ body.roles \subseteq Roles
  IN  /\ At(r, "prepare")
      /\ \/ allowed /\ Advance(r, IF NamesBranch(body) THEN "resolve" ELSE "insert")
         \/ ~allowed /\ Respond(r)
      /\ UNCHANGED <<user, branch>>

\* Mutant of ResolveBranchId: the organization is not compared.
ResolveBranchIdAnywhere(r) ==
  LET b     == request[r].body.branch
      found == BranchExists(b)
  IN  /\ At(r, "resolve")
      /\ \/ found /\ Advance(r, IF request[r].op = "create" THEN "insert" ELSE "write")
         \/ ~found /\ Respond(r)
      /\ UNCHANGED <<user, branch>>

\* A branch of another organization is reported like a missing one.
ResolveBranchId(r) ==
  LET b     == request[r].body.branch
      found == BranchExists(b) /\ branch[b].org = request[r].org
  IN  /\ At(r, "resolve")
      /\ \/ found /\ Advance(r, IF request[r].op = "create" THEN "insert" ELSE "write")
         \/ ~found /\ Respond(r)
      /\ UNCHANGED <<user, branch>>

\* Mutant of InsertUser: e-mail is not @unique, the look-up is trusted.
InsertUserUnchecked(r) ==
  LET body == request[r].body
  IN  /\ At(r, "insert")
      /\ \E u \in UserIds :
           /\ ~UserExists(u)
           /\ user' = [ user EXCEPT ![u] =
                [ org |-> request[r].org, email |-> body.email, active |-> TRUE,
                  branch |-> IF NamesBranch(body) THEN body.branch ELSE None,
                  roles |-> body.roles ] ]
      /\ Respond(r)
      /\ UNCHANGED branch

\* The unique e-mail refuses what the look-up could not see.
InsertUser(r) ==
  LET body == request[r].body
  IN  /\ At(r, "insert")
      /\ \/ EmailTaken(body.email) /\ UNCHANGED user
         \/ /\ ~EmailTaken(body.email)
            /\ \E u \in UserIds :
                 /\ ~UserExists(u)
                 /\ user' = [ user EXCEPT ![u] =
                      [ org |-> request[r].org, email |-> body.email, active |-> TRUE,
                        branch |-> IF NamesBranch(body) THEN body.branch ELSE None,
                        roles |-> body.roles ] ]
      /\ Respond(r)
      /\ UNCHANGED branch

-------------------------------------------------------------------------------
(* UsersService.update and remove                                          *)

\* Mutant of AssertCanAccessUser: neither administrator nor oneself is asked.
AssertCanAccessAnyUser(r) ==
  LET u       == request[r].target
      allowed == UserExists(u) /\ user[u].org = request[r].org
  IN  /\ At(r, "access")
      /\ \/ /\ allowed
            /\ Advance(r, IF request[r].op = "remove" THEN "deactivate"
                          ELSE IF NamesBranch(request[r].body) THEN "resolve"
                          ELSE "write")
         \/ ~allowed /\ Respond(r)
      /\ UNCHANGED <<user, branch>>

AssertCanAccessUser(r) ==
  LET u       == request[r].target
      allowed == /\ UserExists(u)
                 /\ user[u].org = request[r].org
                 /\ request[r].role = "ADMIN" \/ u = request[r].caller
  IN  /\ At(r, "access")
      /\ \/ /\ allowed
            /\ Advance(r, IF request[r].op = "remove" THEN "deactivate"
                          ELSE IF NamesBranch(request[r].body) THEN "resolve"
                          ELSE "write")
         \/ ~allowed /\ Respond(r)
      /\ UNCHANGED <<user, branch>>

Given(value, old) == IF value = Absent THEN old ELSE value

\* The UPDATE of the fields the body names, if it names any.
WriteFields(r) ==
  LET u     == request[r].target
      body  == request[r].body
      clash == body.email # Absent /\ body.email # user[u].email /\ EmailTaken(body.email)
  IN  /\ At(r, "write")
      /\ \/ clash /\ Respond(r) /\ UNCHANGED user
         \/ /\ ~clash
            /\ user' = [ user EXCEPT ![u].email  = Given(body.email, @),
                                     ![u].active = Given(body.active, @),
                                     ![u].branch = Given(body.branch, @) ]
            /\ Advance(r, IF body.roles = Absent THEN "readBack" ELSE "deleteRoles")
      /\ UNCHANGED branch

\* Mutant of DeleteRoles: loadRoles does not count what it has found.
DeleteRolesUnchecked(r) ==
  LET u == request[r].target
  IN  /\ At(r, "deleteRoles")
      /\ user' = [ user EXCEPT ![u].roles = {} ]
      /\ request' = [ request EXCEPT ![r].pc = "createRoles",
                                     ![r].removed = user[u].roles ]
      /\ UNCHANGED branch

\* loadRoles refuses unknown names only now, when the fields are written.
DeleteRoles(r) ==
  LET u     == request[r].target
      known == request[r].body.roles \subseteq Roles
  IN  /\ At(r, "deleteRoles")
      /\ \/ ~known /\ Respond(r) /\ UNCHANGED user
         \/ /\ known
            /\ user' = [ user EXCEPT ![u].roles = {} ]
            /\ request' = [ request EXCEPT ![r].pc = "createRoles",
                                           ![r].removed = user[u].roles ]
      /\ UNCHANGED branch

\* Mutant of CreateRoles: a clash is answered after one more deleteMany.
CreateRolesClearing(r) ==
  LET u     == request[r].target
      roles == request[r].body.roles
      clash == roles \cap user[u].roles # {}
  IN  /\ At(r, "createRoles")
      /\ \/ /\ clash
            /\ user' = [ user EXCEPT ![u].roles = {} ]
            /\ Respond(r)
         \/ /\ ~clash
            /\ user' = [ user EXCEPT ![u].roles = @ \cup roles ]
            /\ Advance(r, "readBack")
      /\ UNCHANGED branch

\* P2002 on (userId, roleId) if another edit has created one of them meanwhile.
CreateRoles(r) ==
  LET u     == request[r].target
      roles == request[r].body.roles
      clash == roles \cap user[u].roles # {}
  IN  /\ At(r, "createRoles")
      /\ \/ clash /\ Respond(r) /\ UNCHANGED user
         \/ /\ ~clash
            /\ user' = [ user EXCEPT ![u].roles = @ \cup roles ]
            /\ Advance(r, "readBack")
      /\ UNCHANGED branch

\* The answer is read from the row.
ReadBack(r) == At(r, "readBack") /\ Respond(r) /\ UNCHANGED <<user, branch>>

\* softDelete
Deactivate(r) ==
  /\ At(r, "deactivate")
  /\ user' = [ user EXCEPT ![request[r].target].active = FALSE ]
  /\ Respond(r)
  /\ UNCHANGED branch

-------------------------------------------------------------------------------
(* BranchesService                                                         *)

InsertBranch(r) ==
  LET body  == request[r].body
      taken == CodeTaken(request[r].org, body.code)
  IN  /\ At(r, "insertBranch")
      /\ \/ taken /\ UNCHANGED branch
         \/ /\ ~taken
            /\ \E b \in BranchIds :
                 /\ ~BranchExists(b)
                 /\ branch' = [ branch EXCEPT ![b] =
                      [ org |-> request[r].org, code |-> body.code,
                        active |-> Given(body.active, TRUE) ] ]
      /\ Respond(r)
      /\ UNCHANGED user

\* findOne and the look-up in the repository's update: branches stay.
FindBranch(r) ==
  LET b     == request[r].target
      found == BranchExists(b) /\ branch[b].org = request[r].org
  IN  /\ At(r, "findBranch")
      /\ \/ found /\ Advance(r, "writeBranch")
         \/ ~found /\ Respond(r)
      /\ UNCHANGED <<user, branch>>

WriteBranch(r) ==
  /\ At(r, "writeBranch")
  /\ branch' = [ branch EXCEPT ![request[r].target].active =
                   Given(request[r].body.active, @) ]
  /\ Respond(r)
  /\ UNCHANGED user

\* A query rejects, or the process stops: what is committed stays.
Abort(r) ==
  /\ request[r].pc \in AbortAt
  /\ Respond(r)
  /\ UNCHANGED <<user, branch>>

-------------------------------------------------------------------------------
Step(r) ==
  \/ Authorize(r)
  \/ Prepare(r) \/ ResolveBranchId(r) \/ InsertUser(r)
  \/ AssertCanAccessUser(r) \/ WriteFields(r) \/ DeleteRoles(r) \/ CreateRoles(r)
  \/ ReadBack(r) \/ Deactivate(r)
  \/ InsertBranch(r) \/ FindBranch(r) \/ WriteBranch(r)

Next ==
  \/ \E r \in Requests, op \in Operations, caller \in UserIds :
       \E target \in Targets(op), body \in BodiesFor(op) :
         Arrive(r, op, caller, target, body)
  \/ \E r \in Requests : Step(r) \/ Abort(r)

Spec == Init /\ [][Next]_vars

-------------------------------------------------------------------------------
(* Properties                                                              *)

RequestRecords ==
  [ pc : Steps, op : Endpoints \cup {None}, caller : UserIds \cup {None},
    org : Organizations \cup {None}, role : CanonicalRoles \cup {None},
    target : UserIds \cup BranchIds \cup {None}, body : Bodies \cup {None},
    removed : SUBSET Roles ]

\* Rows are rows of schema.prisma; in particular no unknown role is ever stored.
TypeOK ==
  /\ user \in [UserIds -> UserRows \cup {None}]
  /\ branch \in [BranchIds -> BranchRows \cup {None}]
  /\ request \in [Requests -> RequestRecords]

\* Whatever creates and edits race each other, no two users share an e-mail and
\* no two branches of an organization a code.
NamesUnique ==
  /\ \A u, v \in UserIds :
       UserExists(u) /\ UserExists(v) /\ user[u].email = user[v].email => u = v
  /\ \A a, b \in BranchIds :
       /\ BranchExists(a) /\ BranchExists(b)
       /\ branch[a].org = branch[b].org /\ branch[a].code = branch[b].code
       => a = b

\* A user is only ever assigned to a branch of the user's own organization,
\* although the branch is looked up with the caller's organization and some
\* statements before it is written.
BranchInOrganization ==
  \A u \in UserIds : UserExists(u) /\ user[u].branch # None =>
    /\ BranchExists(user[u].branch)
    /\ branch[user[u].branch].org = user[u].org

\* Every change to an existing user is made on behalf of an administrator of
\* its organization, or of itself, by the context the request arrived with.
ChangesAuthorized ==
  [][ \A u \in UserIds : UserExists(u) /\ user'[u] # user[u] =>
        \E r \in Requests :
          /\ request'[r] # request[r]
          /\ request[r].target = u
          /\ request[r].org = user[u].org
          /\ request[r].role = "ADMIN" \/ request[r].caller = u ]_vars

EditsRoles(r, u) == At(r, "createRoles") /\ request[r].target = u

\* users.service.ts:179 "User must have at least one role": a user without
\* roles is one whose roles are being replaced.
RolesSettle ==
  \A u \in UserIds : UserExists(u) /\ user[u].roles = {} =>
    \E r \in Requests : EditsRoles(r, u)

\* One request after another, or two that race, the services implement a
\* directory that is consistent after every step, if no query rejects between
\* the deletion of a user's roles and the creation of the new ones: the old
\* roles count until then.
Atomic ==
  INSTANCE Directory WITH
    users <- [ u \in UserIds |->
      IF UserExists(u) /\ user[u].roles = {}
        THEN [ user[u] EXCEPT !.roles =
                 UNION { request[r].removed : r \in { q \in Requests : EditsRoles(q, u) } } ]
        ELSE user[u] ],
    branches <- branch

ImplementsDirectory == Atomic!Spec
===============================================================================
