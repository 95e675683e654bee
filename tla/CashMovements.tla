----------------------------- MODULE CashMovements -----------------------------
(***************************************************************************)
(* The cash-movements component with the request pipeline in front of it.  *)
(*                                                                         *)
(* Every HTTP request occupies a slot and advances from one await to the   *)
(* next: JwtStrategy reads the user and then the roles, PermissionsGuard   *)
(* reads both again, and the service reads what it needs and writes once.  *)
(* Between two awaits any other request, or an administrator's change to   *)
(* users and branches, may run.  No transaction or row version spans two   *)
(* awaits, so whatever a request read may be stale when it writes.         *)
(***************************************************************************)
EXTENDS Integers, BranchAccess

CONSTANTS
  Users,           \* user ids
  OrgOf,           \* organisation of each user; no handler ever changes it
  InitialAccount,  \* the account rows the run starts from
  Movements,       \* ids a movement row may get
  Requests,        \* request slots: how many requests can be in flight
  Operations,      \* the endpoints the clients call in this instance
  Amounts,         \* amounts a create request may carry
  RoleSets,        \* role sets an administrator may assign
  PageSize,        \* most rows on a page of the list endpoint
  MaxChanges       \* bound on administrators' changes

MovementStatus == {"PENDING", "APPROVED", "REJECTED", "DELIVERED"}
Transitions    == {"approve", "reject", "deliver"}
Endpoints      == Transitions \cup {"create", "list"}

\* An account row.  "incoming" is the role set of an edit that has deleted
\* the old UserRole rows and has yet to insert the new ones; {} if none.
AccountRows ==
  [ active : BOOLEAN, branch : Branches \cup {None},
    roles : SUBSET Roles, incoming : SUBSET Roles ]

InOwnOrg(u, branch) == branch = None \/ BranchOrg[branch] = OrgOf[u]

ASSUME CashMovementsAssumption ==
  /\ OrgOf \in [Users -> Orgs]
  /\ InitialAccount \in [Users -> AccountRows]
  /\ \A u \in Users : InOwnOrg(u, InitialAccount[u].branch)
  /\ None \notin Users \cup Movements
  /\ IsFiniteSet(Movements)
  /\ Operations \subseteq Endpoints
  /\ Amounts \subseteq Int
  /\ RoleSets \subseteq (SUBSET Roles) \ {{}}
  /\ PageSize \in Nat \ {0}
  /\ MaxChanges \in Nat

VARIABLES
  account,         \* table User (+ UserRole), by id
  activeBranches,  \* the branches whose isActive is true
  movement,        \* table CashMovement, by id
  passed,          \* history: the statuses each movement has ever held
  request,         \* what each request slot is doing
  changes          \* administrators' changes so far

vars == <<account, activeBranches, movement, passed, request, changes>>

-------------------------------------------------------------------------------
(* The rows and the request record.                                        *)

NoMovement ==
  [ status |-> "ABSENT", org |-> None, branch |-> None, creator |-> None,
    approver |-> None, deliverer |-> None ]

\* What a client sends: the endpoint and the arguments that endpoint takes.
Inputs ==
  [ op : {"create"}, target : {None}, branch : Branches \cup {None},
    amount : Amounts, status : {None} ]
  \cup
  [ op : Transitions, target : Movements, branch : {None}, amount : {1},
    status : {None} ]
  \cup
  [ op : {"list"}, target : {None}, branch : Branches \cup {None},
    amount : {1}, status : {"PENDING", None} ]

Idle ==
  [ pc |-> "idle", user |-> None, input |-> None, branch |-> None,
    role |-> None, read |-> None, scope |-> None, page |-> {}, total |-> 0 ]

At(r, step) == request[r].pc = step

\* An error response, or the end of a successful one: the slot is free again.
Respond(r) == request' = [ request EXCEPT ![r] = Idle ]

Advance(r, step) == request' = [ request EXCEPT ![r].pc = step ]

Caller(r) == request[r].user
Input(r)  == request[r].input

\* AuthenticatedUserContext, the part of req.user the services look at.
Context(r) ==
  [ org |-> OrgOf[Caller(r)], branch |-> request[r].branch,
    role |-> request[r].role ]

Init ==
  /\ account = InitialAccount
  /\ activeBranches = { b \in Branches : BranchOrg[b] # None }
  /\ movement = [ m \in Movements |-> NoMovement ]
  /\ passed = [ m \in Movements |-> {} ]
  /\ request = [ r \in Requests |-> Idle ]
  /\ changes = 0

-------------------------------------------------------------------------------
(* The pipeline: JwtStrategy.validate, then PermissionsGuard.              *)

RequiredPermission(op) ==
  CASE op = "create"  -> "CASH_MOVEMENT_CREATE"
    [] op = "list"    -> "CASH_MOVEMENT_READ"
    [] op = "approve" -> "CASH_MOVEMENT_APPROVE"
    [] op = "reject"  -> "CASH_MOVEMENT_REJECT"
    [] op = "deliver" -> "CASH_MOVEMENT_DELIVER"

\* The first step of the handler each endpoint is bound to.
HandlerOf(op) ==
  CASE op = "create"         -> "resolveForCreate"
    [] op = "list"           -> "resolveForFilter"
    [] op \in Transitions    -> "find"

\* Bound: a create request arrives only while an unused id is left for it.
RoomForCreate ==
  Cardinality({ r \in Requests : request[r].pc # "idle" /\ Input(r).op = "create" })
    < Cardinality({ m \in Movements : movement[m] = NoMovement })

\* A client with a valid access token calls an endpoint.
Arrive(r, u, input) ==
  /\ At(r, "idle")
  /\ input.op \in Operations
  /\ input.op = "create" => RoomForCreate
  /\ request' = [ request EXCEPT ![r] =
                    [Idle EXCEPT !.pc = "readUser", !.user = u, !.input = input] ]
  /\ UNCHANGED <<account, activeBranches, movement, passed, changes>>

ReadUser(r) ==
  /\ At(r, "readUser")
  /\ \/ /\ account[Caller(r)].active
        /\ request' = [ request EXCEPT ![r].pc = "readRoles",
                                       ![r].branch = account[Caller(r)].branch ]
     \/ ~account[Caller(r)].active /\ Respond(r)
  /\ UNCHANGED <<account, activeBranches, movement, passed, changes>>

ReadRoles(r) ==
  /\ At(r, "readRoles")
  /\ request' = [ request EXCEPT
                    ![r].pc = "guardUser",
                    ![r].role = ResolveRuntimeRole(account[Caller(r)].roles) ]
  /\ UNCHANGED <<account, activeBranches, movement, passed, changes>>

GuardUser(r) ==
  /\ At(r, "guardUser")
  /\ \/ account[Caller(r)].active /\ Advance(r, "guardRoles")
     \/ ~account[Caller(r)].active /\ Respond(r)
  /\ UNCHANGED <<account, activeBranches, movement, passed, changes>>

\* Mutant of GuardRoles: a denied request is neither answered nor passed on.
GuardRolesNeverDenies(r) ==
  /\ At(r, "guardRoles")
  /\ RequiredPermission(Input(r).op) \in PermissionsOf(account[Caller(r)].roles)
  /\ Advance(r, HandlerOf(Input(r).op))
  /\ UNCHANGED <<account, activeBranches, movement, passed, changes>>

\* A user without roles holds no permission, so "no roles" is refused too.
GuardRoles(r) ==
  LET permitted == RequiredPermission(Input(r).op)
                     \in PermissionsOf(account[Caller(r)].roles)
  IN  /\ At(r, "guardRoles")
      /\ \/ permitted /\ Advance(r, HandlerOf(Input(r).op))
         \/ ~permitted /\ Respond(r)
      /\ UNCHANGED <<account, activeBranches, movement, passed, changes>>

-------------------------------------------------------------------------------
(* create                                                                  *)

ResolveForCreate(r) ==
  LET outcome == ResolveBranchForCreate(Context(r), Input(r).branch, activeBranches)
      valid   == outcome.code = "OK" /\ Input(r).amount > 0
  IN  /\ At(r, "resolveForCreate")
      /\ \/ /\ valid
            /\ request' = [ request EXCEPT ![r].pc = "insert",
                                           ![r].scope = outcome.branch ]
         \/ ~valid /\ Respond(r)
      /\ UNCHANGED <<account, activeBranches, movement, passed, changes>>

\* Mutant of Insert: the row takes the branch the client sent, not the resolved one.
InsertRequestedBranch(r) ==
  /\ At(r, "insert")
  /\ \E m \in Movements :
       /\ movement[m] = NoMovement
       /\ movement' = [ movement EXCEPT ![m] =
                          [ status |-> "PENDING", org |-> OrgOf[Caller(r)],
                            branch |-> Input(r).branch, creator |-> Caller(r),
                            approver |-> None, deliverer |-> None ] ]
       /\ passed' = [ passed EXCEPT ![m] = {"PENDING"} ]
  /\ Respond(r)
  /\ UNCHANGED <<account, activeBranches, changes>>

Insert(r) ==
  /\ At(r, "insert")
  /\ \E m \in Movements :
       /\ movement[m] = NoMovement
       /\ movement' = [ movement EXCEPT ![m] =
                          [ status |-> "PENDING", org |-> OrgOf[Caller(r)],
                            branch |-> request[r].scope, creator |-> Caller(r),
                            approver |-> None, deliverer |-> None ] ]
       /\ passed' = [ passed EXCEPT ![m] = {"PENDING"} ]
  /\ Respond(r)
  /\ UNCHANGED <<account, activeBranches, changes>>

-------------------------------------------------------------------------------
(* approve, reject, deliver                                                *)

\* Mutants of ValidTransitions: an approved movement may still be rejected;
\* a pending one may be delivered.
RejectAfterApproval ==
  { <<"PENDING", "APPROVED">>, <<"PENDING", "REJECTED">>,
    <<"APPROVED", "DELIVERED">>, <<"APPROVED", "REJECTED">> }

DeliverWithoutApproval ==
  { <<"PENDING", "APPROVED">>, <<"PENDING", "REJECTED">>,
    <<"APPROVED", "DELIVERED">>, <<"PENDING", "DELIVERED">> }

ValidTransitions ==
  { <<"PENDING", "APPROVED">>, <<"PENDING", "REJECTED">>,
    <<"APPROVED", "DELIVERED">> }

TargetStatus(op) ==
  CASE op = "approve" -> "APPROVED"
    [] op = "reject"  -> "REJECTED"
    [] op = "deliver" -> "DELIVERED"

\* Not found, and found in another organisation, are the same 404.
FindMovement(r) ==
  LET m == Input(r).target
  IN  /\ At(r, "find")
      /\ \/ /\ movement[m] # NoMovement /\ movement[m].org = OrgOf[Caller(r)]
            /\ request' = [ request EXCEPT ![r].pc = "access",
                                           ![r].read = movement[m].status ]
         \/ /\ movement[m] = NoMovement \/ movement[m].org # OrgOf[Caller(r)]
            /\ Respond(r)
      /\ UNCHANGED <<account, activeBranches, movement, passed, changes>>

\* assertBranchAccessible, and after it the check of the status read before.
CheckAccess(r) ==
  LET op      == Input(r).op
      allowed == /\ BranchAccessible(Context(r), movement[Input(r).target].branch)
                 /\ <<request[r].read, TargetStatus(op)>> \in ValidTransitions
  IN  /\ At(r, "access")
      /\ \/ allowed /\ Advance(r, "write")
         \/ ~allowed /\ Respond(r)
      /\ UNCHANGED <<account, activeBranches, movement, passed, changes>>

\* Mutant of Signed: reject leaves the approver of the row it overwrites.
SignedKeepingApprover(row, op, u) ==
  [ row EXCEPT
      !.status    = TargetStatus(op),
      !.approver  = IF op = "approve" THEN u ELSE row.approver,
      !.deliverer = IF op = "deliver" THEN u ELSE row.deliverer ]

\* The row after updateStatus: approve signs approvedById, reject clears it,
\* deliver signs deliveredById and leaves approvedById as it is.
Signed(row, op, u) ==
  [ row EXCEPT
      !.status    = TargetStatus(op),
      !.approver  = CASE op = "approve" -> u
                      [] op = "reject"  -> None
                      [] op = "deliver" -> row.approver,
      !.deliverer = IF op = "deliver" THEN u ELSE row.deliverer ]

\* UPDATE ... WHERE id: nothing is re-checked.
WriteStatus(r) ==
  LET m  == Input(r).target
      op == Input(r).op
  IN  /\ At(r, "write")
      /\ movement' = [ movement EXCEPT ![m] = Signed(movement[m], op, Caller(r)) ]
      /\ passed' = [ passed EXCEPT ![m] = @ \cup {TargetStatus(op)} ]
      /\ Respond(r)
      /\ UNCHANGED <<account, activeBranches, changes>>

-------------------------------------------------------------------------------
(* list                                                                    *)

ResolveForFilter(r) ==
  LET outcome == ResolveBranchForFilter(Context(r), Input(r).branch)
  IN  /\ At(r, "resolveForFilter")
      /\ \/ /\ outcome.code = "OK"
            /\ request' = [ request EXCEPT ![r].pc = "items",
                                           ![r].scope = outcome.branch ]
         \/ outcome.code # "OK" /\ Respond(r)
      /\ UNCHANGED <<account, activeBranches, movement, passed, changes>>

\* Mutants of Matching: no organisation in the where-clause; only pending rows
\* unless a status is asked for.
MatchingAnyOrg(r) ==
  { m \in Movements :
      /\ movement[m] # NoMovement
      /\ request[r].scope \in {None, movement[m].branch}
      /\ Input(r).status \in {None, movement[m].status} }

MatchingPendingByDefault(r) ==
  { m \in Movements :
      /\ movement[m] # NoMovement
      /\ movement[m].org = OrgOf[Caller(r)]
      /\ request[r].scope \in {None, movement[m].branch}
      /\ movement[m].status = "PENDING" }

\* The rows the where-clause of a list request selects.
Matching(r) ==
  { m \in Movements :
      /\ movement[m] # NoMovement
      /\ movement[m].org = OrgOf[Caller(r)]
      /\ request[r].scope \in {None, movement[m].branch}
      /\ Input(r).status \in {None, movement[m].status} }

\* findMany of one page, then count: two statements, two snapshots.  The client chooses
\* page and page size, and the order of the rows is not modelled: the page is any few of
\* them, and empty past the last.
ListItems(r) ==
  /\ At(r, "items")
  /\ \E page \in SUBSET Matching(r) :
       /\ Cardinality(page) <= PageSize
       /\ request' = [ request EXCEPT ![r].pc = "count", ![r].page = page ]
  /\ UNCHANGED <<account, activeBranches, movement, passed, changes>>

CountItems(r) ==
  /\ At(r, "count")
  /\ request' = [ request EXCEPT ![r].pc = "reply",
                                 ![r].total = Cardinality(Matching(r)) ]
  /\ UNCHANGED <<account, activeBranches, movement, passed, changes>>

Reply(r) ==
  /\ At(r, "reply")
  /\ Respond(r)
  /\ UNCHANGED <<account, activeBranches, movement, passed, changes>>

\* A query rejects, or the server process stops: the request ends where it is.
Abort(r) ==
  /\ ~At(r, "idle")
  /\ Respond(r)
  /\ UNCHANGED <<account, activeBranches, movement, passed, changes>>

-------------------------------------------------------------------------------
(* What administrators change meanwhile, as the rows other modules write.  *)

Administer == changes < MaxChanges /\ changes' = changes + 1

\* UsersService.update and remove: branch and isActive in one statement.
UpdateUser(u) ==
  /\ Administer
  /\ \E branch \in { b \in Branches \cup {None} : InOwnOrg(u, b) }, active \in BOOLEAN :
       account' = [ account EXCEPT ![u].branch = branch, ![u].active = active ]
  /\ UNCHANGED <<activeBranches, movement, passed, request>>

\* UsersService.update with roles: delete all, then insert the new ones.
DeleteRoles(u) ==
  /\ Administer
  /\ account[u].incoming = {}
  /\ \E roles \in RoleSets :
       account' = [ account EXCEPT ![u].roles = {}, ![u].incoming = roles ]
  /\ UNCHANGED <<activeBranches, movement, passed, request>>

\* The insert may also fail, or never run: the user is left without roles.
CreateRoles(u) ==
  /\ account[u].incoming # {}
  /\ \E roles \in {account[u].incoming, {}} :
       account' = [ account EXCEPT ![u].roles = roles, ![u].incoming = {} ]
  /\ UNCHANGED <<activeBranches, movement, passed, request, changes>>

\* BranchesService.update of isActive.
SetBranchActive(b) ==
  /\ Administer
  /\ BranchOrg[b] # None
  /\ \/ activeBranches' = activeBranches \cup {b}
     \/ activeBranches' = activeBranches \ {b}
  /\ UNCHANGED <<account, movement, passed, request>>

-------------------------------------------------------------------------------
Step(r) ==
  \/ ReadUser(r) \/ ReadRoles(r) \/ GuardUser(r) \/ GuardRoles(r)
  \/ ResolveForCreate(r) \/ Insert(r)
  \/ FindMovement(r) \/ CheckAccess(r) \/ WriteStatus(r)
  \/ ResolveForFilter(r) \/ ListItems(r) \/ CountItems(r) \/ Reply(r)

Administration ==
  \/ \E u \in Users : UpdateUser(u) \/ DeleteRoles(u) \/ CreateRoles(u)
  \/ \E b \in Branches : SetBranchActive(b)

Next ==
  \/ \E r \in Requests, u \in Users, input \in Inputs : Arrive(r, u, input)
  \/ \E r \in Requests : Step(r) \/ Abort(r)
  \/ Administration

Spec == Init /\ [][Next]_vars

\* The event loop resumes every handler whose query has been answered.
FairSpec == Spec /\ \A r \in Requests : WF_vars(Step(r))

-------------------------------------------------------------------------------
(* Properties                                                              *)

Steps ==
  { "idle", "readUser", "readRoles", "guardUser", "guardRoles",
    "resolveForCreate", "insert", "find", "access", "write",
    "resolveForFilter", "items", "count", "reply" }

MovementRows ==
  [ status : MovementStatus, org : Orgs, branch : Branches, creator : Users,
    approver : Users \cup {None}, deliverer : Users \cup {None} ]

RequestRecords ==
  [ pc : Steps, user : Users \cup {None}, input : Inputs \cup {None},
    branch : Branches \cup {None}, role : CanonicalRoles \cup {None},
    read : MovementStatus \cup {None}, scope : Branches \cup {None},
    page : SUBSET Movements, total : Nat ]

\* Every variable holds rows of its table (schema.prisma) or a request record.
TypeOK ==
  /\ account \in [Users -> AccountRows]
  /\ activeBranches \subseteq Branches
  /\ movement \in [Movements -> MovementRows \cup {NoMovement}]
  /\ passed \in [Movements -> SUBSET MovementStatus]
  /\ request \in [Requests -> RequestRecords]
  /\ changes \in Nat

\* Tenant isolation of writes: a movement's branch and everyone who created,
\* approved or delivered it belong to the movement's own organisation,
\* whatever users, branches and other requests do between the checks and the
\* write.
TenantIsolation ==
  \A m \in Movements : movement[m] # NoMovement =>
    /\ BranchOrg[movement[m].branch] = movement[m].org
    /\ \A u \in {movement[m].creator, movement[m].approver, movement[m].deliverer} :
         u # None => OrgOf[u] = movement[m].org

\* Signatures agree with the status however stale writes interleave: nobody
\* has signed a PENDING row, an APPROVED one has its approver, a REJECTED one
\* has none, and a DELIVERED one has its deliverer.
SignaturesMatchStatus ==
  \A m \in Movements :
    LET row == movement[m]
    IN  CASE row.status = "PENDING"   -> row.approver = None /\ row.deliverer = None
          [] row.status = "APPROVED"  -> row.approver # None
          [] row.status = "REJECTED"  -> row.approver = None
          [] row.status = "DELIVERED" -> row.deliverer # None
          [] row.status = "ABSENT"    -> passed[m] = {}

\* Money is never handed over on a movement that was not approved at some time
\* before, even by a request that acts on a status it read long ago.
DeliveredWasApproved ==
  \A m \in Movements : "DELIVERED" \in passed[m] => "APPROVED" \in passed[m]

\* What a list request has read is within its caller's organisation and, for a
\* branch-scoped context, within that one branch.
ListedRowsInScope ==
  \A r \in Requests : \A m \in request[r].page :
    /\ movement[m].org = OrgOf[Caller(r)]
    /\ IsBranchScoped(Context(r)) => movement[m].branch = request[r].branch

\* meta.total covers the rows of the page although it is counted by a later
\* statement than the page is read by.  Only without a status filter: with
\* one, a listed row may change status before the count.
TotalCoversPage ==
  \A r \in Requests : At(r, "reply") /\ Input(r).status = None =>
    request[r].total >= Cardinality(request[r].page)

\* The writes of a step are in scope: a row changes only by a request that ends
\* with it, belongs to the row's organisation and, when its context is
\* branch-scoped, writes in its own branch.
WriteInScope ==
  \A m \in Movements : movement'[m] # movement[m] =>
    \E r \in Requests :
      /\ ~At(r, "idle") /\ request'[r].pc = "idle"
      /\ movement'[m].org = OrgOf[Caller(r)]
      /\ IsBranchScoped(Context(r)) => movement'[m].branch = request[r].branch

\* Every write of every step is in scope, although the scope was established
\* several awaits before.
WritesInScope == [][WriteInScope]_vars

\* The documented workflow (docs/RBAC_AND_SCOPE.md): every change of a status
\* is PENDING -> APPROVED, PENDING -> REJECTED or APPROVED -> DELIVERED.
FollowsWorkflow ==
  [][ \A m \in Movements :
        movement[m] # NoMovement /\ movement'[m].status # movement[m].status =>
          \/ movement[m].status = "PENDING" /\ movement'[m].status \in {"APPROVED", "REJECTED"}
          \/ movement[m].status = "APPROVED" /\ movement'[m].status = "DELIVERED"
    ]_vars

\* Every request is answered: no await is left without a continuation.
RequestsAnswered == \A r \in Requests : ~At(r, "idle") ~> At(r, "idle")

\* One request at a time, the component implements the atomic workflow.
Workflow ==
  INSTANCE MovementWorkflow WITH
    row <- [ m \in Movements |->
               [ status |-> movement[m].status, org |-> movement[m].org,
                 creator |-> movement[m].creator, approver |-> movement[m].approver,
                 deliverer |-> movement[m].deliverer ] ]

ImplementsWorkflow == Workflow!Spec
=============================================================================
