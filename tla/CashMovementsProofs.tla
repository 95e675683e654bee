-------------------------- MODULE CashMovementsProofs --------------------------
(***************************************************************************)
(* Proofs about CashMovements for any tenants, users, branches, movements  *)
(* and any number of concurrent requests.                                  *)
(*                                                                         *)
(* The inductive invariant says of every row what the workflow has made of *)
(* it (RowOK), and of every request in flight what its past reads still    *)
(* guarantee (RequestOK).  The second part survives other requests' writes *)
(* because a row never changes its organisation or branch and the set of   *)
(* statuses it has passed through only grows (RowsEvolve).                 *)
(***************************************************************************)
EXTENDS CashMovements, FiniteSetTheorems, TLAPS

Contexts == [org : Orgs, branch : Branches \cup {None}, role : CanonicalRoles]

ContextOf(q) == [org |-> OrgOf[q.user], branch |-> q.branch, role |-> q.role]

\* What a request record q guarantees at the step it has reached.
RequestOK(q) ==
  /\ q.pc # "idle" => q.user \in Users /\ q.input \in Inputs
  /\ q.pc \notin {"idle", "readUser", "readRoles"} => q.role \in CanonicalRoles
  /\ q.pc \in {"resolveForCreate", "insert"} => q.input.op = "create"
  /\ q.pc \in {"find", "access", "write"} => q.input.op \in Transitions
  /\ q.pc \in {"resolveForFilter", "items", "count", "reply"} => q.input.op = "list"
  /\ q.pc = "insert" =>
       /\ q.scope \in Branches
       /\ BranchOrg[q.scope] = OrgOf[q.user]
       /\ IsBranchScoped(ContextOf(q)) => q.scope = q.branch
  /\ q.pc \in {"access", "write"} =>
       /\ movement[q.input.target] # NoMovement
       /\ movement[q.input.target].org = OrgOf[q.user]
       /\ q.read \in passed[q.input.target]
  /\ q.pc = "write" =>
       /\ <<q.read, TargetStatus(q.input.op)>> \in ValidTransitions
       /\ IsBranchScoped(ContextOf(q)) => movement[q.input.target].branch = q.branch
  /\ q.pc \in {"items", "count", "reply"} =>
       (IsBranchScoped(ContextOf(q)) => q.scope = q.branch /\ q.branch # None)
  /\ q.page # {} => q.pc \in {"count", "reply"}
  /\ \A m \in q.page :
       /\ movement[m] # NoMovement
       /\ movement[m].org = OrgOf[q.user]
       /\ IsBranchScoped(ContextOf(q)) => movement[m].branch = q.branch

\* What a row and its history guarantee.
RowOK(m) ==
  LET row == movement[m]
  IN  /\ row = NoMovement => passed[m] = {}
      /\ row # NoMovement =>
           /\ row.status \in passed[m]
           /\ BranchOrg[row.branch] = row.org
           /\ \A u \in {row.creator, row.approver, row.deliverer} :
                u # None => OrgOf[u] = row.org
           /\ row.status = "PENDING"   => row.approver = None /\ row.deliverer = None
           /\ row.status = "APPROVED"  => row.approver # None
           /\ row.status = "REJECTED"  => row.approver = None
           /\ row.status = "DELIVERED" => row.deliverer # None
      /\ "DELIVERED" \in passed[m] => "APPROVED" \in passed[m]

IInv ==
  /\ TypeOK
  /\ \A r \in Requests : RequestOK(request[r])
  /\ \A m \in Movements : RowOK(m)

-------------------------------------------------------------------------------
(* BranchAccess                                                            *)

\* A lookup that succeeds returns the branch asked for, a row of the organisation.
LEMMA LookupGranted ==
  ASSUME NEW org \in Orgs, NEW branch \in Branches, NEW usable,
         LookupBranch(org, branch, usable).code = "OK"
  PROVE  /\ LookupBranch(org, branch, usable).branch = branch
         /\ BranchOrg[branch] = org
<1>1. CASE BranchOrg[branch] = None
  BY <1>1, BranchAssumption DEF LookupBranch, Refused
<1>2. CASE BranchOrg[branch] \notin {None, org}
  BY <1>2, BranchAssumption DEF LookupBranch, Refused
<1>3. CASE BranchOrg[branch] = org /\ branch \notin usable
  BY <1>3, BranchAssumption DEF LookupBranch, Refused
<1>4. CASE BranchOrg[branch] = org /\ branch \in usable
  BY <1>4, BranchAssumption DEF LookupBranch, Granted
<1> QED
  BY <1>1, <1>2, <1>3, <1>4

\* Another branch is always denied, with one code or another.
LEMMA OtherBranchDenied ==
  ASSUME NEW org \in Orgs, NEW branch \in Branches
  PROVE  DenyOtherBranch(org, branch).code # "OK"
BY DEF DenyOtherBranch, Refused

\* A branch granted for create is a row of the context's organisation and,
\* for a branch-scoped context, its own branch.
LEMMA CreateBranch ==
  ASSUME NEW ctx \in Contexts, NEW requested \in Branches \cup {None}, NEW active,
         ResolveBranchForCreate(ctx, requested, active).code = "OK"
  PROVE  /\ ResolveBranchForCreate(ctx, requested, active).branch \in Branches
         /\ BranchOrg[ResolveBranchForCreate(ctx, requested, active).branch] = ctx.org
         /\ IsBranchScoped(ctx) =>
              ResolveBranchForCreate(ctx, requested, active).branch = ctx.branch
<1> DEFINE outcome == ResolveBranchForCreate(ctx, requested, active)
<1>0. ctx.org \in Orgs /\ ctx.branch \in Branches \cup {None}
  BY DEF Contexts
<1>1. CASE MissingBranch(ctx)
  BY <1>1 DEF ResolveBranchForCreate, Refused, IsBranchScoped, MissingBranch
<1>2. CASE IsBranchScoped(ctx) /\ ~MissingBranch(ctx)
  <2>1. ctx.branch \in Branches
    BY <1>0, <1>2 DEF IsBranchScoped, MissingBranch
  <2>2. outcome = IF ctx.role = "MANAGER" /\ requested \notin {None, ctx.branch}
                    THEN DenyOtherBranch(ctx.org, requested)
                    ELSE LookupBranch(ctx.org, ctx.branch, active)
    BY <1>2 DEF ResolveBranchForCreate
  <2>3. outcome = LookupBranch(ctx.org, ctx.branch, active)
    BY <1>0, <2>2, OtherBranchDenied
  <2> QED
    BY <1>0, <2>1, <2>3, LookupGranted
<1>3. CASE ~IsBranchScoped(ctx)
  <2>1. outcome = IF requested = None THEN Refused("BRANCH_SCOPE_REQUIRED")
                                      ELSE LookupBranch(ctx.org, requested, active)
    BY <1>3 DEF ResolveBranchForCreate, IsBranchScoped, MissingBranch
  <2>2. requested \in Branches /\ outcome = LookupBranch(ctx.org, requested, active)
    BY <2>1 DEF Refused
  <2> QED
    BY <1>0, <1>3, <2>2, LookupGranted
<1> QED
  BY <1>1, <1>2, <1>3

\* A branch granted as a filter is a branch or the whole organisation, and a
\* branch-scoped context always gets its own branch.
LEMMA FilterBranch ==
  ASSUME NEW ctx \in Contexts, NEW requested \in Branches \cup {None},
         ResolveBranchForFilter(ctx, requested).code = "OK"
  PROVE  /\ ResolveBranchForFilter(ctx, requested).branch \in Branches \cup {None}
         /\ IsBranchScoped(ctx) =>
              /\ ResolveBranchForFilter(ctx, requested).branch = ctx.branch
              /\ ctx.branch # None
<1> DEFINE outcome == ResolveBranchForFilter(ctx, requested)
<1>0. ctx.org \in Orgs /\ ctx.branch \in Branches \cup {None}
  BY DEF Contexts
<1>1. CASE MissingBranch(ctx)
  BY <1>1 DEF ResolveBranchForFilter, Refused, IsBranchScoped, MissingBranch
<1>2. CASE IsBranchScoped(ctx) /\ ~MissingBranch(ctx)
  <2>1. ctx.branch \in Branches /\ ctx.branch # None
    BY <1>0, <1>2, BranchAssumption DEF IsBranchScoped, MissingBranch
  <2>2. outcome = IF requested \notin {None, ctx.branch}
                    THEN DenyOtherBranch(ctx.org, requested)
                    ELSE LookupBranch(ctx.org, ctx.branch, Branches)
    BY <1>2 DEF ResolveBranchForFilter
  <2>3. outcome = LookupBranch(ctx.org, ctx.branch, Branches)
    BY <1>0, <2>2, OtherBranchDenied
  <2> QED
    BY <1>0, <2>1, <2>3, LookupGranted
<1>3. CASE ~IsBranchScoped(ctx)
  <2>1. outcome = IF requested = None THEN Granted(None)
                                      ELSE LookupBranch(ctx.org, requested, Branches)
    BY <1>3 DEF ResolveBranchForFilter, IsBranchScoped, MissingBranch
  <2> QED
    BY <1>0, <1>3, <2>1, LookupGranted DEF Granted
<1> QED
  BY <1>1, <1>2, <1>3

\* Only records of its own branch are accessible to a branch-scoped context.
LEMMA AccessibleBranch ==
  ASSUME NEW ctx \in Contexts, NEW branch \in Branches,
         BranchAccessible(ctx, branch), IsBranchScoped(ctx)
  PROVE  branch = ctx.branch
<1>1. ResolveBranchForFilter(ctx, None).code = "OK"
  BY DEF BranchAccessible
<1>2. ResolveBranchForFilter(ctx, None).branch = ctx.branch /\ ctx.branch # None
  BY <1>1, FilterBranch
<1> QED
  BY <1>1, <1>2 DEF BranchAccessible

-------------------------------------------------------------------------------
(* Requests and rows                                                       *)

\* The arguments of an input are those of its endpoint.
LEMMA InputTypes ==
  ASSUME NEW input \in Inputs
  PROVE  /\ input.op \in Endpoints
         /\ input.op \in Transitions => input.target \in Movements
         /\ input.branch \in Branches \cup {None}
BY DEF Inputs, Endpoints, Transitions

\* A free slot guarantees everything.
LEMMA IdleOK ==
  Idle \in RequestRecords /\ RequestOK(Idle)
BY DEF Idle, RequestRecords, Steps, RequestOK

\* What a request guarantees survives any change of the rows that keeps their
\* identity, organisation and branch and only adds to their history.
LEMMA RowsEvolve ==
  ASSUME NEW q \in RequestRecords, RequestOK(q),
         \A m \in Movements :
           /\ passed[m] \subseteq passed'[m]
           /\ movement[m] # NoMovement =>
                /\ movement'[m] # NoMovement
                /\ movement'[m].org = movement[m].org
                /\ movement'[m].branch = movement[m].branch
  PROVE  RequestOK(q)'
<1>1. q.page \subseteq Movements
  BY DEF RequestRecords
<1>2. q.pc \in {"access", "write"} => q.input.target \in Movements
  BY InputTypes DEF RequestOK
<1>3. \A m \in q.page :
         /\ movement'[m] # NoMovement
         /\ movement'[m].org = OrgOf[q.user]
         /\ IsBranchScoped(ContextOf(q)) => movement'[m].branch = q.branch
  BY <1>1 DEF RequestOK
<1>4. q.pc \in {"access", "write"} =>
        /\ movement'[q.input.target] # NoMovement
        /\ movement'[q.input.target].org = OrgOf[q.user]
        /\ q.read \in passed'[q.input.target]
  BY <1>2 DEF RequestOK
<1>5. q.pc = "write" =>
        /\ <<q.read, TargetStatus(q.input.op)>> \in ValidTransitions
        /\ IsBranchScoped(ContextOf(q)) => movement'[q.input.target].branch = q.branch
  BY <1>2 DEF RequestOK
<1> QED
  BY <1>3, <1>4, <1>5 DEF RequestOK

\* A step that only moves one request on, to a record that guarantees what it
\* should, preserves the invariant.
LEMMA RecordStep ==
  ASSUME IInv, NEW r \in Requests, NEW q \in RequestRecords, RequestOK(q),
         request' = [ request EXCEPT ![r] = q ],
         UNCHANGED <<account, activeBranches, movement, passed, changes>>
  PROVE  IInv'
<1>1. TypeOK'
  BY DEF IInv, TypeOK
<1>2. ASSUME NEW s \in Requests
      PROVE  RequestOK(request[s])'
  <2>1. request'[s] = IF s = r THEN q ELSE request[s]
    BY DEF IInv, TypeOK
  <2>2. request'[s] \in RequestRecords /\ RequestOK(request'[s])
    BY <2>1 DEF IInv, TypeOK
  <2> QED
    BY <2>2 DEF RequestOK
<1>3. ASSUME NEW m \in Movements
      PROVE  RowOK(m)'
  BY DEF IInv, RowOK
<1> QED
  BY <1>1, <1>2, <1>3 DEF IInv

\* An answered request leaves a free slot.
LEMMA ResponseStep ==
  ASSUME IInv, NEW r \in Requests, Respond(r),
         UNCHANGED <<account, activeBranches, movement, passed, changes>>
  PROVE  IInv'
BY IdleOK, RecordStep DEF Respond

-------------------------------------------------------------------------------
(* Every step preserves the invariant: the request pipeline.               *)

\* A new request starts with nothing read: its record guarantees nothing yet.
LEMMA ArriveStep ==
  ASSUME IInv, NEW r \in Requests, NEW u \in Users, NEW input \in Inputs,
         Arrive(r, u, input)
  PROVE  IInv'
<1> DEFINE q == [ Idle EXCEPT !.pc = "readUser", !.user = u, !.input = input ]
<1>1. q \in RequestRecords
  BY DEF Idle, RequestRecords, Steps
<1>2. RequestOK(q)
  BY DEF Idle, RequestOK
<1> QED
  BY <1>1, <1>2, RecordStep DEF Arrive

\* Reading the user row fixes the branch of the context, or ends the request.
LEMMA ReadUserStep ==
  ASSUME IInv, NEW r \in Requests, ReadUser(r)
  PROVE  IInv'
<1> DEFINE q == [ request[r] EXCEPT !.pc = "readRoles",
                                    !.branch = account[Caller(r)].branch ]
<1>1. request[r] \in RequestRecords /\ RequestOK(request[r]) /\ Caller(r) \in Users
  BY DEF IInv, TypeOK, ReadUser, At, RequestOK, Caller
<1>2. account[Caller(r)].branch \in Branches \cup {None}
  BY <1>1 DEF IInv, TypeOK, AccountRows
<1>3. q \in RequestRecords
  BY <1>1, <1>2 DEF RequestRecords, Steps
<1>4. RequestOK(q)
  BY <1>1 DEF ReadUser, At, RequestOK, RequestRecords
<1>5. CASE Respond(r)
  BY <1>5, ResponseStep DEF ReadUser
<1>6. CASE ~Respond(r)
  <2>1. request' = [ request EXCEPT ![r] = q ]
    BY <1>6 DEF ReadUser, IInv, TypeOK
  <2> QED
    BY <2>1, <1>3, <1>4, RecordStep DEF ReadUser
<1> QED
  BY <1>5, <1>6

\* Reading the roles fixes the runtime role of the context.
LEMMA ReadRolesStep ==
  ASSUME IInv, NEW r \in Requests, ReadRoles(r)
  PROVE  IInv'
<1> DEFINE role == ResolveRuntimeRole(account[Caller(r)].roles)
           q == [ request[r] EXCEPT !.pc = "guardUser", !.role = role ]
<1>1. request[r] \in RequestRecords /\ RequestOK(request[r])
  BY DEF IInv, TypeOK
<1>2. role \in CanonicalRoles
  BY DEF ResolveRuntimeRole, CanonicalRoles
<1>3. q \in RequestRecords
  BY <1>1, <1>2 DEF RequestRecords, Steps
<1>4. RequestOK(q)
  BY <1>1, <1>2 DEF ReadRoles, At, RequestOK, RequestRecords
<1>5. request' = [ request EXCEPT ![r] = q ]
  BY DEF ReadRoles, IInv, TypeOK
<1> QED
  BY <1>3, <1>4, <1>5, RecordStep DEF ReadRoles

\* The guard's re-read of the user only passes the request on or ends it.
LEMMA GuardUserStep ==
  ASSUME IInv, NEW r \in Requests, GuardUser(r)
  PROVE  IInv'
<1> DEFINE q == [ request[r] EXCEPT !.pc = "guardRoles" ]
<1>1. request[r] \in RequestRecords /\ RequestOK(request[r])
  BY DEF IInv, TypeOK
<1>2. q \in RequestRecords
  BY <1>1 DEF RequestRecords, Steps
<1>3. RequestOK(q)
  BY <1>1 DEF GuardUser, At, RequestOK, RequestRecords, ContextOf
<1>4. CASE Respond(r)
  BY <1>4, ResponseStep DEF GuardUser
<1>5. CASE Advance(r, "guardRoles")
  BY <1>2, <1>3, <1>5, RecordStep DEF GuardUser, Advance, IInv, TypeOK
<1> QED
  BY <1>4, <1>5 DEF GuardUser

\* A permitted request enters the handler its endpoint is bound to, no other.
LEMMA GuardRolesStep ==
  ASSUME IInv, NEW r \in Requests, GuardRoles(r)
  PROVE  IInv'
<1> DEFINE step == HandlerOf(Input(r).op)
           q == [ request[r] EXCEPT !.pc = step ]
<1>1. request[r] \in RequestRecords /\ RequestOK(request[r])
  BY DEF IInv, TypeOK
<1>2. Input(r).op \in Endpoints
  BY <1>1, InputTypes DEF GuardRoles, At, Input, RequestOK
<1>3. \/ step = "resolveForCreate" /\ Input(r).op = "create"
      \/ step = "resolveForFilter" /\ Input(r).op = "list"
      \/ step = "find" /\ Input(r).op \in Transitions
  BY <1>2 DEF HandlerOf, Endpoints, Transitions
<1>4. q \in RequestRecords
  BY <1>1, <1>3 DEF RequestRecords, Steps
<1>5. RequestOK(q)
  BY <1>1, <1>3 DEF GuardRoles, At, Input, RequestOK, RequestRecords, ContextOf,
                    IsBranchScoped
<1>6. CASE Respond(r)
  BY <1>6, ResponseStep DEF GuardRoles
<1>7. CASE Advance(r, step)
  BY <1>4, <1>5, <1>7, RecordStep DEF GuardRoles, Advance, IInv, TypeOK
<1> QED
  BY <1>6, <1>7 DEF GuardRoles

-------------------------------------------------------------------------------
(* The handlers.                                                           *)

\* From the guard on, the context of a request is complete.
LEMMA ContextTyped ==
  ASSUME IInv, NEW r \in Requests,
         request[r].pc \notin {"idle", "readUser", "readRoles"}
  PROVE  /\ request[r] \in RequestRecords /\ RequestOK(request[r])
         /\ Context(r) \in Contexts /\ Context(r) = ContextOf(request[r])
         /\ Caller(r) \in Users /\ Input(r) \in Inputs
<1>1. request[r] \in RequestRecords /\ RequestOK(request[r])
  BY DEF IInv, TypeOK
<1>2. Caller(r) \in Users /\ Input(r) \in Inputs /\ request[r].role \in CanonicalRoles
  BY <1>1 DEF RequestOK, Caller, Input
<1>3. request[r].branch \in Branches \cup {None}
  BY <1>1 DEF RequestRecords
<1>4. OrgOf[Caller(r)] \in Orgs
  BY <1>2, CashMovementsAssumption
<1> QED
  BY <1>1, <1>2, <1>3, <1>4 DEF Context, Contexts, ContextOf, Caller

\* What the insert relies on is established: a branch of the caller's organisation.
LEMMA ResolveForCreateStep ==
  ASSUME IInv, NEW r \in Requests, ResolveForCreate(r)
  PROVE  IInv'
<1> DEFINE outcome == ResolveBranchForCreate(Context(r), Input(r).branch, activeBranches)
           q == [ request[r] EXCEPT !.pc = "insert", !.scope = outcome.branch ]
<1>1. /\ request[r] \in RequestRecords /\ RequestOK(request[r])
      /\ Context(r) \in Contexts /\ Context(r) = ContextOf(request[r])
      /\ Input(r).branch \in Branches \cup {None}
  BY ContextTyped, InputTypes DEF ResolveForCreate, At
<1>2. CASE Respond(r)
  BY <1>2, ResponseStep DEF ResolveForCreate
<1>3. CASE ~Respond(r)
  <2>1. outcome.code = "OK" /\ request' = [ request EXCEPT ![r] = q ]
    BY <1>3 DEF ResolveForCreate, IInv, TypeOK
  <2>2. /\ outcome.branch \in Branches
        /\ BranchOrg[outcome.branch] = Context(r).org
        /\ IsBranchScoped(Context(r)) => outcome.branch = Context(r).branch
    BY <1>1, <2>1, CreateBranch
  <2>3. /\ Context(r).org = OrgOf[q.user] /\ Context(r).branch = q.branch
        /\ ContextOf(q) = Context(r)
    BY <1>1 DEF Context, ContextOf, Caller, RequestRecords
  <2>4. q \in RequestRecords
    BY <1>1, <2>2 DEF RequestRecords, Steps
  <2>5. RequestOK(q)
    BY <1>1, <2>2, <2>3 DEF ResolveForCreate, At, RequestOK, RequestRecords
  <2> QED
    BY <2>1, <2>4, <2>5, RecordStep DEF ResolveForCreate
<1> QED
  BY <1>2, <1>3

\* A movement found is one of the caller's organisation, with a status it has held.
LEMMA FindMovementStep ==
  ASSUME IInv, NEW r \in Requests, FindMovement(r)
  PROVE  IInv'
<1> DEFINE m == Input(r).target
           q == [ request[r] EXCEPT !.pc = "access", !.read = movement[m].status ]
<1>1. /\ request[r] \in RequestRecords /\ RequestOK(request[r])
      /\ Context(r) = ContextOf(request[r])
      /\ Input(r) \in Inputs
  BY ContextTyped DEF FindMovement, At
<1>2. m \in Movements
  BY <1>1, InputTypes DEF FindMovement, At, RequestOK, Input
<1>3. CASE Respond(r)
  BY <1>3, ResponseStep DEF FindMovement
<1>4. CASE ~Respond(r)
  <2>1. /\ movement[m] # NoMovement /\ movement[m].org = OrgOf[Caller(r)]
        /\ request' = [ request EXCEPT ![r] = q ]
    BY <1>4 DEF FindMovement, IInv, TypeOK
  <2>2. movement[m].status \in MovementStatus /\ movement[m].status \in passed[m]
    BY <1>2, <2>1 DEF IInv, TypeOK, MovementRows, RowOK
  <2>3. q \in RequestRecords
    BY <1>1, <2>2 DEF RequestRecords, Steps
  <2>4. RequestOK(q)
    BY <1>1, <2>1, <2>2 DEF FindMovement, At, RequestOK, RequestRecords, Input, Caller
  <2> QED
    BY <2>1, <2>3, <2>4, RecordStep DEF FindMovement
<1> QED
  BY <1>3, <1>4

\* What the write relies on is established: an accessible row, a legal transition from the status read.
LEMMA CheckAccessStep ==
  ASSUME IInv, NEW r \in Requests, CheckAccess(r)
  PROVE  IInv'
<1> DEFINE m == Input(r).target
           q == [ request[r] EXCEPT !.pc = "write" ]
<1>1. /\ request[r] \in RequestRecords /\ RequestOK(request[r])
      /\ Context(r) \in Contexts /\ Context(r) = ContextOf(request[r])
      /\ Input(r) \in Inputs
  BY ContextTyped DEF CheckAccess, At
<1>2. m \in Movements
  BY <1>1, InputTypes DEF CheckAccess, At, RequestOK, Input
<1>3. CASE Respond(r)
  BY <1>3, ResponseStep DEF CheckAccess
<1>4. CASE ~Respond(r)
  <2>1. /\ BranchAccessible(Context(r), movement[m].branch)
        /\ <<request[r].read, TargetStatus(Input(r).op)>> \in ValidTransitions
        /\ request' = [ request EXCEPT ![r] = q ]
    BY <1>4 DEF CheckAccess, Advance, IInv, TypeOK
  <2>2. movement[m].branch \in Branches
    BY <1>1, <1>2 DEF CheckAccess, At, RequestOK, Input, IInv, TypeOK, MovementRows
  <2>3. IsBranchScoped(Context(r)) => movement[m].branch = Context(r).branch
    BY <1>1, <2>1, <2>2, AccessibleBranch
  <2>4. ContextOf(q) = Context(r) /\ Context(r).branch = q.branch
    BY <1>1 DEF ContextOf, RequestRecords
  <2>5. q \in RequestRecords
    BY <1>1 DEF RequestRecords, Steps
  <2>6. RequestOK(q)
    BY <1>1, <2>1, <2>3, <2>4 DEF CheckAccess, At, RequestOK, RequestRecords, Input
  <2> QED
    BY <2>1, <2>5, <2>6, RecordStep DEF CheckAccess
<1> QED
  BY <1>3, <1>4

\* The scope a listing reads with is the context's branch when it is branch-scoped.
LEMMA ResolveForFilterStep ==
  ASSUME IInv, NEW r \in Requests, ResolveForFilter(r)
  PROVE  IInv'
<1> DEFINE outcome == ResolveBranchForFilter(Context(r), Input(r).branch)
           q == [ request[r] EXCEPT !.pc = "items", !.scope = outcome.branch ]
<1>1. /\ request[r] \in RequestRecords /\ RequestOK(request[r])
      /\ Context(r) \in Contexts /\ Context(r) = ContextOf(request[r])
      /\ Input(r).branch \in Branches \cup {None}
  BY ContextTyped, InputTypes DEF ResolveForFilter, At
<1>2. CASE Respond(r)
  BY <1>2, ResponseStep DEF ResolveForFilter
<1>3. CASE ~Respond(r)
  <2>1. outcome.code = "OK" /\ request' = [ request EXCEPT ![r] = q ]
    BY <1>3 DEF ResolveForFilter, IInv, TypeOK
  <2>2. /\ outcome.branch \in Branches \cup {None}
        /\ IsBranchScoped(Context(r)) =>
             outcome.branch = Context(r).branch /\ Context(r).branch # None
    BY <1>1, <2>1, FilterBranch
  <2>3. ContextOf(q) = Context(r) /\ Context(r).branch = q.branch
    BY <1>1 DEF ContextOf, RequestRecords
  <2>4. q \in RequestRecords
    BY <1>1, <2>2 DEF RequestRecords, Steps
  <2>5. RequestOK(q)
    BY <1>1, <2>2, <2>3 DEF ResolveForFilter, At, RequestOK, RequestRecords
  <2> QED
    BY <2>1, <2>4, <2>5, RecordStep DEF ResolveForFilter
<1> QED
  BY <1>2, <1>3

\* A page holds only rows the where-clause selects.
LEMMA ListItemsStep ==
  ASSUME IInv, NEW r \in Requests, ListItems(r)
  PROVE  IInv'
<1>1. /\ request[r] \in RequestRecords /\ RequestOK(request[r])
      /\ Context(r) \in Contexts /\ Context(r) = ContextOf(request[r])
  BY ContextTyped DEF ListItems, At
<1>2. PICK page \in SUBSET Matching(r) :
        request' = [ request EXCEPT ![r].pc = "count", ![r].page = page ]
  BY DEF ListItems
<1> DEFINE q == [ request[r] EXCEPT !.pc = "count", !.page = page ]
<1>3. q \in RequestRecords
  BY <1>1 DEF RequestRecords, Steps, Matching
<1>4. \A m \in page :
        /\ movement[m] # NoMovement
        /\ movement[m].org = OrgOf[request[r].user]
        /\ request[r].scope \in {None, movement[m].branch}
  BY DEF Matching, Caller
<1>5. RequestOK(q)
  BY <1>1, <1>4 DEF ListItems, At, RequestOK, RequestRecords, ContextOf
<1>6. request' = [ request EXCEPT ![r] = q ]
  BY <1>2 DEF IInv, TypeOK
<1> QED
  BY <1>3, <1>5, <1>6, RecordStep DEF ListItems

\* Counting changes nothing the guarantees mention.
LEMMA CountItemsStep ==
  ASSUME IInv, NEW r \in Requests, CountItems(r)
  PROVE  IInv'
<1> DEFINE total == Cardinality(Matching(r))
           q == [ request[r] EXCEPT !.pc = "reply", !.total = total ]
<1>1. request[r] \in RequestRecords /\ RequestOK(request[r])
  BY DEF IInv, TypeOK
<1>2. total \in Nat
  BY FS_Subset, FS_CardinalityType, CashMovementsAssumption DEF Matching
<1>3. q \in RequestRecords
  BY <1>1, <1>2 DEF RequestRecords, Steps
<1>4. RequestOK(q)
  BY <1>1 DEF CountItems, At, RequestOK, RequestRecords, ContextOf
<1>5. request' = [ request EXCEPT ![r] = q ]
  BY DEF CountItems, IInv, TypeOK
<1> QED
  BY <1>3, <1>4, <1>5, RecordStep DEF CountItems

\* A step that changes one row and ends the request that wrote it: the row
\* keeps its identity, and its new content satisfies RowOK.
LEMMA RowStep ==
  ASSUME IInv, NEW r \in Requests, Respond(r),
         UNCHANGED <<account, activeBranches, changes>>,
         NEW m \in Movements, NEW row \in MovementRows, NEW statuses \in SUBSET MovementStatus,
         movement' = [ movement EXCEPT ![m] = row ],
         passed' = [ passed EXCEPT ![m] = statuses ],
         passed[m] \subseteq statuses,
         movement[m] # NoMovement => row.org = movement[m].org /\ row.branch = movement[m].branch,
         RowOK(m)'
  PROVE  IInv'
<1>1. row # NoMovement
  BY CashMovementsAssumption, BranchAssumption DEF MovementRows, NoMovement
<1>2. \A k \in Movements :
        /\ passed[k] \subseteq passed'[k]
        /\ movement[k] # NoMovement =>
             /\ movement'[k] # NoMovement
             /\ movement'[k].org = movement[k].org
             /\ movement'[k].branch = movement[k].branch
  BY <1>1 DEF IInv, TypeOK
<1>3. TypeOK'
  <2>1. request' \in [Requests -> RequestRecords]
    BY IdleOK DEF IInv, TypeOK, Respond
  <2>2. movement' \in [Movements -> MovementRows \cup {NoMovement}]
    BY DEF IInv, TypeOK
  <2>3. passed' \in [Movements -> SUBSET MovementStatus]
    BY DEF IInv, TypeOK
  <2> QED
    BY <2>1, <2>2, <2>3 DEF IInv, TypeOK
<1>4. ASSUME NEW s \in Requests
      PROVE  RequestOK(request[s])'
  <2>1. request'[s] = IF s = r THEN Idle ELSE request[s]
    BY DEF IInv, TypeOK, Respond
  <2>2. CASE s = r
    BY <2>1, <2>2 DEF RequestOK, Idle
  <2>3. CASE s # r
    <3>1. request[s] \in RequestRecords /\ RequestOK(request[s]) /\ request'[s] = request[s]
      BY <2>1, <2>3 DEF IInv, TypeOK
    <3>2. ASSUME NEW q \in RequestRecords, q = request[s]
          PROVE  RequestOK(q)'
      BY <1>2, <3>1, <3>2, RowsEvolve
    <3> QED
      BY <3>1, <3>2 DEF RequestOK
  <2> QED
    BY <2>2, <2>3
<1>5. ASSUME NEW k \in Movements
      PROVE  RowOK(k)'
  <2>1. CASE k # m
    BY <2>1 DEF IInv, TypeOK, RowOK
  <2> QED
    BY <2>1
<1> QED
  BY <1>3, <1>4, <1>5 DEF IInv

\* A new row takes the branch resolved for it, and its history starts.
LEMMA InsertStep ==
  ASSUME IInv, NEW r \in Requests, Insert(r)
  PROVE  IInv'
<1> DEFINE row == [ status |-> "PENDING", org |-> OrgOf[Caller(r)],
                    branch |-> request[r].scope, creator |-> Caller(r),
                    approver |-> None, deliverer |-> None ]
<1>1. PICK m \in Movements :
        /\ movement[m] = NoMovement
        /\ movement' = [ movement EXCEPT ![m] = row ]
        /\ passed' = [ passed EXCEPT ![m] = {"PENDING"} ]
  BY DEF Insert
<1>2. /\ Caller(r) \in Users /\ OrgOf[Caller(r)] \in Orgs
      /\ request[r].scope \in Branches
      /\ BranchOrg[request[r].scope] = OrgOf[Caller(r)]
  <2>1. RequestOK(request[r]) /\ Caller(r) \in Users
    BY ContextTyped DEF Insert, At
  <2> QED
    BY <2>1, CashMovementsAssumption DEF Insert, At, RequestOK, Caller
<1>3. row \in MovementRows
  BY <1>2 DEF MovementRows, MovementStatus
<1>4. passed[m] = {}
  BY <1>1 DEF IInv, RowOK
<1>5. movement'[m] = row /\ passed'[m] = {"PENDING"}
  BY <1>1 DEF IInv, TypeOK
<1>6. row # NoMovement
  BY DEF NoMovement
<1>7. RowOK(m)'
  BY <1>2, <1>5, <1>6, CashMovementsAssumption DEF RowOK, NoMovement
<1>8. {"PENDING"} \in SUBSET MovementStatus
  BY DEF MovementStatus
<1> QED
  BY <1>1, <1>3, <1>4, <1>7, <1>8, RowStep DEF Insert

\* One line per transition: what the written row says and what the history
\* must already contain.
LEMMA WriteStatusStep ==
  ASSUME IInv, NEW r \in Requests, WriteStatus(r)
  PROVE  IInv'
<1> DEFINE u == Caller(r)
<1>1. /\ RequestOK(request[r]) /\ request[r] \in RequestRecords
      /\ u \in Users /\ u # None /\ Input(r) \in Inputs
      /\ Input(r).op \in Transitions
  BY ContextTyped, CashMovementsAssumption DEF WriteStatus, At, RequestOK, Input
<1>2. PICK m \in Movements : m = Input(r).target
  BY <1>1, InputTypes
<1> DEFINE old == movement[m]
           row == Signed(old, Input(r).op, u)
           statuses == passed[m] \cup {TargetStatus(Input(r).op)}
<1>3. /\ old # NoMovement /\ old \in MovementRows /\ RowOK(m)
      /\ old.org = OrgOf[u]
      /\ request[r].read \in passed[m] /\ passed[m] \in SUBSET MovementStatus
      /\ <<request[r].read, TargetStatus(Input(r).op)>> \in ValidTransitions
  BY <1>1, <1>2 DEF WriteStatus, At, RequestOK, Input, Caller, IInv, TypeOK
<1>4. /\ movement' = [ movement EXCEPT ![m] = row ]
      /\ passed' = [ passed EXCEPT ![m] = statuses ]
      /\ movement'[m] = row /\ passed'[m] = statuses
  BY <1>2 DEF WriteStatus, IInv, TypeOK
<1>5. /\ row.status = TargetStatus(Input(r).op)
      /\ row.org = old.org /\ row.branch = old.branch /\ row.creator = old.creator
      /\ row \in MovementRows
  BY <1>1, <1>3 DEF Signed, MovementRows, TargetStatus, MovementStatus, Transitions
<1>6. statuses \in SUBSET MovementStatus
  BY <1>1, <1>3 DEF TargetStatus, MovementStatus, Transitions
<1>7. row # NoMovement
  BY <1>1, <1>5 DEF NoMovement, TargetStatus, Transitions
<1>8. "DELIVERED" \in statuses => "APPROVED" \in statuses
  BY <1>1, <1>3 DEF RowOK, TargetStatus, ValidTransitions, Transitions
<1>9. /\ \A v \in {row.creator, row.approver, row.deliverer} : v # None => OrgOf[v] = row.org
      /\ row.status = "PENDING"   => row.approver = None /\ row.deliverer = None
      /\ row.status = "APPROVED"  => row.approver # None
      /\ row.status = "REJECTED"  => row.approver = None
      /\ row.status = "DELIVERED" => row.deliverer # None
  <2>1. CASE Input(r).op = "approve"
    BY <1>1, <1>3, <2>1 DEF Signed, TargetStatus, RowOK, MovementRows
  <2>2. CASE Input(r).op = "reject"
    BY <1>1, <1>3, <2>2 DEF Signed, TargetStatus, RowOK, MovementRows
  <2>3. CASE Input(r).op = "deliver"
    BY <1>1, <1>3, <2>3 DEF Signed, TargetStatus, RowOK, MovementRows
  <2> QED
    BY <1>1, <2>1, <2>2, <2>3 DEF Transitions
<1>10. BranchOrg[row.branch] = row.org
  BY <1>3, <1>5 DEF RowOK
<1>11. RowOK(m)'
  BY <1>4, <1>5, <1>7, <1>8, <1>9, <1>10 DEF RowOK, NoMovement
<1> QED
  BY <1>2, <1>3, <1>4, <1>5, <1>6, <1>11, RowStep DEF WriteStatus

\* Administrators change neither rows nor requests.
LEMMA AdministrationStep ==
  ASSUME IInv, Administration
  PROVE  IInv'
<1>1. UNCHANGED <<movement, passed, request>>
  BY DEF Administration, UpdateUser, DeleteRoles, CreateRoles, SetBranchActive
<1>2. TypeOK'
  <2>1. ASSUME NEW u \in Users, UpdateUser(u)
        PROVE  TypeOK'
    <3>1. PICK branch \in Branches \cup {None}, active \in BOOLEAN :
            account' = [ account EXCEPT ![u].branch = branch, ![u].active = active ]
      BY <2>1 DEF UpdateUser
    <3>2. account' \in [Users -> AccountRows]
      BY <3>1 DEF IInv, TypeOK, AccountRows
    <3> QED
      BY <2>1, <3>2 DEF IInv, TypeOK, UpdateUser, Administer
  <2>2. ASSUME NEW u \in Users, DeleteRoles(u)
        PROVE  TypeOK'
    BY <2>2, CashMovementsAssumption DEF IInv, TypeOK, DeleteRoles, Administer, AccountRows
  <2>3. ASSUME NEW u \in Users, CreateRoles(u)
        PROVE  TypeOK'
    BY <2>3 DEF IInv, TypeOK, CreateRoles, AccountRows
  <2>4. ASSUME NEW b \in Branches, SetBranchActive(b)
        PROVE  TypeOK'
    BY <2>4 DEF IInv, TypeOK, SetBranchActive, Administer
  <2> QED
    BY <2>1, <2>2, <2>3, <2>4 DEF Administration
<1> QED
  BY <1>1, <1>2 DEF IInv, RequestOK, RowOK

-------------------------------------------------------------------------------
(* The theorems.                                                           *)

\* The initial state satisfies the invariant: no rows and no requests.
LEMMA Initial ==
  Init => IInv
<1> SUFFICES ASSUME Init PROVE IInv
  OBVIOUS
<1>1. TypeOK
  BY IdleOK, CashMovementsAssumption DEF Init, TypeOK
<1>2. \A r \in Requests : RequestOK(request[r])
  BY IdleOK DEF Init
<1>3. \A m \in Movements : RowOK(m)
  BY DEF Init, RowOK
<1> QED
  BY <1>1, <1>2, <1>3 DEF IInv

\* Every step of the component preserves the invariant, action by action.
LEMMA Inductive ==
  IInv /\ [Next]_vars => IInv'
<1> SUFFICES ASSUME IInv, [Next]_vars PROVE IInv'
  OBVIOUS
<1>1. ASSUME NEW r \in Requests, NEW u \in Users, NEW input \in Inputs, Arrive(r, u, input)
      PROVE  IInv'
  BY <1>1, ArriveStep
<1>2. ASSUME NEW r \in Requests, Step(r)
      PROVE  IInv'
  <2>1. CASE ReadUser(r)
    BY <2>1, ReadUserStep
  <2>2. CASE ReadRoles(r)
    BY <2>2, ReadRolesStep
  <2>3. CASE GuardUser(r)
    BY <2>3, GuardUserStep
  <2>4. CASE GuardRoles(r)
    BY <2>4, GuardRolesStep
  <2>5. CASE ResolveForCreate(r)
    BY <2>5, ResolveForCreateStep
  <2>6. CASE Insert(r)
    BY <2>6, InsertStep
  <2>7. CASE FindMovement(r)
    BY <2>7, FindMovementStep
  <2>8. CASE CheckAccess(r)
    BY <2>8, CheckAccessStep
  <2>9. CASE WriteStatus(r)
    BY <2>9, WriteStatusStep
  <2>10. CASE ResolveForFilter(r)
    BY <2>10, ResolveForFilterStep
  <2>11. CASE ListItems(r)
    BY <2>11, ListItemsStep
  <2>12. CASE CountItems(r)
    BY <2>12, CountItemsStep
  <2>13. CASE Reply(r)
    BY <2>13, ResponseStep DEF Reply
  <2> QED
    BY <1>2, <2>1, <2>2, <2>3, <2>4, <2>5, <2>6, <2>7, <2>8, <2>9, <2>10, <2>11,
       <2>12, <2>13 DEF Step
<1>3. ASSUME NEW r \in Requests, Abort(r)
      PROVE  IInv'
  BY <1>3, ResponseStep DEF Abort
<1>4. CASE Administration
  BY <1>4, AdministrationStep
<1>5. CASE UNCHANGED vars
  BY <1>5 DEF vars, IInv, TypeOK, RequestOK, RowOK
<1> QED
  BY <1>1, <1>2, <1>3, <1>4, <1>5 DEF Next

\* The inductive invariant holds in every reachable state.
LEMMA Invariance ==
  Spec => []IInv
BY Initial, Inductive, PTL DEF Spec

\* Every table and every request record keeps its type.
THEOREM TypeCorrect ==
  Spec => []TypeOK
<1>1. IInv => TypeOK
  BY DEF IInv
<1> QED
  BY <1>1, Invariance, PTL

\* Tenant isolation of writes, for any tenants and any number of concurrent
\* requests and administrative changes.
THEOREM Isolation ==
  Spec => []TenantIsolation
<1>1. IInv => TenantIsolation
  BY DEF IInv, RowOK, TenantIsolation
<1> QED
  BY <1>1, Invariance, PTL

\* A movement that was ever delivered had been approved at some time before,
\* however many stale writes interleave.
THEOREM DeliveryNeedsApproval ==
  Spec => []DeliveredWasApproved
<1>1. IInv => DeliveredWasApproved
  BY DEF IInv, RowOK, DeliveredWasApproved
<1> QED
  BY <1>1, Invariance, PTL

\* The signatures on a row always agree with its status.
THEOREM SignaturesAgree ==
  Spec => []SignaturesMatchStatus
<1>1. IInv => SignaturesMatchStatus
  <2> SUFFICES ASSUME IInv, NEW m \in Movements
               PROVE  LET row == movement[m]
                      IN  CASE row.status = "PENDING"   -> row.approver = None /\ row.deliverer = None
                            [] row.status = "APPROVED"  -> row.approver # None
                            [] row.status = "REJECTED"  -> row.approver = None
                            [] row.status = "DELIVERED" -> row.deliverer # None
                            [] row.status = "ABSENT"    -> passed[m] = {}
    BY DEF SignaturesMatchStatus
  <2>1. RowOK(m) /\ movement[m] \in MovementRows \cup {NoMovement}
    BY DEF IInv, TypeOK
  <2>2. CASE movement[m] = NoMovement
    BY <2>1, <2>2 DEF RowOK, NoMovement
  <2>3. CASE movement[m] \in MovementRows
    <3>1. movement[m] # NoMovement
      BY <2>3, BranchAssumption DEF MovementRows, NoMovement
    <3> QED
      BY <2>1, <2>3, <3>1 DEF RowOK, MovementRows, MovementStatus
  <2> QED
    BY <2>1, <2>2, <2>3
<1> QED
  BY <1>1, Invariance, PTL

\* A list request only ever holds rows of its caller's organisation, and of
\* its own branch when its context is branch-scoped.
THEOREM ListingInScope ==
  Spec => []ListedRowsInScope
<1>1. IInv => ListedRowsInScope
  BY DEF IInv, RequestOK, ListedRowsInScope, Caller, Context, ContextOf
<1> QED
  BY <1>1, Invariance, PTL

\* Every write is made by a request of the row's organisation and within the
\* branch its context is limited to.
THEOREM ScopedWrites ==
  Spec => WritesInScope
<1>1. ASSUME IInv, [Next]_vars
      PROVE  [WriteInScope]_vars
  <2> SUFFICES ASSUME Next, NEW m \in Movements, movement'[m] # movement[m]
               PROVE  \E r \in Requests :
                        /\ ~At(r, "idle") /\ request'[r].pc = "idle"
                        /\ movement'[m].org = OrgOf[Caller(r)]
                        /\ IsBranchScoped(Context(r)) =>
                             movement'[m].branch = request[r].branch
    BY <1>1 DEF WriteInScope
  <2>1. PICK r \in Requests : Insert(r) \/ WriteStatus(r)
    BY DEF Next, Step, Arrive, Abort, Administration, UpdateUser, DeleteRoles, CreateRoles,
           SetBranchActive, ReadUser, ReadRoles, GuardUser, GuardRoles, ResolveForCreate,
           FindMovement, CheckAccess, ResolveForFilter, ListItems, CountItems, Reply
  <2>2. request'[r].pc = "idle" /\ ~At(r, "idle")
    BY <1>1, <2>1 DEF Insert, WriteStatus, Respond, Idle, At, IInv, TypeOK
  <2>3. RequestOK(request[r]) /\ Context(r) = ContextOf(request[r]) /\ Input(r) \in Inputs
    BY <1>1, <2>1, ContextTyped DEF Insert, WriteStatus, At
  <2>4. CASE Insert(r)
    <3>1. /\ movement'[m].org = OrgOf[Caller(r)]
          /\ movement'[m].branch = request[r].scope
      BY <1>1, <2>4 DEF Insert, IInv, TypeOK
    <3>2. IsBranchScoped(Context(r)) => request[r].scope = request[r].branch
      BY <2>3, <2>4 DEF Insert, At, RequestOK
    <3> QED
      BY <2>2, <3>1, <3>2
  <2>5. CASE WriteStatus(r)
    <3>1. m = Input(r).target
      BY <1>1, <2>5 DEF WriteStatus, IInv, TypeOK
    <3>2. movement[m] # NoMovement /\ movement[m] \in MovementRows
      BY <1>1, <2>3, <2>5, <3>1 DEF WriteStatus, At, RequestOK, Input, IInv, TypeOK
    <3>3. movement'[m].org = movement[m].org /\ movement'[m].branch = movement[m].branch
      BY <1>1, <2>5, <3>1, <3>2 DEF WriteStatus, Signed, IInv, TypeOK, MovementRows
    <3>4. /\ movement[m].org = OrgOf[Caller(r)]
          /\ IsBranchScoped(Context(r)) => movement[m].branch = request[r].branch
      BY <2>3, <2>5, <3>1 DEF WriteStatus, At, RequestOK, Input, Caller
    <3> QED
      BY <2>2, <3>3, <3>4
  <2> QED
    BY <2>1, <2>4, <2>5
<1> QED
  BY <1>1, Invariance, PTL DEF Spec, WritesInScope

-------------------------------------------------------------------------------
(* The page of a listing and its count.  A row that was selected stays     *)
(* selected, unless the request asked for a status.                        *)

\* The rows of a page match but for their status, and were counted.
PageOK(q) ==
  /\ \A m \in q.page : q.scope \in {None, movement[m].branch}
  /\ q.pc = "reply" /\ q.input.status = None => q.total >= Cardinality(q.page)

PagesOK == \A r \in Requests : PageOK(request[r])

\* No step takes a row away or changes its branch.
LEMMA BranchKept ==
  ASSUME IInv, [Next]_vars, NEW m \in Movements, movement[m] # NoMovement
  PROVE  movement'[m].branch = movement[m].branch
<1>1. CASE \E r \in Requests : Insert(r)
  BY <1>1 DEF Insert, IInv, TypeOK
<1>2. CASE \E r \in Requests : WriteStatus(r)
  <2>1. PICK r \in Requests : WriteStatus(r)
    BY <1>2
  <2>2. movement[m] \in MovementRows
    BY DEF IInv, TypeOK
  <2>3. movement'[m] \in {movement[m], Signed(movement[m], Input(r).op, Caller(r))}
    BY <2>1 DEF WriteStatus, IInv, TypeOK
  <2> QED
    BY <2>2, <2>3 DEF Signed, MovementRows
<1>3. CASE movement' = movement
  BY <1>3
<1> QED
  BY <1>1, <1>2, <1>3
  DEF Next, Step, Arrive, Abort, Administration, UpdateUser, DeleteRoles, CreateRoles,
      SetBranchActive, ReadUser, ReadRoles, GuardUser, GuardRoles, ResolveForCreate,
      FindMovement, CheckAccess, ResolveForFilter, ListItems, CountItems, Reply, vars

LEMMA PagesStep ==
  ASSUME IInv, PagesOK, [Next]_vars
  PROVE  PagesOK'
<1> SUFFICES ASSUME NEW r \in Requests
             PROVE  PageOK(request[r])'
  BY DEF PagesOK
<1> DEFINE q == request[r]
<1>1. /\ request \in [Requests -> RequestRecords] /\ q \in RequestRecords
      /\ RequestOK(q) /\ PageOK(q)
      /\ \A m \in q.page : m \in Movements /\ movement[m] # NoMovement
  BY DEF IInv, TypeOK, PagesOK, RequestOK, RequestRecords
<1>2. \A m \in q.page : movement'[m].branch = movement[m].branch
  BY <1>1, BranchKept
<1>3. ASSUME request'[r].page = {}, request'[r].total \in Nat
      PROVE  PageOK(request[r])'
  BY <1>3, FS_EmptySet DEF PageOK
<1>4. CASE request'[r] = q
  BY <1>1, <1>2, <1>4 DEF PageOK
<1>5. CASE request'[r] = Idle
  BY <1>3, <1>5 DEF Idle
<1>6. CASE \E u \in Users, input \in Inputs : Arrive(r, u, input)
  BY <1>1, <1>3, <1>6 DEF Arrive, Idle
<1>7. CASE ReadUser(r) \/ ReadRoles(r) \/ GuardUser(r) \/ GuardRoles(r) \/ ResolveForCreate(r)
           \/ FindMovement(r) \/ CheckAccess(r) \/ ResolveForFilter(r)
  <2>1. q.page = {}
    BY <1>1, <1>7 DEF RequestOK, At, ReadUser, ReadRoles, GuardUser, GuardRoles,
                      ResolveForCreate, FindMovement, CheckAccess, ResolveForFilter
  <2>2. request'[r] = Idle \/ (request'[r].page = q.page /\ request'[r].total = q.total)
    BY <1>1, <1>7 DEF Respond, Advance, ReadUser, ReadRoles, GuardUser, GuardRoles,
                      ResolveForCreate, FindMovement, CheckAccess, ResolveForFilter,
                      RequestRecords
  <2> QED
    BY <1>1, <1>3, <1>5, <2>1, <2>2 DEF RequestRecords
<1>8. CASE ListItems(r)
  <2>1. PICK page \in SUBSET Matching(r) :
          request' = [ request EXCEPT ![r].pc = "count", ![r].page = page ]
    BY <1>8 DEF ListItems
  <2>2. request'[r].pc = "count" /\ request'[r].page = page /\ request'[r].scope = q.scope
    BY <1>1, <2>1 DEF RequestRecords
  <2>3. \A m \in page : q.scope \in {None, movement[m].branch}
    BY <2>1 DEF Matching
  <2> QED
    BY <1>8, <2>2, <2>3 DEF PageOK, ListItems
<1>9. CASE CountItems(r)
  <2>1. /\ request'[r].page = q.page /\ request'[r].scope = q.scope
        /\ request'[r].input = q.input /\ request'[r].total = Cardinality(Matching(r))
        /\ q.pc = "count"
    BY <1>1, <1>9 DEF CountItems, At, RequestRecords
  <2>2. ASSUME q.input.status = None
        PROVE  Cardinality(Matching(r)) >= Cardinality(q.page)
    <3>1. q.page \subseteq Matching(r)
      BY <1>1, <2>2 DEF Matching, RequestOK, PageOK, Caller, Input
    <3>2. IsFiniteSet(Matching(r))
      BY FS_Subset, CashMovementsAssumption DEF Matching
    <3>3. /\ Cardinality(q.page) <= Cardinality(Matching(r))
          /\ Cardinality(q.page) \in Nat /\ Cardinality(Matching(r)) \in Nat
      BY <3>1, <3>2, FS_Subset, FS_CardinalityType
    <3> QED
      BY <3>3
  <2> QED
    BY <1>1, <1>9, <2>1, <2>2 DEF PageOK, CountItems
<1>10. CASE Insert(r) \/ WriteStatus(r) \/ Reply(r) \/ Abort(r)
  BY <1>1, <1>5, <1>10 DEF Insert, WriteStatus, Reply, Abort, Respond
<1>11. ASSUME ~(\E u \in Users, input \in Inputs : Arrive(r, u, input)), ~Step(r), ~Abort(r)
       PROVE  request'[r] = q
  <2>1. CASE \E s \in Requests : s # r /\ ( \/ Step(s) \/ Abort(s)
                                           \/ \E u \in Users, input \in Inputs : Arrive(s, u, input) )
    BY <1>1, <2>1
    DEF Step, Arrive, Abort, Insert, WriteStatus, Reply, Respond, Advance,
        ReadUser, ReadRoles, GuardUser, GuardRoles, ResolveForCreate,
        FindMovement, CheckAccess, ResolveForFilter, ListItems, CountItems
  <2>2. CASE Administration \/ UNCHANGED vars
    BY <2>2 DEF Administration, UpdateUser, DeleteRoles, CreateRoles, SetBranchActive, vars
  <2> QED
    BY <1>11, <2>1, <2>2 DEF Next
<1> QED
  BY <1>4, <1>6, <1>7, <1>8, <1>9, <1>10, <1>11 DEF Step

\* The total of a listing without a status filter covers the rows of its page, although it
\* is counted by a later statement, whatever other requests write in between.
THEOREM TotalsCoverPages ==
  Spec => []TotalCoversPage
<1>1. Init => PagesOK
  BY DEF Init, PagesOK, PageOK, Idle
<1>2. IInv /\ PagesOK /\ [Next]_vars => PagesOK'
  BY PagesStep
<1>3. PagesOK => TotalCoversPage
  BY DEF PagesOK, PageOK, TotalCoversPage, At, Input
<1> QED
  BY <1>1, <1>2, <1>3, Invariance, PTL DEF Spec

-------------------------------------------------------------------------------
(* Refinement.  With a single request slot nothing can change a row between *)
(* the read and the write of a transition, and the handlers implement the  *)
(* atomic workflow.                                                        *)

\* The status a transition has read is still the row's status.
ReadIsFresh ==
  \A r \in Requests : request[r].pc \in {"access", "write"} =>
    request[r].read = movement[request[r].input.target].status

\* The table as the workflow sees it.
WorkflowRow(m) ==
  [ status |-> movement[m].status, org |-> movement[m].org,
    creator |-> movement[m].creator, approver |-> movement[m].approver,
    deliverer |-> movement[m].deliverer ]

\* With one request slot nothing intervenes between the read of a status and
\* the write: the status a request acts on is the one in the row.
LEMMA FreshReads ==
  ASSUME \A r, s \in Requests : r = s
  PROVE  IInv /\ ReadIsFresh /\ [Next]_vars => ReadIsFresh'
<1> SUFFICES ASSUME IInv, ReadIsFresh, [Next]_vars, NEW r \in Requests,
                    request'[r].pc \in {"access", "write"}
             PROVE  request'[r].read = movement'[request'[r].input.target].status
  BY DEF ReadIsFresh
<1>0. /\ request \in [Requests -> RequestRecords] /\ request[r] \in RequestRecords
      /\ RequestOK(request[r])
  BY DEF IInv, TypeOK
<1>1. CASE FindMovement(r)
  BY <1>0, <1>1 DEF FindMovement, Respond, Idle, Input, RequestRecords
<1>2. CASE CheckAccess(r)
  <2>1. request[r].read = movement[request[r].input.target].status
    BY <1>2 DEF CheckAccess, At, ReadIsFresh
  <2>2. /\ request'[r].read = request[r].read
        /\ request'[r].input = request[r].input
    BY <1>0, <1>2 DEF CheckAccess, Advance, Respond, Idle, RequestRecords
  <2> QED
    BY <1>2, <2>1, <2>2 DEF CheckAccess
<1>3. CASE Insert(r) \/ WriteStatus(r)
  BY <1>3 DEF Insert, WriteStatus, Respond, Idle, IInv, TypeOK
<1>4. CASE \/ ReadUser(r) \/ ReadRoles(r) \/ GuardUser(r) \/ ResolveForCreate(r)
           \/ ResolveForFilter(r) \/ ListItems(r) \/ CountItems(r) \/ Reply(r) \/ Abort(r)
  BY <1>0, <1>4 DEF ReadUser, ReadRoles, GuardUser, ResolveForCreate, ResolveForFilter,
                    ListItems, CountItems, Reply, Abort, Respond, Advance, Idle, RequestRecords
<1>5. CASE GuardRoles(r)
  <2>1. HandlerOf(Input(r).op) \notin {"access", "write"}
    <3>1. Input(r).op \in Endpoints
      BY <1>0, <1>5, InputTypes DEF GuardRoles, At, Input, RequestOK
    <3> QED
      BY <3>1 DEF HandlerOf, Endpoints, Transitions
  <2> QED
    BY <1>0, <1>5, <2>1 DEF GuardRoles, Respond, Advance, Idle, RequestRecords
<1>6. CASE \E u \in Users, input \in Inputs : Arrive(r, u, input)
  BY <1>6 DEF Arrive, Idle, IInv, TypeOK
<1>7. CASE Administration \/ UNCHANGED vars
  BY <1>7 DEF Administration, UpdateUser, DeleteRoles, CreateRoles, SetBranchActive, vars,
              ReadIsFresh
<1> QED
  BY <1>1, <1>2, <1>3, <1>4, <1>5, <1>6, <1>7 DEF Next, Step

\* Under fresh reads each step is a step of the atomic workflow or a stutter.
LEMMA WorkflowStep ==
  ASSUME IInv, ReadIsFresh, [Next]_vars
  PROVE  [Workflow!Next]_([m \in Movements |-> WorkflowRow(m)])
<1> DEFINE row == [m \in Movements |-> WorkflowRow(m)]
<1>1. CASE UNCHANGED movement
  BY <1>1 DEF WorkflowRow
<1>2. ASSUME NEW r \in Requests, Insert(r)
      PROVE  Workflow!Next
  <2>1. PICK m \in Movements :
          /\ movement[m] = NoMovement
          /\ movement' = [ movement EXCEPT ![m] =
                             [ status |-> "PENDING", org |-> OrgOf[Caller(r)],
                               branch |-> request[r].scope, creator |-> Caller(r),
                               approver |-> None, deliverer |-> None ] ]
    BY <1>2 DEF Insert
  <2>2. PICK u \in Users : u = Caller(r)
    BY <1>2, ContextTyped DEF Insert, At
  <2>3. Workflow!Create(m, u)
    <3>1. WorkflowRow(m) = Workflow!NoRow
      BY <2>1 DEF WorkflowRow, Workflow!NoRow, NoMovement
    <3>2. WorkflowRow(m)' = [ status |-> "PENDING", org |-> OrgOf[u],
                              creator |-> u, approver |-> None,
                              deliverer |-> None ]
      BY <2>1, <2>2 DEF IInv, TypeOK, WorkflowRow
    <3>3. \A k \in Movements : k # m => WorkflowRow(k)' = WorkflowRow(k)
      BY <2>1 DEF IInv, TypeOK, WorkflowRow
    <3> QED
      BY <2>1, <3>1, <3>2, <3>3 DEF Workflow!Create, WorkflowRow
  <2> QED
    BY <2>1, <2>2, <2>3 DEF Workflow!Next
<1>3. ASSUME NEW r \in Requests, WriteStatus(r)
      PROVE  Workflow!Next
  <2>0. PICK u \in Users : u = Caller(r)
    BY <1>3, ContextTyped DEF WriteStatus, At
  <2>1. /\ Input(r) \in Inputs /\ RequestOK(request[r])
        /\ Input(r).op \in Transitions
    BY <1>3, ContextTyped DEF WriteStatus, At, RequestOK, Input
  <2>2. PICK m \in Movements : m = Input(r).target
    BY <2>1, InputTypes
  <2>3. /\ <<movement[m].status, TargetStatus(Input(r).op)>> \in ValidTransitions
        /\ movement[m] # NoMovement /\ movement[m] \in MovementRows
        /\ movement[m].org = OrgOf[u]
        /\ RowOK(m)
    BY <1>3, <2>0, <2>1, <2>2
       DEF WriteStatus, At, RequestOK, ReadIsFresh, Input, Caller, IInv, TypeOK
  <2>4. movement' = [ movement EXCEPT ![m] = Signed(movement[m], Input(r).op, u) ]
    BY <1>3, <2>0, <2>2 DEF WriteStatus
  <2>5. \A k \in Movements : k # m => WorkflowRow(k)' = WorkflowRow(k)
    BY <2>4 DEF IInv, TypeOK, WorkflowRow
  <2>6. movement'[m] = Signed(movement[m], Input(r).op, u)
    BY <2>4 DEF IInv, TypeOK
  <2>7. CASE Input(r).op = "approve"
    <3>1. movement[m].status = "PENDING"
      BY <2>3, <2>7 DEF TargetStatus, ValidTransitions
    <3>2. WorkflowRow(m)' = [ WorkflowRow(m) EXCEPT !.status = "APPROVED", !.approver = u ]
      <4>1. /\ movement'[m].status = "APPROVED" /\ movement'[m].approver = u
            /\ movement'[m].org = movement[m].org
            /\ movement'[m].creator = movement[m].creator
            /\ movement'[m].deliverer = movement[m].deliverer
        BY <2>3, <2>6, <2>7 DEF Signed, TargetStatus, MovementRows
      <4>2. PICK mid : mid = [ WorkflowRow(m) EXCEPT !.status = "APPROVED" ]
        OBVIOUS
      <4>3. mid = [ status |-> "APPROVED", org |-> movement[m].org,
                    creator |-> movement[m].creator, approver |-> movement[m].approver,
                    deliverer |-> movement[m].deliverer ]
        BY <4>2 DEF WorkflowRow
      <4>4. [ mid EXCEPT !.approver = u ]
              = [ status |-> "APPROVED", org |-> movement[m].org,
                  creator |-> movement[m].creator, approver |-> u,
                  deliverer |-> movement[m].deliverer ]
        BY <4>3
      <4> QED
        BY <4>1, <4>2, <4>4 DEF WorkflowRow
    <3>3. Workflow!Approve(m, u)
      BY <2>3, <2>5, <3>1, <3>2 DEF Workflow!Approve, WorkflowRow
    <3> QED
      BY <2>1, <2>2, <3>3 DEF Workflow!Next
  <2>8. CASE Input(r).op = "reject"
    <3>1. movement[m].status = "PENDING" /\ movement[m].approver = None
      BY <2>3, <2>8 DEF TargetStatus, ValidTransitions, RowOK
    <3>2. WorkflowRow(m)' = [ WorkflowRow(m) EXCEPT !.status = "REJECTED" ]
      BY <2>3, <2>6, <2>8, <3>1 DEF Signed, TargetStatus, WorkflowRow, MovementRows
    <3>3. Workflow!Reject(m, u)
      BY <2>3, <2>5, <3>1, <3>2 DEF Workflow!Reject, WorkflowRow
    <3> QED
      BY <2>1, <2>2, <3>3 DEF Workflow!Next
  <2>9. CASE Input(r).op = "deliver"
    <3>1. movement[m].status = "APPROVED"
      BY <2>3, <2>9 DEF TargetStatus, ValidTransitions
    <3>2. WorkflowRow(m)' = [ WorkflowRow(m) EXCEPT !.status = "DELIVERED", !.deliverer = u ]
      <4>1. /\ movement'[m].status = "DELIVERED" /\ movement'[m].deliverer = u
            /\ movement'[m].org = movement[m].org
            /\ movement'[m].creator = movement[m].creator
            /\ movement'[m].approver = movement[m].approver
        BY <2>3, <2>6, <2>9 DEF Signed, TargetStatus, MovementRows
      <4>2. PICK mid : mid = [ WorkflowRow(m) EXCEPT !.status = "DELIVERED" ]
        OBVIOUS
      <4>3. mid = [ status |-> "DELIVERED", org |-> movement[m].org,
                    creator |-> movement[m].creator, approver |-> movement[m].approver,
                    deliverer |-> movement[m].deliverer ]
        BY <4>2 DEF WorkflowRow
      <4>4. [ mid EXCEPT !.deliverer = u ]
              = [ status |-> "DELIVERED", org |-> movement[m].org,
                  creator |-> movement[m].creator, approver |-> movement[m].approver,
                  deliverer |-> u ]
        BY <4>3
      <4> QED
        BY <4>1, <4>2, <4>4 DEF WorkflowRow
    <3>3. Workflow!Deliver(m, u)
      BY <2>3, <2>5, <3>1, <3>2 DEF Workflow!Deliver, WorkflowRow
    <3> QED
      BY <2>1, <2>2, <3>3 DEF Workflow!Next
  <2> QED
    BY <2>1, <2>7, <2>8, <2>9 DEF Transitions
<1> QED
  BY <1>1, <1>2, <1>3 DEF vars, Next, Step, Arrive, Abort, Administration, UpdateUser,
     DeleteRoles, CreateRoles, SetBranchActive, ReadUser, ReadRoles, GuardUser, GuardRoles,
     ResolveForCreate, FindMovement, CheckAccess, ResolveForFilter, ListItems, CountItems, Reply

\* One request at a time, the component implements the atomic workflow, for any
\* number of tenants, users, branches and movements.
THEOREM SerialRefinement ==
  ASSUME \A r, s \in Requests : r = s
  PROVE  Spec => ImplementsWorkflow
<1>1. Init => ReadIsFresh
  BY DEF Init, Idle, ReadIsFresh
<1>2. Init => Workflow!Init
  BY DEF Init, NoMovement, Workflow!Init, Workflow!NoRow
<1>3. IInv /\ ReadIsFresh /\ [Next]_vars => [Workflow!Next]_([m \in Movements |-> WorkflowRow(m)])
  BY WorkflowStep
<1>4. Spec => []ReadIsFresh
  BY <1>1, Invariance, FreshReads, PTL DEF Spec
<1> QED
  BY <1>2, <1>3, <1>4, Invariance, PTL
     DEF Spec, ImplementsWorkflow, Workflow!Spec, WorkflowRow
================================================================================
