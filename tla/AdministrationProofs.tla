-------------------------- MODULE AdministrationProofs --------------------------
(***************************************************************************)
(* Proofs about Administration for any number of users, branches and       *)
(* requests.                                                               *)
(*                                                                         *)
(* What a request has looked up stays true until it writes, because users  *)
(* and branches never move to another organization nor disappear: each     *)
(* request therefore carries what its earlier statements have established, *)
(* and no step of any other request can take it away.                      *)
(***************************************************************************)
EXTENDS Administration, TLAPS

\* A request on its way, or a slot where none is.
Slots ==
  {Idle} \cup
  [ pc : Steps \ {"idle"}, op : Endpoints, caller : UserIds, org : Organizations,
    role : CanonicalRoles, target : UserIds \cup BranchIds \cup {None},
    body : Bodies \cup {None}, removed : SUBSET Roles ]

\* The endpoint that a step belongs to, and what it was called with.
StepOf(q) ==
  /\ q.pc \in {"prepare", "insert"} => q.op = "create"
  /\ q.pc = "resolve" => q.op \in {"create", "update"} /\ NamesBranch(q.body)
  /\ q.pc = "access" => q.op \in {"update", "remove"}
  /\ q.pc \in {"write", "deleteRoles", "createRoles", "readBack"} => q.op = "update"
  /\ q.pc = "deactivate" => q.op = "remove"
  /\ q.pc = "insertBranch" => q.op = "createBranch"
  /\ q.pc \in {"findBranch", "writeBranch"} => q.op = "updateBranch"
  /\ q.pc # "idle" => q.target \in Targets(q.op) /\ q.body \in BodiesFor(q.op)

\* What assertCanAccessUser has found.
AccessOK(q) ==
  \/ q.pc = "resolve" /\ q.op = "update"
  \/ q.pc \in {"write", "deleteRoles", "createRoles", "readBack", "deactivate"}
  => /\ UserExists(q.target)
     /\ user[q.target].org = q.org
     /\ q.role = "ADMIN" \/ q.target = q.caller

\* What loadRoles has found: at "deleteRoles" it has yet to be called.
RolesOK(q) ==
  /\ q.pc = "resolve" /\ q.op = "create" => q.body.roles \subseteq Roles
  /\ q.pc = "insert" => q.body.roles \subseteq Roles
  /\ q.pc = "deleteRoles" => q.body.roles # Absent
  /\ q.pc = "createRoles" => q.body.roles # Absent /\ q.body.roles \subseteq Roles

BranchIs(b, org) == BranchExists(b) /\ branch[b].org = org

\* What resolveBranchId and findOne have found.
BranchOK(q) ==
  /\ q.pc \in {"insert", "write"} /\ NamesBranch(q.body) => BranchIs(q.body.branch, q.org)
  /\ q.pc = "writeBranch" => BranchIs(q.target, q.org)

RequestOK(q) == StepOf(q) /\ AccessOK(q) /\ RolesOK(q) /\ BranchOK(q)

RowsOK ==
  /\ user \in [UserIds -> UserRows \cup {None}]
  /\ branch \in [BranchIds -> BranchRows \cup {None}]

IInv ==
  /\ RowsOK
  /\ request \in [Requests -> Slots]
  /\ NamesUnique
  /\ BranchInOrganization
  /\ \A r \in Requests, q \in Slots : q = request[r] => RequestOK(q)

\* Rows stay where they are.
RowsStay ==
  /\ \A u \in UserIds : UserExists(u) => UserExists(u)' /\ user'[u].org = user[u].org
  /\ \A b \in BranchIds : BranchExists(b) =>
       BranchExists(b)' /\ branch'[b].org = branch[b].org /\ branch'[b].code = branch[b].code

-------------------------------------------------------------------------------
(* Helpers.                                                                *)

\* They are the types that are checked.
LEMMA TypesFollow ==
  IInv => TypeOK
<1>1. Slots \subseteq RequestRecords
  BY DEF Slots, RequestRecords, Idle, Steps
<1> QED
  BY <1>1 DEF IInv, RowsOK, TypeOK

\* A context has a canonical role.
LEMMA RuntimeRole ==
  ASSUME NEW roles
  PROVE  ResolveRuntimeRole(roles) \in CanonicalRoles
BY DEF ResolveRuntimeRole, CanonicalRoles

\* What an idle slot holds asks for nothing.
LEMMA IdleOK ==
  Idle \in Slots /\ RequestOK(Idle)
BY DEF Idle, Slots, RequestOK, StepOf, AccessOK, RolesOK, BranchOK

\* Bodies are what the DTOs let through.
LEMMA BodyFields ==
  ASSUME NEW body \in Bodies
  PROVE  /\ body.email \in Emails \cup {Absent}
         /\ body.active \in BOOLEAN \cup {Absent}
         /\ body.branch \in BranchIds \cup {None, Absent}
         /\ body.code \in Codes \cup {Absent}
         /\ body.roles = Absent \/ body.roles # {}
<1>1. body \in RequestBodies
  BY AdministrationAssumption
<1>2. body.active \in BOOLEAN \cup {Absent}
  BY <1>1, Zenon DEF RequestBodies
<1>3. body.roles \in { names \in SUBSET (Roles \cup {"unknown"}) : names # {} } \cup {Absent}
  BY <1>1 DEF RequestBodies
<1>4. /\ body.email \in Emails \cup {Absent}
      /\ body.branch \in BranchIds \cup {None, Absent}
      /\ body.code \in Codes \cup {Absent}
  BY <1>1 DEF RequestBodies
<1>5. body.roles = Absent \/ body.roles # {}
  BY <1>3
<1> QED
  BY <1>2, <1>4, <1>5, Zenon

\* What a request has found stays true while rows stay where they are.
LEMMA RequestKept ==
  ASSUME RowsStay, NEW q \in Slots, RequestOK(q)
  PROVE  RequestOK(q)'
<1>1. AccessOK(q)'
  BY DEF RequestOK, AccessOK, RowsStay, StepOf, Targets
<1>2. BranchOK(q)'
  BY DEF RequestOK, BranchOK, BranchIs, NamesBranch, RowsStay, StepOf, Targets
<1> QED
  BY <1>1, <1>2 DEF RequestOK, StepOf, RolesOK

-------------------------------------------------------------------------------
(* What a step does to the rows and to one request.                        *)

\* Only a request moves.
LEMMA RequestStep ==
  ASSUME IInv, NEW r \in Requests, NEW q \in Slots,
         request' = [ request EXCEPT ![r] = q ], RequestOK(q),
         UNCHANGED <<user, branch>>
  PROVE  IInv' /\ RowsStay
<1>1. RowsStay
  BY DEF RowsStay, UserExists, BranchExists
<1>2. RowsOK' /\ NamesUnique' /\ BranchInOrganization'
  BY DEF IInv, RowsOK, NamesUnique, BranchInOrganization, UserExists, BranchExists
<1>3. request' \in [Requests -> Slots]
  BY DEF IInv
<1>4. RequestOK(q)'
  BY <1>1, RequestKept
<1>5. ASSUME NEW s \in Requests, NEW p \in Slots, p = request'[s]
      PROVE  RequestOK(p)'
  <2>1. CASE s = r
    BY <1>4, <1>5, <2>1 DEF IInv
  <2>2. CASE s # r
    BY <1>1, <1>5, <2>2, RequestKept DEF IInv
  <2> QED
    BY <2>1, <2>2
<1> QED
  BY <1>1, <1>2, <1>3, <1>5 DEF IInv

\* The other requests keep what they have found.
LEMMA OthersKept ==
  ASSUME IInv, RowsStay, NEW r \in Requests, NEW q \in Slots,
         request' = [ request EXCEPT ![r] = q ], RequestOK(q)'
  PROVE  /\ request' \in [Requests -> Slots]
         /\ \A s \in Requests, p \in Slots : p = request'[s] => RequestOK(p)'
<1>1. request' \in [Requests -> Slots]
  BY DEF IInv
<1>2. ASSUME NEW s \in Requests, NEW p \in Slots, p = request'[s]
      PROVE  RequestOK(p)'
  <2>1. CASE s = r
    BY <1>2, <2>1 DEF IInv
  <2>2. CASE s # r
    BY <1>2, <2>2, RequestKept DEF IInv
  <2> QED
    BY <2>1, <2>2
<1> QED
  BY <1>1, <1>2

\* A user's row is written.
LEMMA UserStep ==
  ASSUME IInv, NEW r \in Requests, NEW q \in Slots, NEW u \in UserIds, NEW row \in UserRows,
         user' = [ user EXCEPT ![u] = row ], branch' = branch,
         request' = [ request EXCEPT ![r] = q ], RequestOK(q)',
         UserExists(u) => row.org = user[u].org,
         \A v \in UserIds : UserExists(v) /\ user[v].email = row.email => v = u,
         row.branch # None => BranchIs(row.branch, row.org)
  PROVE  IInv' /\ RowsStay
<1>1. RowsOK' /\ row # None
  BY AdministrationAssumption DEF IInv, RowsOK
<1>2. RowsStay
  BY <1>1 DEF IInv, RowsOK, RowsStay, UserExists, BranchExists
<1>3. NamesUnique'
  BY <1>1 DEF IInv, RowsOK, NamesUnique, UserExists, BranchExists
<1>4. BranchInOrganization'
  BY <1>1 DEF IInv, RowsOK, BranchInOrganization, BranchIs, UserExists, BranchExists
<1> QED
  BY <1>1, <1>2, <1>3, <1>4, OthersKept DEF IInv

\* A branch's row is written, and the request answered.
LEMMA BranchStep ==
  ASSUME IInv, NEW r \in Requests, NEW b \in BranchIds, NEW row \in BranchRows,
         branch' = [ branch EXCEPT ![b] = row ], user' = user, Respond(r),
         BranchExists(b) => row.org = branch[b].org /\ row.code = branch[b].code,
         ~BranchExists(b) => ~CodeTaken(row.org, row.code)
  PROVE  IInv' /\ RowsStay
<1>1. RowsOK' /\ row # None
  BY AdministrationAssumption DEF IInv, RowsOK
<1>2. RowsStay
  BY <1>1 DEF IInv, RowsOK, RowsStay, UserExists, BranchExists
<1>3. NamesUnique'
  <2>1. ASSUME NEW a \in BranchIds, NEW c \in BranchIds, BranchExists(a)', BranchExists(c)',
               branch'[a].org = branch'[c].org, branch'[a].code = branch'[c].code
        PROVE  a = c
    <3>1. \A d \in BranchIds : branch'[d] = IF d = b THEN row ELSE branch[d]
      BY DEF IInv, RowsOK
    <3>2. CASE BranchExists(b)
      BY <2>1, <3>1, <3>2 DEF IInv, NamesUnique, BranchExists
    <3>3. CASE ~BranchExists(b)
      BY <2>1, <3>1, <3>3 DEF CodeTaken, IInv, NamesUnique, BranchExists
    <3> QED
      BY <3>2, <3>3
  <2> QED
    BY <2>1 DEF IInv, NamesUnique, UserExists
<1>4. BranchInOrganization'
  BY <1>1, <1>2 DEF IInv, RowsOK, RowsStay, BranchInOrganization, UserExists, UserRows
<1>5. RequestOK(Idle)' /\ Idle \in Slots
  BY <1>2, IdleOK, RequestKept
<1> QED
  BY <1>1, <1>2, <1>3, <1>4, <1>5, OthersKept DEF IInv, Respond

\* A request is answered without a change.
LEMMA RespondStep ==
  ASSUME IInv, NEW r \in Requests, Respond(r), UNCHANGED <<user, branch>>
  PROVE  IInv' /\ RowsStay
BY IdleOK, RequestStep DEF Respond

\* The request that a step is about.
LEMMA SlotOf ==
  ASSUME IInv, NEW r \in Requests, request[r].pc # "idle"
  PROVE  \E q \in Slots :
           /\ q = request[r] /\ RequestOK(q) /\ q.op \in Endpoints
           /\ q \in [ pc : Steps \ {"idle"}, op : Endpoints, caller : UserIds,
                      org : Organizations, role : CanonicalRoles,
                      target : UserIds \cup BranchIds \cup {None},
                      body : Bodies \cup {None}, removed : SUBSET Roles ]
<1>1. PICK q \in Slots : q = request[r]
  BY DEF IInv
<1> QED
  BY <1>1 DEF IInv, Slots, Idle

\* It goes on to another step.
LEMMA AdvanceSlot ==
  ASSUME IInv, NEW r \in Requests, request[r].pc # "idle", NEW step \in Steps \ {"idle"},
         Advance(r, step)
  PROVE  \E q \in Slots :
           /\ q = [ request[r] EXCEPT !.pc = step ]
           /\ q.pc = step /\ q.op = request[r].op /\ q.caller = request[r].caller
           /\ q.org = request[r].org /\ q.role = request[r].role
           /\ q.target = request[r].target /\ q.body = request[r].body
           /\ request' = [ request EXCEPT ![r] = q ]
<1>1. PICK q : q = [ request[r] EXCEPT !.pc = step ]
  OBVIOUS
<1>2. request' = [ request EXCEPT ![r] = q ]
  BY <1>1 DEF Advance, IInv
<1> QED
  BY <1>1, <1>2, SlotOf DEF Slots

-------------------------------------------------------------------------------
(* The steps.                                                              *)

\* The guards.
LEMMA ArriveStep ==
  ASSUME IInv, NEW r \in Requests, NEW op \in Operations, NEW caller \in UserIds,
         NEW target \in Targets(op), NEW body \in BodiesFor(op),
         Arrive(r, op, caller, target, body)
  PROVE  IInv' /\ RowsStay
<1>1. op \in Endpoints
  BY AdministrationAssumption
<1>2. user[caller] \in UserRows
  BY DEF Arrive, UserExists, IInv, RowsOK
<1>3. PICK q : q = [ pc |-> "authorize", op |-> op, caller |-> caller, org |-> user[caller].org,
                     role |-> ResolveRuntimeRole(user[caller].roles),
                     target |-> target, body |-> body, removed |-> {} ]
  OBVIOUS
<1>4. target \in UserIds \cup BranchIds \cup {None} /\ body \in Bodies \cup {None}
  BY <1>1 DEF Targets, BodiesFor, Endpoints
<1>5. user[caller].org \in Organizations /\ ResolveRuntimeRole(user[caller].roles) \in CanonicalRoles
  BY <1>2, RuntimeRole DEF UserRows
<1>6. q \in Slots
  BY <1>1, <1>3, <1>4, <1>5 DEF Slots, Steps
<1>7. RequestOK(q)
  BY <1>3 DEF RequestOK, StepOf, AccessOK, RolesOK, BranchOK
<1> QED
  BY <1>3, <1>6, <1>7, RequestStep DEF Arrive

\* PermissionsGuard.
LEMMA AuthorizeStep ==
  ASSUME IInv, NEW r \in Requests, Authorize(r)
  PROVE  IInv' /\ RowsStay
<1>1. CASE Respond(r)
  BY <1>1, RespondStep DEF Authorize
<1>2. CASE Advance(r, FirstStep(request[r].op))
  <2>1. PICK p \in Slots : p = request[r] /\ RequestOK(p) /\ p.op \in Endpoints
    BY SlotOf DEF Authorize, At
  <2>2. FirstStep(p.op) \in Steps \ {"idle"}
    BY <2>1 DEF FirstStep, Endpoints, Steps
  <2>3. PICK q \in Slots :
          /\ q.pc = FirstStep(p.op) /\ q.op = p.op /\ q.target = p.target /\ q.body = p.body
          /\ request' = [ request EXCEPT ![r] = q ]
    BY <1>2, <2>1, <2>2, AdvanceSlot DEF Authorize, At
  <2>4. RequestOK(q)
    BY <2>1, <2>3 DEF RequestOK, StepOf, AccessOK, RolesOK, BranchOK, FirstStep, Endpoints,
                      Authorize, At
  <2> QED
    BY <2>3, <2>4, RequestStep DEF Authorize
<1> QED
  BY <1>1, <1>2 DEF Authorize

\* The look-ups of create.
LEMMA PrepareStep ==
  ASSUME IInv, NEW r \in Requests, Prepare(r)
  PROVE  IInv' /\ RowsStay
<1>1. CASE Respond(r)
  BY <1>1, RespondStep DEF Prepare
<1>2. CASE /\ Advance(r, IF NamesBranch(request[r].body) THEN "resolve" ELSE "insert")
           /\ request[r].body.roles \subseteq Roles
  <2>1. PICK p \in Slots : p = request[r] /\ RequestOK(p)
    BY SlotOf DEF Prepare, At
  <2>2. PICK step \in {"resolve", "insert"} :
          /\ step = IF NamesBranch(request[r].body) THEN "resolve" ELSE "insert"
          /\ Advance(r, step)
    BY <1>2
  <2>3. PICK q \in Slots :
          /\ q.pc = step /\ q.op = p.op /\ q.target = p.target /\ q.body = p.body
          /\ request' = [ request EXCEPT ![r] = q ]
    BY <2>1, <2>2, AdvanceSlot DEF Prepare, At, Steps
  <2>4. RequestOK(q)
    BY <1>2, <2>1, <2>2, <2>3 DEF RequestOK, StepOf, AccessOK, RolesOK, BranchOK, Prepare, At
  <2> QED
    BY <2>3, <2>4, RequestStep DEF Prepare
<1> QED
  BY <1>1, <1>2 DEF Prepare

\* resolveBranchId.
LEMMA ResolveBranchIdStep ==
  ASSUME IInv, NEW r \in Requests, ResolveBranchId(r)
  PROVE  IInv' /\ RowsStay
<1>1. CASE Respond(r)
  BY <1>1, RespondStep DEF ResolveBranchId
<1>2. CASE /\ Advance(r, IF request[r].op = "create" THEN "insert" ELSE "write")
           /\ BranchIs(request[r].body.branch, request[r].org)
  <2>1. PICK p \in Slots : p = request[r] /\ RequestOK(p)
    BY SlotOf DEF ResolveBranchId, At
  <2>2. PICK step \in {"insert", "write"} :
          /\ step = IF request[r].op = "create" THEN "insert" ELSE "write"
          /\ Advance(r, step)
    BY <1>2
  <2>3. PICK q \in Slots :
          /\ q.pc = step /\ q.op = p.op /\ q.caller = p.caller /\ q.org = p.org
          /\ q.role = p.role /\ q.target = p.target /\ q.body = p.body
          /\ request' = [ request EXCEPT ![r] = q ]
    BY <2>1, <2>2, AdvanceSlot DEF ResolveBranchId, At, Steps
  <2>4. RequestOK(q)
    BY <1>2, <2>1, <2>2, <2>3
       DEF RequestOK, StepOf, AccessOK, RolesOK, BranchOK, ResolveBranchId, At
  <2> QED
    BY <2>3, <2>4, RequestStep DEF ResolveBranchId
<1> QED
  BY <1>1, <1>2 DEF ResolveBranchId, BranchIs

\* assertCanAccessUser.
LEMMA AssertCanAccessUserStep ==
  ASSUME IInv, NEW r \in Requests, AssertCanAccessUser(r)
  PROVE  IInv' /\ RowsStay
<1>1. CASE Respond(r)
  BY <1>1, RespondStep DEF AssertCanAccessUser
<1>2. CASE /\ Advance(r, IF request[r].op = "remove" THEN "deactivate"
                         ELSE IF NamesBranch(request[r].body) THEN "resolve" ELSE "write")
           /\ UserExists(request[r].target)
           /\ user[request[r].target].org = request[r].org
           /\ request[r].role = "ADMIN" \/ request[r].target = request[r].caller
  <2>1. PICK p \in Slots : p = request[r] /\ RequestOK(p)
    BY SlotOf DEF AssertCanAccessUser, At
  <2>2. PICK step \in {"deactivate", "resolve", "write"} :
          /\ step = IF request[r].op = "remove" THEN "deactivate"
                    ELSE IF NamesBranch(request[r].body) THEN "resolve" ELSE "write"
          /\ Advance(r, step)
    BY <1>2
  <2>3. PICK q \in Slots :
          /\ q.pc = step /\ q.op = p.op /\ q.caller = p.caller /\ q.org = p.org
          /\ q.role = p.role /\ q.target = p.target /\ q.body = p.body
          /\ request' = [ request EXCEPT ![r] = q ]
    BY <2>1, <2>2, AdvanceSlot DEF AssertCanAccessUser, At, Steps
  <2>4. RequestOK(q)
    BY <1>2, <2>1, <2>2, <2>3
       DEF RequestOK, StepOf, AccessOK, RolesOK, BranchOK, AssertCanAccessUser, At
  <2> QED
    BY <2>3, <2>4, RequestStep DEF AssertCanAccessUser
<1> QED
  BY <1>1, <1>2 DEF AssertCanAccessUser

\* findOne of a branch.
LEMMA FindBranchStep ==
  ASSUME IInv, NEW r \in Requests, FindBranch(r)
  PROVE  IInv' /\ RowsStay
<1>1. CASE Respond(r)
  BY <1>1, RespondStep DEF FindBranch
<1>2. CASE Advance(r, "writeBranch") /\ BranchIs(request[r].target, request[r].org)
  <2>1. PICK p \in Slots : p = request[r] /\ RequestOK(p)
    BY SlotOf DEF FindBranch, At
  <2>2. PICK q \in Slots :
          /\ q.pc = "writeBranch" /\ q.op = p.op /\ q.org = p.org
          /\ q.target = p.target /\ q.body = p.body
          /\ request' = [ request EXCEPT ![r] = q ]
    BY <1>2, <2>1, AdvanceSlot DEF FindBranch, At, Steps
  <2>3. RequestOK(q)
    BY <1>2, <2>1, <2>2 DEF RequestOK, StepOf, AccessOK, RolesOK, BranchOK, FindBranch, At
  <2> QED
    BY <2>2, <2>3, RequestStep DEF FindBranch
<1> QED
  BY <1>1, <1>2 DEF FindBranch, BranchIs

\* The INSERT of create.
LEMMA InsertUserStep ==
  ASSUME IInv, NEW r \in Requests, InsertUser(r)
  PROVE  IInv' /\ RowsStay
<1>1. PICK p \in Slots :
        /\ p = request[r] /\ RequestOK(p) /\ p.op = "create"
        /\ p.body \in Bodies /\ p.body.email \in Emails /\ p.body.roles \subseteq Roles
        /\ p.org \in Organizations
        /\ NamesBranch(p.body) => BranchIs(p.body.branch, p.org)
  <2>1. PICK p \in Slots : /\ p = request[r] /\ RequestOK(p) /\ p.org \in Organizations
    BY SlotOf DEF InsertUser, At
  <2>2. p.op = "create" /\ p.body \in BodiesFor("create") /\ p.body.roles \subseteq Roles
    BY <2>1 DEF InsertUser, At, RequestOK, StepOf, RolesOK
  <2>3. p.body \in Bodies /\ p.body.email # Absent
    BY <2>2 DEF BodiesFor
  <2>4. p.body.email \in Emails
    BY <2>3, BodyFields
  <2> QED
    BY <2>1, <2>2, <2>3, <2>4 DEF InsertUser, At, RequestOK, BranchOK
<1>2. CASE UNCHANGED user
  BY <1>2, RespondStep DEF InsertUser
<1>3. CASE \E u \in UserIds :
             /\ ~UserExists(u) /\ ~EmailTaken(p.body.email)
             /\ user' = [ user EXCEPT ![u] =
                  [ org |-> p.org, email |-> p.body.email, active |-> TRUE,
                    branch |-> IF NamesBranch(p.body) THEN p.body.branch ELSE None,
                    roles |-> p.body.roles ] ]
  <2>1. PICK u \in UserIds :
             /\ ~UserExists(u) /\ ~EmailTaken(p.body.email)
             /\ user' = [ user EXCEPT ![u] =
                  [ org |-> p.org, email |-> p.body.email, active |-> TRUE,
                    branch |-> IF NamesBranch(p.body) THEN p.body.branch ELSE None,
                    roles |-> p.body.roles ] ]
    BY <1>3
  <2>2. PICK b \in BranchIds \cup {None} :
             b = IF NamesBranch(p.body) THEN p.body.branch ELSE None
    BY DEF NamesBranch
  <2>3. PICK row \in UserRows :
             row = [ org |-> p.org, email |-> p.body.email, active |-> TRUE,
                     branch |-> b, roles |-> p.body.roles ]
    BY <1>1, <2>2 DEF UserRows
  <2>4. user' = [ user EXCEPT ![u] = row ]
    BY <2>1, <2>2, <2>3
  <2>5. row.branch # None => BranchIs(row.branch, row.org)
    BY <1>1, <2>2, <2>3
  <2>6. \A v \in UserIds : UserExists(v) /\ user[v].email = row.email => v = u
    BY <2>1, <2>3 DEF EmailTaken
  <2>7. RowsStay
    BY <2>1 DEF InsertUser, RowsStay, UserExists, BranchExists, IInv, RowsOK
  <2>8. RequestOK(Idle)' /\ Idle \in Slots
    BY <2>7, IdleOK, RequestKept
  <2> QED
    BY <2>1, <2>4, <2>5, <2>6, <2>8, UserStep DEF InsertUser, Respond
<1> QED
  BY <1>1, <1>2, <1>3 DEF InsertUser

\* An UPDATE of the target's row that keeps its organization.
LEMMA TargetStep ==
  ASSUME IInv, NEW r \in Requests, NEW q \in Slots, NEW row \in UserRows,
         request[r].pc \in {"write", "deleteRoles", "createRoles", "deactivate"},
         user' = [ user EXCEPT ![request[r].target] = row ],
         request' = [ request EXCEPT ![r] = q ], RequestOK(q), branch' = branch,
         row.org = user[request[r].target].org,
         \/ row.email = user[request[r].target].email
         \/ ~EmailTaken(row.email),
         \/ row.branch = user[request[r].target].branch
         \/ row.branch # None => BranchIs(row.branch, row.org)
  PROVE  IInv' /\ RowsStay
<1>1. PICK p \in Slots : p = request[r] /\ RequestOK(p)
  BY SlotOf
<1>2. p.target \in UserIds /\ UserExists(p.target)
  BY <1>1 DEF RequestOK, StepOf, AccessOK, Targets
<1>3. row # None
  BY AdministrationAssumption
<1>4. RowsStay
  BY <1>1, <1>2, <1>3 DEF RowsStay, UserExists, BranchExists, IInv, RowsOK
<1>5. RequestOK(q)'
  BY <1>4, RequestKept
<1>6. \A v \in UserIds : UserExists(v) /\ user[v].email = row.email => v = p.target
  BY <1>1, <1>2 DEF EmailTaken, IInv, NamesUnique
<1>7. row.branch # None => BranchIs(row.branch, row.org)
  BY <1>1, <1>2 DEF IInv, BranchInOrganization, BranchIs
<1> QED
  BY <1>1, <1>2, <1>5, <1>6, <1>7, UserStep

\* What the target's row is before it is written.
LEMMA TargetRow ==
  ASSUME IInv, NEW r \in Requests,
         request[r].pc \in {"write", "deleteRoles", "createRoles", "deactivate"}
  PROVE  \E p \in Slots, old \in UserRows :
           /\ p = request[r] /\ RequestOK(p)
           /\ p.target \in UserIds /\ UserExists(p.target)
           /\ old = user[p.target] /\ old.org = p.org /\ p.org \in Organizations
           /\ p.pc # "deactivate" => p.op = "update" /\ p.body \in Bodies
<1>1. PICK p \in Slots : p = request[r] /\ RequestOK(p) /\ p.org \in Organizations
  BY SlotOf
<1>2. p.target \in UserIds /\ UserExists(p.target) /\ user[p.target].org = p.org
  BY <1>1 DEF RequestOK, StepOf, AccessOK, Targets
<1>3. user[p.target] \in UserRows
  BY <1>2 DEF UserExists, IInv, RowsOK
<1>4. p.pc # "deactivate" => p.op = "update" /\ p.body \in Bodies
  BY <1>1 DEF RequestOK, StepOf, BodiesFor
<1> QED
  BY <1>1, <1>2, <1>3, <1>4

\* The UPDATE of update.
LEMMA WriteFieldsStep ==
  ASSUME IInv, NEW r \in Requests, WriteFields(r)
  PROVE  IInv' /\ RowsStay
<1>1. CASE Respond(r) /\ UNCHANGED user
  BY <1>1, RespondStep DEF WriteFields
<1>2. CASE ~(Respond(r) /\ UNCHANGED user)
  <2>1. PICK p \in Slots, old \in UserRows :
          /\ p = request[r] /\ RequestOK(p) /\ p.target \in UserIds
          /\ old = user[p.target] /\ old.org = p.org
          /\ p.op = "update" /\ p.body \in Bodies
    BY TargetRow DEF WriteFields, At
  <2>2. PICK body : body = p.body
    OBVIOUS
  <2>3. PICK email \in Emails : email = Given(body.email, old.email)
    BY <2>1, <2>2, BodyFields DEF Given, UserRows
  <2>4. Given(body.active, old.active) \in BOOLEAN
    <3>1. old.active \in BOOLEAN
      BY DEF UserRows
    <3> QED
      BY <2>1, <2>2, <3>1, BodyFields, Zenon DEF Given
  <2>5. PICK active \in BOOLEAN : active = Given(body.active, old.active)
    BY <2>4
  <2>6. PICK b \in BranchIds \cup {None} : b = Given(body.branch, old.branch)
    BY <2>1, <2>2, BodyFields DEF Given, UserRows
  <2>7. PICK row : row = [ old EXCEPT !.email = email, !.active = active, !.branch = b ]
    OBVIOUS
  <2>8. /\ row \in UserRows /\ row.org = old.org
        /\ row.email = email /\ row.branch = b
    BY <2>7 DEF UserRows
  <2>9. PICK step \in {"readBack", "deleteRoles"} :
          /\ step = IF body.roles = Absent THEN "readBack" ELSE "deleteRoles"
          /\ Advance(r, step)
    BY <1>2, <2>1, <2>2 DEF WriteFields
  <2>10. PICK q \in Slots :
          /\ q.pc = step /\ q.op = p.op /\ q.caller = p.caller /\ q.org = p.org
          /\ q.role = p.role /\ q.target = p.target /\ q.body = p.body
          /\ request' = [ request EXCEPT ![r] = q ]
    BY <2>1, <2>9, AdvanceSlot DEF WriteFields, At, Steps
  <2>11. RequestOK(q)
    BY <2>1, <2>2, <2>9, <2>10
       DEF RequestOK, StepOf, AccessOK, RolesOK, BranchOK, WriteFields, At
  <2>12. user' = [ user EXCEPT ![p.target] = row ]
    <3>1. user' = [ user EXCEPT ![p.target].email  = Given(body.email, @),
                                ![p.target].active = Given(body.active, @),
                                ![p.target].branch = Given(body.branch, @) ]
      BY <1>2, <2>1, <2>2 DEF WriteFields
    <3>2. user \in [UserIds -> UserRows \cup {None}]
      BY DEF IInv, RowsOK
    <3> QED
      BY <2>1, <2>3, <2>5, <2>6, <2>7, <3>1, <3>2 DEF UserRows
  <2>13. email = old.email \/ ~EmailTaken(email)
    BY <1>2, <2>1, <2>2, <2>3 DEF WriteFields, Given
  <2>14. b = old.branch \/ (b # None => BranchIs(b, old.org))
    BY <2>1, <2>2, <2>6 DEF Given, NamesBranch, RequestOK, BranchOK, WriteFields, At
  <2>15. request[r].pc = "write" /\ branch' = branch
    BY DEF WriteFields, At
  <2> QED
    BY <2>1, <2>8, <2>10, <2>11, <2>12, <2>13, <2>14, <2>15, TargetStep
<1> QED
  BY <1>1, <1>2

\* The first statement of a role edit.
LEMMA DeleteRolesStep ==
  ASSUME IInv, NEW r \in Requests, DeleteRoles(r)
  PROVE  IInv' /\ RowsStay
<1>1. CASE Respond(r) /\ UNCHANGED user
  BY <1>1, RespondStep DEF DeleteRoles
<1>2. CASE ~(Respond(r) /\ UNCHANGED user)
  <2>1. PICK p \in Slots, old \in UserRows :
          /\ p = request[r] /\ RequestOK(p) /\ p.target \in UserIds
          /\ old = user[p.target]
    BY TargetRow DEF DeleteRoles, At
  <2>2. PICK mid : mid = [ p EXCEPT !.pc = "createRoles" ]
    OBVIOUS
  <2>3. PICK q : q = [ mid EXCEPT !.removed = old.roles ]
    OBVIOUS
  <2>4. /\ q.pc = "createRoles" /\ q.op = p.op /\ q.caller = p.caller /\ q.org = p.org
        /\ q.role = p.role /\ q.target = p.target /\ q.body = p.body
        /\ q \in Slots
    <3>1. p \in [ pc : Steps \ {"idle"}, op : Endpoints, caller : UserIds,
                  org : Organizations, role : CanonicalRoles,
                  target : UserIds \cup BranchIds \cup {None},
                  body : Bodies \cup {None}, removed : SUBSET Roles ]
      BY <2>1, SlotOf DEF DeleteRoles, At
    <3>2. PICK roles \in SUBSET Roles : roles = old.roles
      BY DEF UserRows
    <3>3. q = [ mid EXCEPT !.removed = roles ]
      BY <2>3, <3>2
    <3>4. "createRoles" \in Steps \ {"idle"}
      BY DEF Steps
    <3> QED
      BY <2>2, <3>1, <3>3, <3>4 DEF Slots
  <2>5. RequestOK(q)
    BY <1>2, <2>1, <2>4 DEF RequestOK, StepOf, AccessOK, RolesOK, BranchOK, DeleteRoles, At
  <2>6. PICK row : row = [ old EXCEPT !.roles = {} ]
    OBVIOUS
  <2>7. row \in UserRows /\ row.org = old.org /\ row.email = old.email /\ row.branch = old.branch
    BY <2>6 DEF UserRows
  <2>8. user' = [ user EXCEPT ![p.target] = row ]
    BY <1>2, <2>1, <2>6 DEF DeleteRoles, IInv, RowsOK
  <2>9. request' = [ request EXCEPT ![r] = q ]
    BY <1>2, <2>1, <2>2, <2>3 DEF DeleteRoles, IInv
  <2>10. request[r].pc = "deleteRoles" /\ branch' = branch
    BY DEF DeleteRoles, At
  <2> QED
    BY <2>1, <2>4, <2>5, <2>7, <2>8, <2>9, <2>10, TargetStep
<1> QED
  BY <1>1, <1>2

\* The second statement of a role edit.
LEMMA CreateRolesStep ==
  ASSUME IInv, NEW r \in Requests, CreateRoles(r)
  PROVE  IInv' /\ RowsStay
<1>1. CASE Respond(r) /\ UNCHANGED user
  BY <1>1, RespondStep DEF CreateRoles
<1>2. CASE ~(Respond(r) /\ UNCHANGED user)
  <2>1. PICK p \in Slots, old \in UserRows :
          /\ p = request[r] /\ RequestOK(p) /\ p.target \in UserIds
          /\ old = user[p.target]
    BY TargetRow DEF CreateRoles, At
  <2>2. Advance(r, "readBack")
    BY <1>2 DEF CreateRoles
  <2>3. PICK q \in Slots :
          /\ q.pc = "readBack" /\ q.op = p.op /\ q.caller = p.caller /\ q.org = p.org
          /\ q.role = p.role /\ q.target = p.target /\ q.body = p.body
          /\ request' = [ request EXCEPT ![r] = q ]
    BY <2>1, <2>2, AdvanceSlot DEF CreateRoles, At, Steps
  <2>4. RequestOK(q)
    BY <2>1, <2>3 DEF RequestOK, StepOf, AccessOK, RolesOK, BranchOK, CreateRoles, At
  <2>5. PICK roles \in SUBSET Roles : roles = old.roles \cup p.body.roles
    BY <2>1 DEF RequestOK, RolesOK, UserRows, CreateRoles, At
  <2>6. PICK row : row = [ old EXCEPT !.roles = roles ]
    OBVIOUS
  <2>7. row \in UserRows /\ row.org = old.org /\ row.email = old.email /\ row.branch = old.branch
    BY <2>6 DEF UserRows
  <2>8. user' = [ user EXCEPT ![p.target] = row ]
    BY <1>2, <2>1, <2>5, <2>6 DEF CreateRoles, IInv, RowsOK
  <2>9. request[r].pc = "createRoles" /\ branch' = branch
    BY DEF CreateRoles, At
  <2> QED
    BY <2>1, <2>3, <2>4, <2>7, <2>8, <2>9, TargetStep
<1> QED
  BY <1>1, <1>2

\* softDelete.
LEMMA DeactivateStep ==
  ASSUME IInv, NEW r \in Requests, Deactivate(r)
  PROVE  IInv' /\ RowsStay
<1>1. PICK p \in Slots, old \in UserRows :
        /\ p = request[r] /\ RequestOK(p) /\ p.target \in UserIds
        /\ old = user[p.target]
  BY TargetRow DEF Deactivate, At
<1>2. PICK row : row = [ old EXCEPT !.active = FALSE ]
  OBVIOUS
<1>3. row \in UserRows /\ row.org = old.org /\ row.email = old.email /\ row.branch = old.branch
  BY <1>2 DEF UserRows
<1>4. user' = [ user EXCEPT ![p.target] = row ]
  BY <1>1, <1>2 DEF Deactivate, IInv, RowsOK
<1>5. request[r].pc = "deactivate" /\ branch' = branch
  BY DEF Deactivate, At
<1> QED
  BY <1>1, <1>3, <1>4, <1>5, IdleOK, TargetStep DEF Deactivate, Respond

\* The statements of BranchesService.
LEMMA InsertBranchStep ==
  ASSUME IInv, NEW r \in Requests, InsertBranch(r)
  PROVE  IInv' /\ RowsStay
<1>1. CASE UNCHANGED branch
  BY <1>1, RespondStep DEF InsertBranch
<1>2. CASE ~UNCHANGED branch
  <2>1. PICK p \in Slots : p = request[r] /\ RequestOK(p) /\ p.org \in Organizations
    BY SlotOf DEF InsertBranch, At
  <2>2. p.body \in Bodies /\ p.body.code # Absent
    BY <2>1 DEF RequestOK, StepOf, BodiesFor, InsertBranch, At
  <2>3. PICK body : body = p.body
    OBVIOUS
  <2>4. body.code \in Codes
    BY <2>2, <2>3, BodyFields
  <2>5. Given(body.active, TRUE) \in BOOLEAN
    BY <2>2, <2>3, BodyFields, Zenon DEF Given
  <2>6. PICK active \in BOOLEAN : active = Given(body.active, TRUE)
    BY <2>5
  <2>7. PICK row : row = [org |-> p.org, code |-> body.code, active |-> active]
    OBVIOUS
  <2>8. row \in BranchRows /\ row.org = p.org /\ row.code = body.code
    BY <2>1, <2>4, <2>7 DEF BranchRows
  <2>9. PICK b \in BranchIds :
          ~BranchExists(b) /\ branch' = [ branch EXCEPT ![b] = row ]
    BY <1>2, <2>1, <2>3, <2>6, <2>7 DEF InsertBranch
  <2>10. ~CodeTaken(p.org, body.code) /\ user' = user /\ Respond(r)
    BY <1>2, <2>1, <2>3 DEF InsertBranch
  <2> QED
    BY <2>8, <2>9, <2>10, BranchStep
<1> QED
  BY <1>1, <1>2

\* Their UPDATE.
LEMMA WriteBranchStep ==
  ASSUME IInv, NEW r \in Requests, WriteBranch(r)
  PROVE  IInv' /\ RowsStay
<1>1. PICK p \in Slots :
        p = request[r] /\ p.target \in BranchIds /\ p.body \in Bodies /\ BranchExists(p.target)
  <2>1. PICK p \in Slots : p = request[r] /\ RequestOK(p)
    BY SlotOf DEF WriteBranch, At
  <2> QED
    BY <2>1 DEF RequestOK, StepOf, BranchOK, BranchIs, Targets, BodiesFor, WriteBranch, At
<1>2. PICK old \in BranchRows : old = branch[p.target]
  BY <1>1 DEF BranchExists, IInv, RowsOK
<1>3. PICK body : body = p.body
  OBVIOUS
<1>4. Given(body.active, old.active) \in BOOLEAN
  <2>1. old.active \in BOOLEAN
    BY DEF BranchRows
  <2> QED
    BY <1>1, <1>3, <2>1, BodyFields, Zenon DEF Given
<1>5. PICK active \in BOOLEAN : active = Given(body.active, old.active)
  BY <1>4
<1>6. PICK row : row = [ old EXCEPT !.active = active ]
  OBVIOUS
<1>7. row \in BranchRows /\ row.org = old.org /\ row.code = old.code
  BY <1>6 DEF BranchRows
<1>8. branch' = [ branch EXCEPT ![p.target] = row ]
  BY <1>1, <1>2, <1>3, <1>5, <1>6 DEF WriteBranch, IInv, RowsOK
<1> QED
  BY <1>1, <1>2, <1>7, <1>8, BranchStep DEF WriteBranch

\* Every step.
LEMMA IInvStep ==
  ASSUME IInv, [Next]_vars
  PROVE  IInv' /\ RowsStay
<1>1. ASSUME NEW r \in Requests, Step(r) \/ Abort(r)
      PROVE  IInv' /\ RowsStay
  BY <1>1, AuthorizeStep, PrepareStep, ResolveBranchIdStep, InsertUserStep,
     AssertCanAccessUserStep, WriteFieldsStep, DeleteRolesStep, CreateRolesStep,
     DeactivateStep, InsertBranchStep, FindBranchStep, WriteBranchStep, RespondStep
     DEF Step, Abort, ReadBack
<1>2. ASSUME NEW r \in Requests, NEW op \in Operations, NEW caller \in UserIds,
             NEW target \in Targets(op), NEW body \in BodiesFor(op),
             Arrive(r, op, caller, target, body)
      PROVE  IInv' /\ RowsStay
  BY <1>2, ArriveStep
<1>3. CASE UNCHANGED vars
  <2>1. RowsStay
    BY <1>3 DEF vars, RowsStay, UserExists, BranchExists
  <2>2. \A r \in Requests, q \in Slots : q = request'[r] => RequestOK(q)'
    BY <1>3, <2>1, RequestKept DEF vars, IInv
  <2> QED
    BY <1>3, <2>1, <2>2 DEF vars, IInv, RowsOK, NamesUnique, BranchInOrganization, UserExists,
                      BranchExists
<1> QED
  BY <1>1, <1>2, <1>3 DEF Next

\* The founders and their branches.
LEMMA IInvInitially ==
  Init => IInv
<1> SUFFICES ASSUME Init PROVE IInv
  OBVIOUS
<1>1. RowsOK
  BY AdministrationAssumption DEF Init, RowsOK
<1>2. \A r \in Requests : request[r] = Idle
  BY DEF Init
<1>3. request \in [Requests -> Slots]
  BY IdleOK DEF Init
<1>4. NamesUnique
  BY AdministrationAssumption DEF Init, NamesUnique, UserExists, BranchExists
<1>5. BranchInOrganization
  BY AdministrationAssumption DEF Init, BranchInOrganization, UserExists, BranchExists
<1> QED
  BY <1>1, <1>2, <1>3, <1>4, <1>5, IdleOK DEF IInv

\* What requests have found is so, always.
LEMMA Invariance ==
  Spec => []IInv
<1>1. IInv /\ [Next]_vars => IInv'
  BY IInvStep
<1> QED
  BY <1>1, IInvInitially, PTL DEF Spec

-------------------------------------------------------------------------------
(* What the administration guarantees.                                     *)

\* No statement stores an unknown role, a branch or a user that is none.
THEOREM AdministrationTypeCorrect ==
  Spec => []TypeOK
BY Invariance, TypesFollow, PTL

\* The unique indexes hold whatever the look-ups before the statements saw.
THEOREM NamesStayUnique ==
  Spec => []NamesUnique
<1>1. IInv => NamesUnique
  BY DEF IInv
<1> QED
  BY <1>1, Invariance, PTL

\* The branch that resolveBranchId found for the caller is one of the user's organization
\* when, some statements later, it is written.
THEOREM UsersStayInTheirOrganization ==
  Spec => []BranchInOrganization
<1>1. IInv => BranchInOrganization
  BY DEF IInv
<1> QED
  BY <1>1, Invariance, PTL

\* Only a statement of update or remove changes a row that is there.
LEMMA ChangesStep ==
  ASSUME IInv, [Next]_vars, NEW u \in UserIds, UserExists(u), user'[u] # user[u]
  PROVE  \E r \in Requests :
           /\ WriteFields(r) \/ DeleteRoles(r) \/ CreateRoles(r) \/ Deactivate(r)
           /\ request[r].target = u
<1>1. ASSUME NEW r \in Requests, Step(r)
      PROVE  /\ WriteFields(r) \/ DeleteRoles(r) \/ CreateRoles(r) \/ Deactivate(r)
             /\ request[r].target = u
  <2>1. CASE WriteFields(r)
    BY <2>1 DEF WriteFields, IInv, RowsOK
  <2>2. CASE DeleteRoles(r)
    BY <2>2 DEF DeleteRoles, IInv, RowsOK
  <2>3. CASE CreateRoles(r)
    BY <2>3 DEF CreateRoles, IInv, RowsOK
  <2>4. CASE Deactivate(r)
    BY <2>4 DEF Deactivate, IInv, RowsOK
  <2>5. CASE InsertUser(r)
    BY <2>5 DEF InsertUser, IInv, RowsOK
  <2> QED
    BY <1>1, <2>1, <2>2, <2>3, <2>4, <2>5 DEF Step, Authorize, Prepare, ResolveBranchId,
       AssertCanAccessUser, ReadBack, InsertBranch, FindBranch, WriteBranch
<1> QED
  BY <1>1 DEF Next, Arrive, Abort, vars

\* Whoever changes a user is an administrator of its organization, or that user.
THEOREM ChangesAreAuthorized ==
  Spec => ChangesAuthorized
<1>1. ASSUME IInv, [Next]_vars
      PROVE  [ \A u \in UserIds : UserExists(u) /\ user'[u] # user[u] =>
                 \E r \in Requests :
                   /\ request'[r] # request[r]
                   /\ request[r].target = u
                   /\ request[r].org = user[u].org
                   /\ request[r].role = "ADMIN" \/ request[r].caller = u ]_vars
  <2> SUFFICES ASSUME NEW u \in UserIds, UserExists(u), user'[u] # user[u]
               PROVE  \E r \in Requests :
                        /\ request'[r] # request[r]
                        /\ request[r].target = u
                        /\ request[r].org = user[u].org
                        /\ request[r].role = "ADMIN" \/ request[r].caller = u
    OBVIOUS
  <2>1. PICK r \in Requests :
          /\ WriteFields(r) \/ DeleteRoles(r) \/ CreateRoles(r) \/ Deactivate(r)
          /\ request[r].target = u
    BY <1>1, ChangesStep
  <2>2. request[r].pc \in {"write", "deleteRoles", "createRoles", "deactivate"}
    BY <2>1 DEF WriteFields, DeleteRoles, CreateRoles, Deactivate, At
  <2>3. PICK p \in Slots : p = request[r] /\ RequestOK(p)
    BY <1>1, <2>2, SlotOf
  <2>4. p.org = user[u].org /\ (p.role = "ADMIN" \/ p.caller = u)
    BY <2>1, <2>2, <2>3 DEF RequestOK, AccessOK
  <2>5. request'[r].pc # request[r].pc
    BY <1>1, <2>1, <2>2, <2>3 DEF WriteFields, DeleteRoles, CreateRoles, Deactivate, Advance,
       Respond, At, Idle, IInv, Slots
  <2> QED
    BY <2>1, <2>3, <2>4, <2>5
<1> QED
  BY <1>1, Invariance, PTL DEF Spec, ChangesAuthorized

-------------------------------------------------------------------------------
(***************************************************************************)
(* Administration implements Directory for any number of users, branches   *)
(* and requests, provided that no query rejects and no process stops       *)
(* between the two statements of a role edit.                              *)
(*                                                                         *)
(* A user without roles is one whose roles are being replaced: a request   *)
(* that has deleted some is about to create others.  Until then the        *)
(* directory shows the deleted ones.                                       *)
(***************************************************************************)

\* A user without roles has lost them to an edit that is not finished.
SettleInv ==
  \A u \in UserIds : UserExists(u) /\ user[u].roles = {} =>
    \E r \in Requests : EditsRoles(r, u) /\ request[r].removed # {}

\* q is a request that has deleted roles of u.
HasRemoved(q, u) == q.pc = "createRoles" /\ q.target = u /\ q.removed # {}

\* A step of one request that leaves no user without roles, but for its own edit.
LEMMA SettleKept ==
  ASSUME IInv, SettleInv, NEW r \in Requests, NEW q \in Slots,
         request' = [ request EXCEPT ![r] = q ],
         \A u \in UserIds : UserExists(u)' /\ user'[u].roles = {} =>
           \/ HasRemoved(q, u)
           \/ UserExists(u) /\ user[u].roles = {} /\ ~EditsRoles(r, u)
  PROVE  SettleInv'
<1> SUFFICES ASSUME NEW u \in UserIds, UserExists(u)', user'[u].roles = {}
             PROVE  \E s \in Requests : EditsRoles(s, u)' /\ request'[s].removed # {}
  BY DEF SettleInv
<1>1. CASE HasRemoved(q, u)
  BY <1>1 DEF HasRemoved, EditsRoles, At, IInv
<1>2. CASE UserExists(u) /\ user[u].roles = {} /\ ~EditsRoles(r, u)
  <2>1. PICK s \in Requests : EditsRoles(s, u) /\ request[s].removed # {}
    BY <1>2 DEF SettleInv
  <2>2. s # r /\ request'[s] = request[s]
    BY <1>2, <2>1 DEF IInv
  <2> QED
    BY <2>1, <2>2 DEF EditsRoles, At
<1> QED
  BY <1>1, <1>2

\* Every step that is one of a request gives it a slot again.
LEMMA MovesOne ==
  ASSUME IInv, IInv', NEW r \in Requests,
         \/ \E step : Advance(r, step)
         \/ Respond(r)
         \/ \E step, removed :
              request' = [ request EXCEPT ![r].pc = step, ![r].removed = removed ]
         \/ \E slot : request' = [ request EXCEPT ![r] = slot ]
  PROVE  \E q \in Slots : q = request'[r] /\ request' = [ request EXCEPT ![r] = q ]
<1>1. PICK q \in Slots : q = request'[r]
  BY DEF IInv
<1>2. request' = [ request EXCEPT ![r] = q ]
  BY <1>1 DEF IInv, Advance, Respond
<1> QED
  BY <1>1, <1>2

\* A step of a request that edits no roles, and leaves those there are.
LEMMA RolesUntouched ==
  ASSUME IInv, SettleInv, NEW r \in Requests, NEW q \in Slots,
         request' = [ request EXCEPT ![r] = q ],
         request[r].pc # "createRoles",
         \A u \in UserIds : UserExists(u)' =>
           \/ UserExists(u) /\ user'[u].roles = user[u].roles
           \/ user'[u].roles # {}
  PROVE  SettleInv'
BY SettleKept DEF EditsRoles, At

\* A step that writes no user, or writes fields of one.
LEMMA SettleOther ==
  ASSUME IInv, IInv', SettleInv, NEW r \in Requests,
         \/ Authorize(r) \/ Prepare(r) \/ ResolveBranchId(r) \/ InsertUser(r)
         \/ AssertCanAccessUser(r) \/ WriteFields(r) \/ ReadBack(r) \/ Deactivate(r)
         \/ InsertBranch(r) \/ FindBranch(r) \/ WriteBranch(r)
  PROVE  SettleInv'
<1>1. PICK q \in Slots : request' = [ request EXCEPT ![r] = q ]
  BY MovesOne DEF Authorize, Prepare, ResolveBranchId, InsertUser, AssertCanAccessUser,
     WriteFields, ReadBack, Deactivate, InsertBranch, FindBranch, WriteBranch
<1>2. request[r].pc # "createRoles"
  BY DEF Authorize, Prepare, ResolveBranchId, InsertUser, AssertCanAccessUser, At,
     WriteFields, ReadBack, Deactivate, InsertBranch, FindBranch, WriteBranch
<1>3. ASSUME NEW u \in UserIds, UserExists(u)'
      PROVE  \/ UserExists(u) /\ user'[u].roles = user[u].roles
             \/ user'[u].roles # {}
  <2>1. CASE UNCHANGED user
    BY <1>3, <2>1 DEF UserExists
  <2>2. CASE InsertUser(r) /\ ~UNCHANGED user
    <3>1. PICK p \in Slots : p = request[r] /\ RequestOK(p)
      BY <2>2, SlotOf DEF InsertUser, At
    <3>2. p.body \in Bodies /\ p.body.roles # Absent
      BY <2>2, <3>1 DEF RequestOK, StepOf, BodiesFor, InsertUser, At
    <3>3. p.body.roles # {}
      BY <3>2, BodyFields
    <3>4. PICK v, row :
            v \in UserIds /\ user' = [ user EXCEPT ![v] = row ] /\ row.roles = p.body.roles
      BY <2>2, <3>1 DEF InsertUser
    <3> QED
      BY <1>3, <3>3, <3>4 DEF UserExists, IInv, RowsOK
  <2>3. CASE WriteFields(r) \/ Deactivate(r)
    <3>1. PICK p \in Slots, old \in UserRows :
            /\ p = request[r] /\ p.target \in UserIds /\ UserExists(p.target)
            /\ old = user[p.target]
      BY <2>3, TargetRow DEF WriteFields, Deactivate, At
    <3>2. CASE u = p.target
      <4>1. CASE WriteFields(r) /\ ~UNCHANGED user
        <5>1. PICK email : email = Given(p.body.email, old.email)
          OBVIOUS
        <5>2. PICK active : active = Given(p.body.active, old.active)
          OBVIOUS
        <5>3. PICK b : b = Given(p.body.branch, old.branch)
          OBVIOUS
        <5>4. PICK row : row = [ old EXCEPT !.email = email, !.active = active, !.branch = b ]
          OBVIOUS
        <5>5. user' = [ user EXCEPT ![p.target].email  = Given(p.body.email, @),
                                    ![p.target].active = Given(p.body.active, @),
                                    ![p.target].branch = Given(p.body.branch, @) ]
          BY <3>1, <4>1 DEF WriteFields
        <5>6. user' = [ user EXCEPT ![p.target] = row ]
          BY <3>1, <5>1, <5>2, <5>3, <5>4, <5>5 DEF UserRows, IInv, RowsOK
        <5>7. row.roles = old.roles
          BY <5>4 DEF UserRows
        <5> QED
          BY <3>1, <3>2, <5>6, <5>7 DEF IInv, RowsOK
      <4>2. CASE Deactivate(r)
        BY <3>1, <3>2, <4>2 DEF Deactivate, UserRows, IInv, RowsOK
      <4>3. CASE UNCHANGED user
        BY <3>1, <3>2, <4>3
      <4> QED
        BY <2>3, <4>1, <4>2, <4>3
    <3>3. CASE u # p.target
      BY <1>3, <2>3, <3>1, <3>3 DEF WriteFields, Deactivate, UserExists, IInv, RowsOK
    <3> QED
      BY <3>2, <3>3
  <2> QED
    BY <2>1, <2>2, <2>3 DEF Authorize, Prepare, ResolveBranchId, AssertCanAccessUser,
       ReadBack, InsertBranch, FindBranch, WriteBranch
<1> QED
  BY <1>1, <1>2, <1>3, RolesUntouched

\* The two statements of a role edit.
LEMMA SettleEdit ==
  ASSUME IInv, IInv', SettleInv, NEW r \in Requests, DeleteRoles(r) \/ CreateRoles(r)
  PROVE  SettleInv'
<1>1. PICK q \in Slots : q = request'[r] /\ request' = [ request EXCEPT ![r] = q ]
  BY MovesOne DEF DeleteRoles, CreateRoles
<1>2. PICK p \in Slots, old \in UserRows :
        /\ p = request[r] /\ RequestOK(p) /\ p.target \in UserIds /\ UserExists(p.target)
        /\ old = user[p.target] /\ p.body \in Bodies
  BY TargetRow DEF DeleteRoles, CreateRoles, At
<1>3. \A u \in UserIds : u # p.target => user'[u] = user[u]
  BY <1>2 DEF DeleteRoles, CreateRoles, IInv, RowsOK
<1>4. CASE DeleteRoles(r)
  <2>1. CASE UNCHANGED user
    BY <1>1, <1>4, <2>1, RolesUntouched DEF DeleteRoles, At, UserExists
  <2>2. CASE ~UNCHANGED user
    <3>1. q.pc = "createRoles" /\ q.target = p.target /\ q.removed = old.roles
      <4>1. request' = [ request EXCEPT ![r].pc = "createRoles", ![r].removed = old.roles ]
        BY <1>2, <1>4, <2>2 DEF DeleteRoles
      <4>2. PICK mid : mid = [ p EXCEPT !.pc = "createRoles" ]
        OBVIOUS
      <4>3. q = [ mid EXCEPT !.removed = old.roles ]
        BY <1>1, <1>2, <4>1, <4>2 DEF IInv
      <4>4. p \in [ pc : Steps \ {"idle"}, op : Endpoints, caller : UserIds,
                    org : Organizations, role : CanonicalRoles,
                    target : UserIds \cup BranchIds \cup {None},
                    body : Bodies \cup {None}, removed : SUBSET Roles ]
        BY <1>2, <1>4, SlotOf DEF DeleteRoles, At
      <4> QED
        BY <4>2, <4>3, <4>4
    <3>2. ASSUME NEW u \in UserIds, UserExists(u)', user'[u].roles = {}
          PROVE  \/ HasRemoved(q, u)
                 \/ UserExists(u) /\ user[u].roles = {} /\ ~EditsRoles(r, u)
      BY <1>2, <1>3, <1>4, <3>1, <3>2 DEF HasRemoved, EditsRoles, DeleteRoles, At, UserExists
    <3> QED
      BY <1>1, <3>2, SettleKept
  <2> QED
    BY <2>1, <2>2
<1>5. CASE CreateRoles(r)
  <2>1. p.body.roles # {}
    <3>1. p.body.roles # Absent
      BY <1>2, <1>5 DEF RequestOK, RolesOK, CreateRoles, At
    <3> QED
      BY <1>2, <3>1, BodyFields
  <2>2. user'[p.target].roles # {}
    <3>1. CASE p.body.roles \cap old.roles # {}
      BY <1>2, <1>5, <3>1 DEF CreateRoles
    <3>2. CASE p.body.roles \cap old.roles = {}
      <4>1. PICK roles : roles = old.roles \cup p.body.roles
        OBVIOUS
      <4>2. user' = [ user EXCEPT ![p.target].roles = roles ]
        BY <1>2, <1>5, <3>2, <4>1 DEF CreateRoles, IInv, RowsOK
      <4>3. user'[p.target].roles = roles
        BY <1>2, <4>2 DEF UserRows, IInv, RowsOK
      <4> QED
        BY <2>1, <4>1, <4>3
    <3> QED
      BY <3>1, <3>2
  <2>3. ASSUME NEW u \in UserIds, UserExists(u)', user'[u].roles = {}
        PROVE  UserExists(u) /\ user[u].roles = {} /\ ~EditsRoles(r, u)
    BY <1>2, <1>3, <2>2, <2>3 DEF EditsRoles, UserExists
  <2> QED
    BY <1>1, <2>3, SettleKept
<1> QED
  BY <1>4, <1>5

\* Every step.
LEMMA SettleStep ==
  ASSUME "createRoles" \notin AbortAt, IInv, IInv', SettleInv, [Next]_vars
  PROVE  SettleInv'
<1>1. ASSUME NEW r \in Requests, Step(r)
      PROVE  SettleInv'
  BY <1>1, SettleOther, SettleEdit DEF Step
<1>2. ASSUME NEW r \in Requests, Abort(r)
      PROVE  SettleInv'
  <2>1. PICK q \in Slots : request' = [ request EXCEPT ![r] = q ]
    BY <1>2, MovesOne DEF Abort
  <2>2. request[r].pc # "createRoles" /\ user' = user
    BY <1>2 DEF Abort
  <2> QED
    BY <2>1, <2>2, RolesUntouched DEF UserExists
<1>3. ASSUME NEW r \in Requests, NEW op \in Operations, NEW caller \in UserIds,
             NEW target \in Targets(op), NEW body \in BodiesFor(op),
             Arrive(r, op, caller, target, body)
      PROVE  SettleInv'
  <2>1. PICK q \in Slots : request' = [ request EXCEPT ![r] = q ]
    BY <1>3, MovesOne DEF Arrive
  <2>2. request[r].pc # "createRoles" /\ user' = user
    BY <1>3 DEF Arrive, At
  <2> QED
    BY <2>1, <2>2, RolesUntouched DEF UserExists
<1>4. CASE UNCHANGED vars
  BY <1>4 DEF vars, SettleInv, UserExists, EditsRoles, At
<1> QED
  BY <1>1, <1>2, <1>3, <1>4 DEF Next

\* Edits settle, always.
LEMMA SettleInvariance ==
  ASSUME "createRoles" \notin AbortAt
  PROVE  Spec => []SettleInv
<1>1. Init => SettleInv
  BY AdministrationAssumption DEF Init, SettleInv, UserExists
<1>2. IInv /\ IInv' /\ SettleInv /\ [Next]_vars => SettleInv'
  BY SettleStep
<1> QED
  BY <1>1, <1>2, Invariance, PTL DEF Spec

\* users.service.ts "User must have at least one role" holds but for edits under way, if
\* no query rejects between their two statements.
THEOREM RolesSettleWithoutAborts ==
  ASSUME "createRoles" \notin AbortAt
  PROVE  Spec => []RolesSettle
<1>1. SettleInv => RolesSettle
  BY DEF SettleInv, RolesSettle
<1> QED
  BY <1>1, SettleInvariance, PTL

-------------------------------------------------------------------------------
(* The directory.                                                          *)

\* The roles that unfinished edits have deleted.
Removed(u) == UNION { request[r].removed : r \in { q \in Requests : EditsRoles(q, u) } }

\* A user as the directory shows it.
Entry(u) ==
  IF UserExists(u) /\ user[u].roles = {}
    THEN [ user[u] EXCEPT !.roles = Removed(u) ]
    ELSE user[u]

Entries == [ u \in UserIds |-> Entry(u) ]

\* An entry is the user's row, with roles.
EntriesShow ==
  \A u \in UserIds :
    /\ Entry(u) # None <=> UserExists(u)
    /\ UserExists(u) => /\ Entry(u).org = user[u].org
                        /\ Entry(u).email = user[u].email
                        /\ Entry(u).branch = user[u].branch
                        /\ Entry(u).roles # {}

\* So it is.
LEMMA EntryOfUser ==
  IInv /\ SettleInv => EntriesShow
<1> SUFFICES ASSUME IInv, SettleInv, NEW u \in UserIds
             PROVE  /\ Entry(u) # None <=> UserExists(u)
                    /\ UserExists(u) => /\ Entry(u).org = user[u].org
                                        /\ Entry(u).email = user[u].email
                                        /\ Entry(u).branch = user[u].branch
                                        /\ Entry(u).roles # {}
  BY DEF EntriesShow
<1>1. CASE ~(UserExists(u) /\ user[u].roles = {})
  BY <1>1 DEF Entry, UserExists
<1>2. CASE UserExists(u) /\ user[u].roles = {}
  <2>1. PICK roles : roles = Removed(u)
    OBVIOUS
  <2>2. roles \in SUBSET Roles
    <3>1. \A r \in Requests : request[r].removed \in SUBSET Roles
      BY DEF IInv, Slots, Idle
    <3> QED
      BY <2>1, <3>1 DEF Removed
  <2>3. roles # {}
    BY <1>2, <2>1 DEF SettleInv, Removed
  <2>4. PICK row \in UserRows : row = user[u]
    BY <1>2 DEF UserExists, IInv, RowsOK
  <2>5. Entry(u) = [ row EXCEPT !.roles = roles ]
    BY <1>2, <2>1, <2>4 DEF Entry
  <2>6. /\ Entry(u) \in UserRows /\ Entry(u).roles = roles /\ Entry(u).org = row.org
        /\ Entry(u).email = row.email /\ Entry(u).branch = row.branch
    BY <2>2, <2>4, <2>5 DEF UserRows
  <2> QED
    BY <1>2, <2>3, <2>4, <2>6, AdministrationAssumption
<1> QED
  BY <1>1, <1>2

\* The directory is consistent.
LEMMA EntriesConsistent ==
  IInv /\ SettleInv => Atomic!Consistent(Entries, branch)
<1> SUFFICES ASSUME IInv, SettleInv PROVE Atomic!Consistent(Entries, branch)
  OBVIOUS
<1>1. \A u \in UserIds :
        /\ Entries[u] # None <=> UserExists(u)
        /\ UserExists(u) => /\ Entries[u].org = user[u].org
                            /\ Entries[u].email = user[u].email
                            /\ Entries[u].branch = user[u].branch
                            /\ Entries[u].roles # {}
  BY EntryOfUser DEF Entries, EntriesShow
<1>2. NamesUnique /\ BranchInOrganization
  BY DEF IInv
<1> HIDE DEF Entries
<1> QED
  BY <1>1, <1>2 DEF Atomic!Consistent, NamesUnique, BranchInOrganization, UserExists, BranchExists

\* A user whose row and edits are left alone has the same entry.
LEMMA EntryKept ==
  ASSUME IInv, NEW r \in Requests, NEW q \in Slots, request' = [ request EXCEPT ![r] = q ],
         NEW u \in UserIds, user'[u] = user[u], ~EditsRoles(r, u),
         ~(q.pc = "createRoles" /\ q.target = u)
  PROVE  Entry(u)' = Entry(u)
<1>1. \A s \in Requests :
        /\ EditsRoles(s, u)' <=> EditsRoles(s, u)
        /\ EditsRoles(s, u) => request'[s].removed = request[s].removed
  BY DEF EditsRoles, At, IInv
<1>2. Removed(u)' = Removed(u)
  BY <1>1 DEF Removed
<1> QED
  BY <1>2 DEF Entry, UserExists

\* What a statement is in the directory.
LEMMA DirectoryStep ==
  ASSUME IInv, IInv', SettleInv, SettleInv', RowsStay,
         \/ Entries' = Entries /\ branch' = branch
         \/ /\ branch' = branch
            /\ \E u \in UserIds : \A v \in UserIds : v # u => Entry(v)' = Entry(v)
         \/ /\ Entries' = Entries
            /\ \E b \in BranchIds : \A c \in BranchIds : c # b => branch'[c] = branch[c]
  PROVE  [Atomic!Next]_<<Entries, branch>>
<1>1. Atomic!Consistent(Entries, branch)'
  BY EntriesConsistent, PTL
<1>2. CASE Entries' = Entries /\ branch' = branch
  BY <1>2
<1>3. ASSUME branch' = branch, NEW u \in UserIds,
             \A v \in UserIds : v # u => Entry(v)' = Entry(v)
      PROVE  Atomic!Next
  <2>1. Entries' = [ Entries EXCEPT ![u] = Entries'[u] ]
    BY <1>3 DEF Entries
  <2>2. Entries[u] # None => Entries'[u] # None /\ Entries'[u].org = Entries[u].org
    <3>1. Entry(u) # None => UserExists(u) /\ Entry(u).org = user[u].org
      BY EntryOfUser DEF EntriesShow
    <3>2. UserExists(u)' => Entry(u)' # None /\ Entry(u)'.org = user'[u].org
      <4>1. EntriesShow'
        BY EntryOfUser, PTL
      <4> QED
        BY <4>1 DEF EntriesShow
    <3> QED
      BY <3>1, <3>2 DEF Entries, RowsStay
  <2>3. Atomic!ChangeUser(u)
    BY <1>3, <2>1, <2>2 DEF Atomic!ChangeUser, Entries, Entry, Removed
  <2> QED
    BY <1>1, <2>3 DEF Atomic!Next, Entries, Entry, Removed
<1>4. ASSUME Entries' = Entries, NEW b \in BranchIds,
             \A c \in BranchIds : c # b => branch'[c] = branch[c]
      PROVE  Atomic!Next
  <2>1. branch' = [ branch EXCEPT ![b] = branch'[b] ]
    BY <1>4 DEF IInv, RowsOK
  <2>2. Atomic!ChangeBranch(b)
    BY <1>4, <2>1 DEF Atomic!ChangeBranch, Entries, Entry, Removed, RowsStay, BranchExists
  <2> QED
    BY <1>1, <2>2 DEF Atomic!Next, Entries, Entry, Removed
<1> QED
  BY <1>2, <1>3, <1>4

\* A step of one request that writes no user and edits no roles leaves the entries alone.
LEMMA EntriesKept ==
  ASSUME IInv, IInv', NEW r \in Requests, NEW q \in Slots,
         request' = [ request EXCEPT ![r] = q ],
         user' = user, request[r].pc # "createRoles", q.pc # "createRoles"
  PROVE  Entries' = Entries
<1>1. \A u \in UserIds : Entry(u)' = Entry(u)
  BY EntryKept DEF EditsRoles, At
<1> QED
  BY <1>1 DEF Entries

\* A step that writes no row, or one branch.
LEMMA OtherSteps ==
  ASSUME "createRoles" \notin AbortAt, IInv, IInv', NEW r \in Requests,
         \/ Authorize(r) \/ Prepare(r) \/ ResolveBranchId(r) \/ AssertCanAccessUser(r)
         \/ ReadBack(r) \/ FindBranch(r) \/ Abort(r) \/ InsertBranch(r) \/ WriteBranch(r)
  PROVE  /\ Entries' = Entries
         /\ \/ branch' = branch
            \/ \E b \in BranchIds : \A c \in BranchIds : c # b => branch'[c] = branch[c]
<1>1. PICK q \in Slots : q = request'[r] /\ request' = [ request EXCEPT ![r] = q ]
  BY MovesOne DEF Authorize, Prepare, ResolveBranchId, AssertCanAccessUser, ReadBack,
     FindBranch, Abort, InsertBranch, WriteBranch
<1>2. user' = user /\ request[r].pc # "createRoles"
  BY DEF Authorize, Prepare, ResolveBranchId, AssertCanAccessUser, ReadBack,
     FindBranch, Abort, InsertBranch, WriteBranch, At
<1>3. q.pc # "createRoles"
  <2>1. PICK p \in Slots : p = request[r]
    BY DEF IInv
  <2>2. CASE Respond(r)
    BY <1>1, <2>2 DEF Respond, Idle, IInv
  <2>3. ASSUME NEW step, Advance(r, step), step # "createRoles", request[r].pc # "idle"
        PROVE  q.pc # "createRoles"
    <3>1. q = [ p EXCEPT !.pc = step ]
      BY <1>1, <2>1, <2>3 DEF Advance, IInv
    <3> QED
      BY <2>1, <2>3, <3>1, SlotOf DEF Slots
  <2>4. FirstStep(request[r].op) # "createRoles" \/ ~Authorize(r)
    <3>1. ASSUME Authorize(r) PROVE request[r].op \in Endpoints
      BY <3>1, SlotOf DEF Authorize, At
    <3> QED
      BY <3>1 DEF FirstStep, Endpoints
  <2> QED
    BY <2>2, <2>3, <2>4 DEF Authorize, Prepare, ResolveBranchId, AssertCanAccessUser, ReadBack,
       FindBranch, Abort, InsertBranch, WriteBranch, At
<1>4. Entries' = Entries
  BY <1>1, <1>2, <1>3, EntriesKept
<1>5. \/ branch' = branch
      \/ \E b \in BranchIds : \A c \in BranchIds : c # b => branch'[c] = branch[c]
  <2>1. CASE InsertBranch(r)
    BY <2>1 DEF InsertBranch, IInv, RowsOK
  <2>2. CASE WriteBranch(r)
    <3>1. PICK p \in Slots : p = request[r] /\ RequestOK(p)
      BY <2>2, SlotOf DEF WriteBranch, At
    <3>2. p.target \in BranchIds
      BY <2>2, <3>1 DEF RequestOK, StepOf, Targets, WriteBranch, At
    <3> QED
      BY <2>2, <3>1, <3>2 DEF WriteBranch, IInv, RowsOK
  <2> QED
    BY <2>1, <2>2 DEF Authorize, Prepare, ResolveBranchId, AssertCanAccessUser, ReadBack,
       FindBranch, Abort
<1> QED
  BY <1>4, <1>5

\* A step that writes a user changes no other entry.
LEMMA UserSteps ==
  ASSUME IInv, IInv', NEW r \in Requests,
         \/ InsertUser(r) \/ WriteFields(r) \/ DeleteRoles(r) \/ CreateRoles(r)
         \/ Deactivate(r)
  PROVE  /\ branch' = branch
         /\ \/ Entries' = Entries
            \/ \E u \in UserIds : \A v \in UserIds : v # u => Entry(v)' = Entry(v)
<1>1. PICK q \in Slots : q = request'[r] /\ request' = [ request EXCEPT ![r] = q ]
  BY MovesOne DEF InsertUser, WriteFields, DeleteRoles, CreateRoles, Deactivate
<1>2. PICK p \in Slots : p = request[r] /\ RequestOK(p) /\ p.pc # "idle"
  BY SlotOf DEF InsertUser, WriteFields, DeleteRoles, CreateRoles, Deactivate, At
<1>3. CASE InsertUser(r)
  <2>1. request[r].pc # "createRoles" /\ q.pc # "createRoles"
    BY <1>1, <1>3 DEF InsertUser, At, Respond, Idle, IInv
  <2>2. CASE user' = user
    BY <1>1, <2>1, <2>2, EntriesKept, <1>3 DEF InsertUser
  <2>3. CASE user' # user
    <3>1. PICK u \in UserIds : \A v \in UserIds : v # u => user'[v] = user[v]
      BY <1>3, <2>3 DEF InsertUser, IInv, RowsOK
    <3>2. \A v \in UserIds : v # u => Entry(v)' = Entry(v)
      BY <1>1, <2>1, <3>1, EntryKept DEF EditsRoles, At
    <3> QED
      BY <1>3, <3>2 DEF InsertUser
  <2> QED
    BY <2>2, <2>3
<1>4. CASE WriteFields(r) \/ DeleteRoles(r) \/ CreateRoles(r) \/ Deactivate(r)
  <2>1. p.target \in UserIds
    BY <1>2, <1>4 DEF RequestOK, StepOf, Targets, WriteFields, DeleteRoles, CreateRoles,
       Deactivate, At
  <2>2. \A v \in UserIds : v # p.target => user'[v] = user[v]
    BY <1>2, <1>4 DEF WriteFields, DeleteRoles, CreateRoles, Deactivate, IInv, RowsOK
  <2>3. q.pc = "createRoles" => q.target = p.target
    <3>1. CASE Respond(r)
      BY <1>1, <3>1 DEF Respond, Idle, IInv
    <3>2. ASSUME NEW step, Advance(r, step)
          PROVE  q.target = p.target
      <4>1. q = [ p EXCEPT !.pc = step ]
        BY <1>1, <1>2, <3>2 DEF Advance, IInv
      <4> QED
        BY <1>2, <4>1, SlotOf DEF Slots
    <3>3. CASE DeleteRoles(r) /\ ~Respond(r)
      <4>1. PICK mid : mid = [ p EXCEPT !.pc = "createRoles" ]
        OBVIOUS
      <4>2. q = [ mid EXCEPT !.removed = user[p.target].roles ]
        BY <1>1, <1>2, <3>3, <4>1 DEF DeleteRoles, IInv
      <4> QED
        BY <1>2, <4>1, <4>2, SlotOf DEF Slots
    <3> QED
      BY <1>4, <3>1, <3>2, <3>3 DEF WriteFields, CreateRoles, Deactivate
  <2>4. \A v \in UserIds : v # p.target => Entry(v)' = Entry(v)
    BY <1>1, <1>2, <2>2, <2>3, EntryKept DEF EditsRoles
  <2> QED
    BY <1>4, <2>1, <2>4 DEF WriteFields, DeleteRoles, CreateRoles, Deactivate
<1> QED
  BY <1>3, <1>4

\* Every step is one of the directory, or none.
LEMMA DirectoryNext ==
  ASSUME "createRoles" \notin AbortAt, IInv, IInv', SettleInv, SettleInv', [Next]_vars
  PROVE  [Atomic!Next]_<<Entries, branch>>
<1>0. RowsStay
  BY IInvStep
<1>1. ASSUME NEW r \in Requests, Step(r) \/ Abort(r)
      PROVE  [Atomic!Next]_<<Entries, branch>>
  <2>1. CASE \/ InsertUser(r) \/ WriteFields(r) \/ DeleteRoles(r) \/ CreateRoles(r)
             \/ Deactivate(r)
    BY <1>0, <2>1, UserSteps, DirectoryStep
  <2>2. CASE \/ Authorize(r) \/ Prepare(r) \/ ResolveBranchId(r) \/ AssertCanAccessUser(r)
             \/ ReadBack(r) \/ FindBranch(r) \/ Abort(r) \/ InsertBranch(r) \/ WriteBranch(r)
    BY <1>0, <2>2, OtherSteps, DirectoryStep
  <2> QED
    BY <1>1, <2>1, <2>2 DEF Step
<1>2. ASSUME NEW r \in Requests, NEW op \in Operations, NEW caller \in UserIds,
             NEW target \in Targets(op), NEW body \in BodiesFor(op),
             Arrive(r, op, caller, target, body)
      PROVE  [Atomic!Next]_<<Entries, branch>>
  <2>1. PICK q \in Slots : q = request'[r] /\ request' = [ request EXCEPT ![r] = q ]
    BY <1>2, MovesOne DEF Arrive
  <2>2. q.pc # "createRoles" /\ request[r].pc # "createRoles"
    BY <1>2, <2>1 DEF Arrive, At, IInv
  <2>3. Entries' = Entries /\ branch' = branch
    BY <1>2, <2>1, <2>2, EntriesKept DEF Arrive
  <2> QED
    BY <1>0, <2>3, DirectoryStep
<1>3. CASE UNCHANGED vars
  <2>1. Entries' = Entries /\ branch' = branch
    BY <1>3 DEF vars, Entries, Entry, Removed, EditsRoles, At, UserExists
  <2> QED
    BY <1>0, <2>1, DirectoryStep
<1> QED
  BY <1>1, <1>2, <1>3 DEF Next

\* The founders are the first directory.
LEMMA DirectoryInit ==
  Init => Atomic!Init
<1> SUFFICES ASSUME Init PROVE Atomic!Init
  OBVIOUS
<1>1. \A u \in UserIds : ~(UserExists(u) /\ user[u].roles = {})
  BY AdministrationAssumption DEF Init, UserExists
<1>2. Entries = user
  BY <1>1 DEF Init, Entries, Entry
<1> QED
  BY <1>2 DEF Init, Atomic!Init, Entries, Entry, Removed

\* UsersService and BranchesService keep a directory that is consistent after every
\* statement of any number of interleaved requests, if no query rejects between the two
\* statements of a role edit.
THEOREM AdministrationImplementsDirectory ==
  ASSUME "createRoles" \notin AbortAt
  PROVE  Spec => ImplementsDirectory
<1>1. IInv /\ IInv' /\ SettleInv /\ SettleInv' /\ [Next]_vars
        => [Atomic!Next]_<<Entries, branch>>
  BY DirectoryNext
<1> QED
  BY <1>1, DirectoryInit, Invariance, SettleInvariance, PTL
     DEF Spec, ImplementsDirectory, Atomic!Spec, Entries, Entry, Removed
===============================================================================
