----------------------------- MODULE BranchAccess -----------------------------
(***************************************************************************)
(* BranchAccessService: which branch a request may create in, filter by or *)
(* touch.  The service keeps no state: each operator maps a request        *)
(* context (organisation, branch and runtime role, as JwtStrategy built    *)
(* it), the branch id the client asked for and the branch rows to an       *)
(* outcome, which is a branch or the error code that is thrown.            *)
(***************************************************************************)
EXTENDS Rbac

CONSTANTS
  Orgs,       \* organisations (tenants)
  Branches,   \* branch ids a request may name
  BranchOrg,  \* the organisation that owns each branch; None: no such row
  None        \* SQL NULL, "no branch", "no user"

ASSUME BranchAssumption ==
  /\ BranchOrg \in [Branches -> Orgs \cup {None}]
  /\ None \notin Orgs \cup Branches

Granted(branch) == [code |-> "OK", branch |-> branch]
Refused(code)   == [code |-> code, branch |-> None]

\* Mutant of LookupBranch: a row of any organisation will do.
LookupAnyBranch(org, branch, usable) ==
  IF BranchOrg[branch] # None /\ branch \in usable
    THEN Granted(branch)
    ELSE Refused("BRANCH_NOT_FOUND")

\* BranchesRepository.findById throws for a foreign row and returns null for
\* none; the caller turns null, and an inactive row it cannot use, into 404.
LookupBranch(org, branch, usable) ==
  CASE BranchOrg[branch] = None               -> Refused("BRANCH_NOT_FOUND")
    [] BranchOrg[branch] \notin {None, org}   -> Refused("RESOURCE_NOT_FOUND")
    [] BranchOrg[branch] = org /\ branch \notin usable -> Refused("BRANCH_NOT_FOUND")
    [] BranchOrg[branch] = org /\ branch \in usable    -> Granted(branch)

\* The existence of a branch outside the caller's own one is established
\* before access to it is denied, so a foreign id is a 404 and never a 403.
DenyOtherBranch(org, branch) ==
  IF LookupBranch(org, branch, Branches).code = "OK"
    THEN Refused("ACCESS_DENIED")
    ELSE LookupBranch(org, branch, Branches)

\* OPERATOR always, MANAGER when assigned to a branch.
IsBranchScoped(ctx) ==
  \/ ctx.role = "OPERATOR"
  \/ ctx.role = "MANAGER" /\ ctx.branch # None

MissingBranch(ctx) == ctx.role = "OPERATOR" /\ ctx.branch = None

ResolveBranchForCreate(ctx, requested, active) ==
  CASE MissingBranch(ctx) -> Refused("BRANCH_SCOPE_REQUIRED")
    [] IsBranchScoped(ctx) /\ ~MissingBranch(ctx) ->
         IF ctx.role = "MANAGER" /\ requested \notin {None, ctx.branch}
           THEN DenyOtherBranch(ctx.org, requested)
           ELSE LookupBranch(ctx.org, ctx.branch, active)
    [] ~IsBranchScoped(ctx) ->
         IF requested = None
           THEN Refused("BRANCH_SCOPE_REQUIRED")
           ELSE LookupBranch(ctx.org, requested, active)

\* None in a granted outcome means the whole organisation.
ResolveBranchForFilter(ctx, requested) ==
  CASE MissingBranch(ctx) -> Refused("BRANCH_SCOPE_REQUIRED")
    [] IsBranchScoped(ctx) /\ ~MissingBranch(ctx) ->
         IF requested \notin {None, ctx.branch}
           THEN DenyOtherBranch(ctx.org, requested)
           ELSE LookupBranch(ctx.org, ctx.branch, Branches)
    [] ~IsBranchScoped(ctx) ->
         IF requested = None
           THEN Granted(None)
           ELSE LookupBranch(ctx.org, requested, Branches)

\* Mutant of BranchAccessible: the forced branch is resolved but not compared.
BranchAccessibleUncompared(ctx, branch) ==
  LET forced == ResolveBranchForFilter(ctx, None)
  IN  /\ forced.code = "OK"
      /\ forced.branch = None => LookupBranch(ctx.org, branch, Branches).code = "OK"

\* May this context touch a record that lives in branch?
BranchAccessible(ctx, branch) ==
  LET forced == ResolveBranchForFilter(ctx, None)
  IN  /\ forced.code = "OK"
      /\ IF forced.branch = None
           THEN LookupBranch(ctx.org, branch, Branches).code = "OK"
           ELSE forced.branch = branch
===============================================================================
