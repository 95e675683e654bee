\* One request slot under fairness, two tenants, and an administrative change
\* between the awaits of a request.
SPECIFICATION FairSpec
CONSTANTS
  o1 = o1  o2 = o2  b1 = b1  b2 = b2  b3 = b3
  admin = admin  manager = manager  operator = operator  stranger = stranger
  None = None
  Orgs = {o1, o2}
  Branches = {b1, b2, b3}
  BranchOrg <- TwoBranchOrg
  Users <- TwoUsers
  OrgOf <- TwoOrgOf
  InitialAccount <- TwoInitialAccount
  Movements = {m1}
  Requests = {r1}
  Operations = {"create", "approve", "reject", "deliver", "list"}
  Amounts = {0, 1}
  RoleSets <- TwoRoleSets
  PageSize = 1
  MaxChanges = 1
INVARIANTS TypeOK TenantIsolation ListedRowsInScope
PROPERTIES WritesInScope ImplementsWorkflow RequestsAnswered
