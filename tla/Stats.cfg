\* Two tenants; one request at a time creates and moves a movement while the stats
\* request runs, and an account or a branch changes once.
SPECIFICATION StatsSpec
CONSTANTS
  m1 = m1  o1 = o1  o2 = o2  b1 = b1  b2 = b2  b3 = b3
  TypeOf <- MCTypeOf
  manager = manager  stranger = stranger
  None = None
  Orgs = {o1, o2}
  Branches = {b1, b2, b3}
  BranchOrg <- TwoBranchOrg
  Users = {manager, stranger}
  OrgOf <- TwoOrgOf
  InitialAccount <- TwoInitialAccount
  Movements = {m1}
  Requests = {r1}
  Operations = {"create", "approve", "reject", "deliver"}
  Amounts = {1}
  RoleSets = {}
  PageSize = 1
  MaxChanges = 1
INVARIANTS CardsAgree StatsInScope
