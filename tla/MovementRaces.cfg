\* Two concurrent requests create, move and list two movements of one branch.
SPECIFICATION Spec
CONSTANTS
  o1 = o1  o2 = o2  b1 = b1  b2 = b2  b3 = b3
  admin = admin  manager = manager  operator = operator  stranger = stranger
  None = None
  Orgs = {o1}
  Branches = {b1}
  BranchOrg <- OneBranchOrg
  Users = {manager}
  OrgOf <- OneOrgOf
  InitialAccount <- OneInitialAccount
  Movements = {m1, m2}
  Requests = {r1, r2}
  Operations = {"create", "approve", "reject", "deliver", "list"}
  Amounts = {1}
  RoleSets = {}
  PageSize = 1
  MaxChanges = 0
INVARIANTS SignaturesMatchStatus DeliveredWasApproved TotalCoversPage
