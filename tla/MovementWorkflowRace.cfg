\* The same two concurrent requests against the documented workflow.
SPECIFICATION Spec
CONSTANTS
  o1 = o1  o2 = o2  b1 = b1  b2 = b2  b3 = b3
  admin = admin  manager = manager  operator = operator  stranger = stranger
  None = None
  Orgs = {o1}
  Branches = {b1}
  BranchOrg <- OneBranchOrg
  Users = {admin, manager}
  OrgOf <- OneOrgOf
  InitialAccount <- OneInitialAccount
  Movements = {m1}
  Requests = {r1, r2}
  Operations = {"create", "approve", "reject", "deliver"}
  Amounts = {0, 1}
  RoleSets = {}
  PageSize = 1
  MaxChanges = 0
PROPERTIES FollowsWorkflow
