\* One request edits users; a query may reject between its two role statements.
SPECIFICATION Spec
CONSTANTS
  None = None  Absent = Absent
  ana = ana  new = new  b1 = b1  b2 = b2  b3 = b3
  Organizations = {"north", "south"}
  Emails = {"e1", "e4"}
  Codes = {"MAIN", "PORT"}
  UserIds = {ana, new}
  Founders <- MCFounders
  BranchIds = {b1, b2, b3}
  Agencies <- MCAgencies
  Bodies <- MCBodies
  Requests = {r1}
  Operations = {"update"}
  AbortAt = {"createRoles"}
CHECK_DEADLOCK FALSE
INVARIANTS RolesSettle
