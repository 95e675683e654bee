\* Two requests administrate users and branches.  The system may stop: nobody can
\* sign in once all users are deactivated.
SPECIFICATION Spec
CONSTANTS
  None = None  Absent = Absent
  ana = ana  new = new  b1 = b1  b2 = b2  b3 = b3
  Organizations = {"north", "south"}
  Emails = {"e1", "e4"}
  Codes = {"MAIN", "PORT"}
  UserIds = {ana, new}
  Founders <- MCFounders
  BranchIds = {b1, b2, b3}
  Agencies <- MCAgencies
  Bodies <- MCBodies
  Requests = {r1, r2}
  Operations = {"create", "update", "remove", "createBranch", "updateBranch"}
  AbortAt <- OutsideRoleEdits
CHECK_DEADLOCK FALSE
SYMMETRY Symmetry
INVARIANTS TypeOK NamesUnique BranchInOrganization
PROPERTIES ChangesAuthorized ImplementsDirectory
