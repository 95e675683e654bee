\* A new account, and concurrent refreshes and logouts of its sessions.
SPECIFICATION Spec
CONSTANTS
  None = None
  Users = {alice}
  Registered = {}
  Sessions = {s1, s2, s3, s4}
  Tokens = {}
  Requests = {r1, r2}
  Operations = {"register", "login", "refresh", "logout"}
  MaxPasswords = 3
SYMMETRY Symmetry
INVARIANTS RotationAtomic ForksBounded
