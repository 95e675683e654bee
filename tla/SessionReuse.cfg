\* A rotated refresh token is presented again, one request at a time.
SPECIFICATION Spec
CONSTANTS
  None = None
  Users = {alice}
  Registered = {alice}
  Sessions = {s1, s2, s3}
  Tokens = {}
  Requests = {r1}
  Operations = {"login", "refresh"}
  MaxPasswords = 1
SYMMETRY Symmetry
PROPERTIES ReuseRevokesSessions
