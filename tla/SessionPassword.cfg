\* Password changes and resets race logins and rotations under row locks.
SPECIFICATION FairSpec
CONSTANTS
  None = None
  Users = {alice}
  Registered = {alice}
  Sessions = {s1, s2}
  Tokens = {t1}
  Requests = {r1, r2}
  Operations = {"login", "refresh", "change", "forgot", "reset"}
  MaxPasswords = 2
INVARIANTS TypeOK NothingLeaks
PROPERTIES RotationNeedsParent PasswordEndsEarlierSessions RequestsAnswered
