--------------------------- MODULE MCAdministration ---------------------------
(***************************************************************************)
(* Instances of Administration for TLC: an administrator, ana, and the     *)
(* user she creates and may promote; two branches of two organizations.    *)
(***************************************************************************)
EXTENDS Administration, TLC

CONSTANTS ana, new, b1, b2, b3

UserRow(org, email, active, roles) ==
  [org |-> org, email |-> email, active |-> active, branch |-> None, roles |-> roles]

MCFounders == ana :> UserRow("north", "e1", TRUE, {"ADMIN"})

MCAgencies ==
  b1 :> [org |-> "north", code |-> "MAIN", active |-> TRUE]
  @@ b2 :> [org |-> "south", code |-> "MAIN", active |-> TRUE]

Body(email, active, branchId, code, roles) ==
  [email |-> email, active |-> active, branch |-> branchId, code |-> code, roles |-> roles]

\* A new user or branch, an edit that fails when it is half applied, one that is
\* refused (b2 is not north's), and a promotion.
MCBodies ==
  { Body("e4", Absent, b1, "PORT", {"OPERATOR"}),
    Body(Absent, Absent, None, "MAIN", {"unknown"}),
    Body(Absent, Absent, b2, Absent, Absent),
    Body(Absent, TRUE, Absent, Absent, {"ADMIN"}) }

\* Everywhere but between the two statements of a role edit.
OutsideRoleEdits == Steps \ {"idle", "createRoles"}

Symmetry == Permutations(Requests)
===============================================================================
