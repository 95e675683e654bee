--------------------------- MODULE MCCashMovements ---------------------------
(***************************************************************************)
(* Instances of CashMovements for TLC.  Two tenants: o1 with branches b1   *)
(* and b2, an administrator, a branch manager and a branch operator; o2    *)
(* with branch b3 and an administrator of its own.                         *)
(***************************************************************************)
EXTENDS CashMovements

CONSTANTS o1, o2, b1, b2, b3, admin, manager, operator, stranger

Account(branch, roles) ==
  [active |-> TRUE, branch |-> branch, roles |-> roles, incoming |-> {}]

\* One tenant, one branch, the two users who may approve, reject and deliver.
OneBranchOrg      == [b \in {b1} |-> o1]
OneOrgOf          == [u \in Users |-> o1]
OneInitialAccount ==
  [ u \in Users |->
      IF u = admin THEN Account(None, {"ADMIN"}) ELSE Account(b1, {"MANAGER"}) ]

\* Two tenants.
TwoBranchOrg      == [b \in {b1, b2, b3} |-> IF b = b3 THEN o2 ELSE o1]
TwoUsers          == {manager, operator, stranger}
TwoOrgOf          == [u \in TwoUsers |-> IF u = stranger THEN o2 ELSE o1]
TwoInitialAccount ==
  [ u \in TwoUsers |->
      CASE u = manager  -> Account(b1, {"MANAGER"})
        [] u = operator -> Account(b2, {"OPERATOR"})
        [] u = stranger -> Account(None, {"ADMIN"}) ]

TwoRoleSets == {{"MANAGER"}, {"OPERATOR", "ADMIN"}}
NoRoleSets  == {}
==============================================================================
