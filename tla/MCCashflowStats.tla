---------------------------- MODULE MCCashflowStats ----------------------------
(***************************************************************************)
(* Instances of CashflowStats for TLC.                                     *)
(***************************************************************************)
EXTENDS CashflowStats, TLC

CONSTANTS o1, o2, b1, b2, b3, m1, manager, stranger

Account(branch, roles) ==
  [active |-> TRUE, branch |-> branch, roles |-> roles, incoming |-> {}]

\* The movement comes in; one that goes out is summed up by the next statement.
MCTypeOf == [ m \in Movements |-> "IN" ]

\* Two tenants, and two branches in the first.
TwoBranchOrg == [b \in Branches |-> IF b = b3 THEN o2 ELSE o1]
TwoOrgOf     == [u \in Users |-> IF u = stranger THEN o2 ELSE o1]
TwoInitialAccount ==
  [ u \in Users |->
      IF u = manager THEN Account(b1, {"MANAGER"}) ELSE Account(None, {"ADMIN"}) ]
===============================================================================
