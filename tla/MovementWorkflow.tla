--------------------------- MODULE MovementWorkflow ---------------------------
(***************************************************************************)
(* What the cash-movement API promises, as if every request ran alone: a   *)
(* movement is recorded PENDING in its creator's organisation, is then     *)
(* approved or rejected, and delivered only once approved, each time by a  *)
(* user of the same organisation whose signature the row keeps.            *)
(***************************************************************************)
CONSTANTS
  Movements,  \* ids a row may get
  Users,
  OrgOf,      \* the organisation of each user
  None

VARIABLE row  \* the table: id -> [status, org, creator, approver, deliverer]

NoRow == [ status |-> "ABSENT", org |-> None, creator |-> None,
           approver |-> None, deliverer |-> None ]

Init == row = [ m \in Movements |-> NoRow ]

Create(m, u) ==
  /\ row[m] = NoRow
  /\ row' = [ row EXCEPT ![m] = [ status |-> "PENDING", org |-> OrgOf[u],
                                  creator |-> u, approver |-> None,
                                  deliverer |-> None ] ]

Approve(m, u) ==
  /\ row[m].status = "PENDING" /\ row[m].org = OrgOf[u]
  /\ row' = [ row EXCEPT ![m].status = "APPROVED", ![m].approver = u ]

Reject(m, u) ==
  /\ row[m].status = "PENDING" /\ row[m].org = OrgOf[u]
  /\ row' = [ row EXCEPT ![m].status = "REJECTED" ]

Deliver(m, u) ==
  /\ row[m].status = "APPROVED" /\ row[m].org = OrgOf[u]
  /\ row' = [ row EXCEPT ![m].status = "DELIVERED", ![m].deliverer = u ]

Next ==
  \E m \in Movements, u \in Users :
    Create(m, u) \/ Approve(m, u) \/ Reject(m, u) \/ Deliver(m, u)

Spec == Init /\ [][Next]_row
===============================================================================
