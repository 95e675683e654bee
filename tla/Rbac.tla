-------------------------------- MODULE Rbac --------------------------------
(***************************************************************************)
(* Role-based access control: the role catalogue, the permissions each     *)
(* role grants, and the single runtime role a request context carries.     *)
(*                                                                         *)
(* A user's roles are a set of role names (table UserRole).  A request's   *)
(* permissions are the union over its roles; its runtime role is the       *)
(* strongest one, with OPERATOR as the answer when there is none.          *)
(***************************************************************************)
EXTENDS FiniteSets

CanonicalRoles == {"ADMIN", "MANAGER", "OPERATOR"}

\* USER is a legacy alias that old rows may still hold.
Roles == CanonicalRoles \cup {"USER"}

MovementPermissions ==
  { "CASH_MOVEMENT_CREATE", "CASH_MOVEMENT_READ", "CASH_MOVEMENT_APPROVE",
    "CASH_MOVEMENT_REJECT", "CASH_MOVEMENT_DELIVER" }

Permissions ==
  MovementPermissions \cup
  { "USER_READ", "USER_CREATE", "USER_UPDATE",
    "BRANCH_READ", "BRANCH_CREATE", "BRANCH_UPDATE", "CASHFLOW_STATS_READ" }

ToCanonicalRole(role) == IF role = "USER" THEN "OPERATOR" ELSE role

RolePermissions ==
  [ role \in CanonicalRoles |->
      CASE role = "ADMIN"    -> Permissions
        [] role = "MANAGER"  -> MovementPermissions \cup
                                {"BRANCH_READ", "USER_READ", "CASHFLOW_STATS_READ"}
        [] role = "OPERATOR" -> { "CASH_MOVEMENT_CREATE", "CASH_MOVEMENT_READ",
                                  "CASHFLOW_STATS_READ" } ]

\* The permission keys a set of assigned roles grants.
PermissionsOf(roles) ==
  UNION { RolePermissions[ToCanonicalRole(role)] : role \in roles }

\* Precedence ADMIN > MANAGER > OPERATOR > USER, deny-low by default.
ResolveRuntimeRole(roles) ==
  CASE "ADMIN" \in roles                             -> "ADMIN"
    [] "ADMIN" \notin roles /\ "MANAGER" \in roles   -> "MANAGER"
    [] "ADMIN" \notin roles /\ "MANAGER" \notin roles -> "OPERATOR"
=============================================================================
