--------------------------------- MODULE MCSeed ---------------------------------
(***************************************************************************)
(* An instance of Seed for TLC: three keys of the catalogue, three demo    *)
(* branches, three configurations.                                         *)
(***************************************************************************)
EXTENDS Seed, TLC

CONSTANTS ops

MCBlueprints == <<"HQ", "NORTE", "SUR">>
MCBranches   == {"HQ", "NORTE", "SUR", "MAIN"}
MCBranchOrg  == [ b \in MCBranches |-> IF b = "MAIN" THEN "default" ELSE "demo" ]
MCCatalog    == <<"CASH_MOVEMENT_CREATE", "CASH_MOVEMENT_APPROVE", "CASH_MOVEMENT_DELIVER">>

MCConfig(bs, os, ms, admin, user) ==
  [branches |-> bs, operators |-> os, movements |-> ms, adminEmail |-> admin, userEmail |-> user]

\* One with all branches; one with fewer, more operators, an administrator and an
\* operator of the default organization, who is then made a demo manager; one with
\* the same user for both, which is refused when its grants have been made.
MCConfigs == { MCConfig(3, 1, 4, None, None), MCConfig(2, 2, 9, ops, <<"manager">>),
               MCConfig(2, 1, 1, ops, ops) }

MCEnvEmails == {ops, <<"manager">>}

MCEdited == {ops, <<"operator", "HQ", 1>>}
===============================================================================
