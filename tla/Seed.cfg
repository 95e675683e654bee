\* Three configurations, run and stopped in any order, beside one change by the service.
SPECIFICATION SeedSpec
CONSTANTS
  None = None
  ops = ops
  Orgs = {"default", "demo"}
  Branches <- MCBranches
  BranchOrg <- MCBranchOrg
  DefaultBranch = "MAIN"
  Blueprints <- MCBlueprints
  Catalog <- MCCatalog
  Configs <- MCConfigs
  EnvEmails <- MCEnvEmails
  Edited <- MCEdited
  MaxChanges = 1
INVARIANTS SeedConverges SeededMovementsLegal
PROPERTIES GrantsKept RolesKept
