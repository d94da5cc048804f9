SPECIFICATION Spec
CONSTANTS
  ada = ada
  eve = eve
  search = search
  fetch = fetch
  ghost = ghost
  Requests = {r1, r2}
  Gateways = {g1, g2}
  Keys = {ada, eve}
  NoKey = NoKey
  RoleOf <- MCRoleOf
  Tools = {search}
  UpstreamTools = {search}
  AllTools = AllTools
  Policies <- UsersSearch
  KeyLimit = 1
  ToolLimit = 1
  MaxCharges = 2
INVARIANTS
  ForwardedWasEntitled
  UpstreamWithinQuota
  MediationInv
SYMMETRY ProcessSymmetry
