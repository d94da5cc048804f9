SPECIFICATION Spec
CONSTANTS
  ada = ada
  eve = eve
  search = search
  fetch = fetch
  ghost = ghost
  Requests = {r1, r2}
  Gateways = {g1}
  Keys = {ada}
  NoKey = NoKey
  RoleOf <- MCRoleOf
  Tools = {search, fetch, ghost}
  UpstreamTools = {search, fetch}
  AllTools = AllTools
  Policies <- MCPolicies
  KeyLimit = 1
  ToolLimit = 1
  MaxCharges = 2
INVARIANT
  AuditedBeforeForwarded
