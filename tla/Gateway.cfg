SPECIFICATION FairSpec
CONSTANTS
  ada = ada
  eve = eve
  search = search
  fetch = fetch
  ghost = ghost
  Requests = {r1, r2}
  Gateways = {g1}
  Keys = {ada}
  NoKey = NoKey
  RoleOf <- MCRoleOf
  Tools = {search, ghost}
  UpstreamTools = {search}
  AllTools = AllTools
  Policies <- SearchOrNothing
  KeyLimit = 1
  ToolLimit = 1
  MaxCharges = 2
INVARIANTS
  TypeOK
  AuditIsTruthful
  AuditInv
  AnsweredIsAuditedOrReported
  ShownIsCallable
PROPERTIES
  LostStaysLost
  ImplementsPromise
  EveryRequestSettles
