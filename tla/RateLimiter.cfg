SPECIFICATION Spec
CONSTANTS
  Calls = {c1, c2}
  ApiKeys = {ada, bob}
  Tools = {search}
  AllTools = AllTools
  PerKey <- MCPerKey
  PerTool <- MCPerTool
  MaxTime = 2
  MaxResends = 1
INVARIANTS
  TypeOK
  CounterLifetime
  WindowQuota
  QuotaInv
  DenialIsEarned
  ChargesInv
PROPERTY
  ImplementsPromise
CHECK_DEADLOCK FALSE
SYMMETRY CallSymmetry
