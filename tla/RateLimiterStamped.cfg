SPECIFICATION Spec
CONSTANTS
  Calls = {c1, c2}
  ApiKeys = {ada, bob}
  Tools = {search}
  AllTools = AllTools
  PerKey <- MCPerKey
  PerTool <- MCPerTool
  MaxTime = 2
  MaxResends = 1
INVARIANT
  StampedWindowQuota
CHECK_DEADLOCK FALSE
