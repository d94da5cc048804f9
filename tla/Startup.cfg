SPECIFICATION FairSpec
CONSTANTS
  Processes = {p1, p2}
  Settings <- MCSettings
  NoSettings = NoSettings
  LastTool = 3
  PageSize = 1
INVARIANTS
  TypeOK
  SchemaIsComplete
  SchemaInv
  TableIsComplete
  TableInv
PROPERTIES
  EveryStartSettles
