SPECIFICATION Spec
CONSTANTS
  ToolNames = {search, fetch}
  Wildcard = Wildcard
  Blank = Blank
  Nil = Nil
  Unreadable = Unreadable
  Documents <- WildcardDocuments
INVARIANT
  ListedIsGranted
CHECK_DEADLOCK FALSE
