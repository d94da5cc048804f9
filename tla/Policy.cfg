SPECIFICATION Spec
CONSTANTS
  ToolNames = {search, fetch}
  Wildcard = Wildcard
  Blank = Blank
  Nil = Nil
  Unreadable = Unreadable
  Documents <- MCDocuments
INVARIANTS
  GrantsAreThoseWritten
  ListingMatchesCalling
  LimitsArePositive
  LimitsAreThoseWritten
CHECK_DEADLOCK FALSE
