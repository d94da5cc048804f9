SPECIFICATION Spec
CONSTANTS
  MaxDepth = 3
  MaxItems = 2
  MaxText = 3
  MaxBytes = 10
  PreviewBytes = 4
  Sensitive = {"token"}
  LongNames = {"long_a", "long_b"}
  Cut = "long..."
  Omitted = "_truncated_items"
  Blank = Blank
  ToolNames = {search}
  Payloads <- MCPayloads
  Tallest = 7
INVARIANTS
  NothingSensitiveStored
  StoredIsBounded
  SmallPayloadsAreKept
CHECK_DEADLOCK FALSE
