SPECIFICATION Spec
CONSTANTS
  root = root
  guest = guest
  search = search
  Words = {root, guest}
  Keys = {root, guest}
  NoKey = NoKey
  Commands = {c1, c2}
  Roles = {""}
  Existing <- MCExisting
  e1 = e1
  e2 = e2
  Events = {e1, e2}
  ContentOf <- MCContentOf
  Visits = {v1, v2}
  Requests <- MCRequests
  NoRequest = NoRequest
  AnyText = AnyText
  DefaultEventLimit = 1
  MaxEventLimit = 2
  MaxTime = 1
INVARIANTS
  ConsoleInv
  ReportsAreTrue
  OneRevocationReported
  OnlyAdminsGetThrough
  PagesOnlyLoseOldest
  EveryEventIsCounted
  SameKeyForBoth
SYMMETRY OperatorSymmetry
CHECK_DEADLOCK FALSE
