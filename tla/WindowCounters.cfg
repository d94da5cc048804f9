SPECIFICATION Spec
CONSTANTS
  Clients = {r1, r2, r3}
  Scopes = {ada_search, bob_search}
  Windows = {w1, w2}
  Limit <- MCLimit
  MaxCharges = 4
INVARIANTS
  QuotaInv
  QuotaKept
SYMMETRY ClientSymmetry
