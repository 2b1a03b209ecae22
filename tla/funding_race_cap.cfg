SPECIFICATION Spec
CONSTANTS
  p1 = p1
  d1 = d1
  Project = {p1}
  Deal = {d1}
  Investor = {u1}
  Key = {k1, k2}
  Row = {i1, i2}
  Request = {r1, r2}
  Amount = {1, 2}
  Target <- MCTarget
  DealProject <- MCDealProject
  DealTarget <- MCDealTarget
  DealMax <- MCDealMax
  None = None
  Calls <- MoneyCalls
  MaxRefund = 2
SYMMETRY SymmetryWithKeys
CHECK_DEADLOCK FALSE
INVARIANT DealCapHolds
