SPECIFICATION PartsSpec
CONSTANTS
  p1 = p1
  d1 = d1
  Project = {p1}
  Deal = {d1}
  Investor = {u1}
  Key = {k1, k2}
  Row = {i1, i2}
  Request = {r1, r2, r3}
  Amount = {1, 2}
  Target <- MCTarget
  DealProject <- MCDealProject
  DealTarget <- MCDealTarget
  DealMax <- MCDealMax
  None = None
  Calls <- SerialCalls
  MaxRefund = 2
SYMMETRY SymmetryWithKeys
CHECK_DEADLOCK FALSE
INVARIANTS TypeOK OneInvestmentPerKey SameAnswer FundingConservation OutboxMatchesTables
INVARIANTS ConfirmedEventIsBacked ChecksHoldAlone
PROPERTY KeepsPromise
