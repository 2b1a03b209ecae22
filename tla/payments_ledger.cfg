SPECIFICATION Spec
CONSTANTS
  v1 = v1
  Intent = {i1}
  Traceable = {i1}
  Investment = {v1}
  PaysFor <- MCPaysFor
  Event = {e1}
  w1 = w1
  w2 = w2
  Worker <- MCWorker
  Request = {r1}
  Operations = {"create", "verify", "reconcile"}
  Gross = 1
  Fee = {0, 1}
  Outcome = {"SUCCEEDED", "FAILED"}
  Faults = {}
  MaxPayments = 2
SYMMETRY MCSymmetry
CHECK_DEADLOCK FALSE
INVARIANT SuccessIsRecorded
