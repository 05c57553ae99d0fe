SPECIFICATION Spec
CONSTANTS
  Email = {ann, bob}
  Link = {l1, l2}
  Session = {s1, s2}
  Ref = {submariner}
  Request = {q1, q2}
  None = None
  Nobody = Nobody
  LoginTTL = 0
  SessionTTL = 1
  MaxClock = 1
SYMMETRY MCSymmetry
CHECK_DEADLOCK FALSE
INVARIANTS TypeOK SessionIsForItsAddress LinkSpentOnSession RowsHaveOwners
PROPERTY KeepsLoginPromise
