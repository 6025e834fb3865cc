SPECIFICATION Spec
CONSTANTS
  Requests = {q1, q2}
  Cases = {c1, c2}
  Names = {n1, n2}
  Countries = {k1, k2}
  Regs = {r1, r2}
  Blank = Blank
  MaxRequests = 4
  MaxOverlaps = 1
SYMMETRY Symmetry
INVARIANT OneCustomerPerCompany
PROPERTY FilledStays
CHECK_DEADLOCK FALSE
