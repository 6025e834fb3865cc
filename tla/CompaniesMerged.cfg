SPECIFICATION Spec
CONSTANTS
  Requests = {q1}
  Cases = {c1, c2}
  Names = {n1}
  Countries = {k1, k2}
  Regs = {r1, r2}
  Blank = Blank
  MaxRequests = 3
  MaxOverlaps = 0
INVARIANT DifferentCompaniesApart
CHECK_DEADLOCK FALSE
