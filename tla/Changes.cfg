SPECIFICATION Spec
CONSTANTS
  Requests = {r1, r2}
  Terms = {q1, q2}
  NoTerms = NoTerms
  MaxQuotes = 2
  MaxOrders = 2
  MaxVersions = 3
  MaxOverlaps = 1
SYMMETRY Symmetry
INVARIANTS NewestInForce AppliedWithAcks
PROPERTY AppliedStays
