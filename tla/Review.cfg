SPECIFICATION Spec
CONSTANTS
  r1 = r1
  r2 = r2
  free = free
  high1 = high1
  high2 = high2
  over = over
  none = none
  NoFigures = none
  Requests <- TwoRequests
  Kinds <- BothKinds
  Figures <- AllFigures
  Band <- FigureBand
  MaxChanges = 3
  MaxOverlaps = 1
INVARIANT QueueIsRight
PROPERTIES PassNeedsApproval EndedReviewStays
SYMMETRY Symmetry
