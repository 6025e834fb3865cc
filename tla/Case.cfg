SPECIFICATION MCSpec
CONSTANTS
  r1 = r1
  r2 = r2
  c1 = c1
  Requests <- TwoRequests
  Desks <- DeskNames
  FormNodes <- ReviewedForm
  ChangeIds <- OneChange
INVARIANTS
  SerialCaseNotParked
PROPERTIES
  ImplementsGates
  SerialCaseForward
SYMMETRY RequestSymmetry
