SPECIFICATION MCSpec
CONSTANTS
  r1 = r1
  r2 = r2
  c1 = c1
  Requests <- TwoRequests
  Desks <- HitDesk
  FormNodes <- ReviewedForm
  ChangeIds <- OneChange
INVARIANT
  SerialDeskLeavesAdvanceable
