SPECIFICATION MCSpec
CONSTANTS
  r1 = r1
  r2 = r2
  Requests <- TwoRequests
  StartNodes <- FromN5
  MaxBatches = 2
  FormNodes <- BATCH_PIPELINE
  ForeignWrites <- SupplierWrite
INVARIANTS
  TypeOK
  GatesInOrder
  CompletedAfterSettlement
  SerialShippingAgrees
PROPERTIES
  ImplementsGates
  SerialBatchForward
SYMMETRY RequestSymmetry
