SPECIFICATION MCSpec
CONSTANTS
  Requests = {r1, r2}
  Cases = {c1, c2}
  Amounts = {2, 3}
  Limit = 2
  MediumMin = 1
  HighMin = 2
  UltraMin = 3
  MaxWrites = 3
  Buyers = {"a", "b"}
  Sold <- FourSold
  BuyerOf <- OwnerOfFour
  BatchAmounts <- FirstInTwo
  PageAmounts = {0, 4}
  Costs = {1}
  Limits = {2, 5}
  Days = {1}
  Parts = {2}
  LowLimit = 2
  LongDue = 2
  VeryLongDue = 4
  Calendar = {1, 3, 5, 7}
  MaxPolicies = 4
  ContractForms <- TermsMenu
  BatchSets = {{1}, {1, 2}}
  SaleAmounts = {2, 4}
  Portion = 2
  CustomsReleased = TRUE
  Sales = {"s1", "s2"}
  PurchaseForms <- FormMenu
  LastDay = 3
  Uploaders = {1, 2}
  FileCases = {"c1", "c2"}
  FileLimits = {0, 1}
  MaxFiles = 1
  MaxRows = 3
SYMMETRY Symmetry
INVARIANTS
  SharedLimitHolds
  GoodRemitOwesNothingLate
  StoredFileOpens
  FilesStayInCase
  VouchersOnlyInAdvance
  RemittanceAgreesWithOccupancy
  PlanPageAgrees
  PaidKept
PROPERTIES
  OwnContractOnce
  CollectingNeverDowngrades
  WaitingNeverUpgrades
CHECK_DEADLOCK FALSE
