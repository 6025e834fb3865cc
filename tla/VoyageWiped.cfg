SPECIFICATION PapersSpec
CONSTANTS
  ContractForms <- ContractMenu
  PurchaseForms <- FormMenu
  MediumMin = 1
  HighMin = 2
  UltraMin = 3
  BatchSets = {{1}, {1, 2}}
  SaleAmounts = {2, 4}
  Portion = 2
  CustomsReleased = TRUE
  Sales = {"s1", "s2"}
  LastDay = 3
  Uploaders = {1, 2}
  FileCases = {"c1", "c2"}
  FileLimits = {0, 1}
  MaxFiles = 1
  MaxRows = 3
PROPERTY VoyageKept
