SPECIFICATION Spec
CONSTANTS
  MediumMin = 1
  HighMin = 2
  UltraMin = 3
  Files <- AllFiles
  Prices = {0, 14, 17, 20}
  Amounts = {0, 4}
  Limits = {8, 9}
  Days = {0, 3}
INVARIANTS GateVerdictsAgree HardStops
