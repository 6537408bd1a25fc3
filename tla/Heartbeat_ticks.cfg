CONSTANTS
  btc = btc
  eth = eth
  crypto = crypto
  Symbol <- MCTwoSymbols
  Class <- MCOneClass
  ClassOf <- MCClassOf
  Correlated <- MCCorrelated
  RiskPct = 4
  MaxHeat = 8
  MaxHeatHighVol = 5
  MaxPerClass = 3
  LossLimit = 3
  CooldownHours = 1
  Primary = btc
  MinDwell = 2
  Conditions <- MCConditions
  MaxUnsettled = 1
SPECIFICATION Spec
INVARIANTS OvershootBounded
PROPERTIES EntriesWaitOutDefence
