SPECIFICATION Spec
CONSTANTS
  MaxSets = 2
  Configs <- MCConfigs
INVARIANTS MenuOfPage OptionsOfItem
PROPERTY SetIsShown
