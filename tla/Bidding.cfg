SPECIFICATION ServiceSpec
CONSTANTS
  MaxUrlChars = 3
  MaxAllUrlChars = 8
  ContributionLimit = 1
  Configs <- MCConfigs
  Outputs <- MCOutputs
  AppConfigs <- MCAppConfigs
  AppOutputs <- MCAppOutputs
INVARIANT BiddingLifeCycle
INVARIANT BidsAreTheirGroups
INVARIANT OutputWithinLimits
PROPERTY EventuallyReleased
