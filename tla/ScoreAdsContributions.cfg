SPECIFICATION Spec
CONSTANTS
  MaxUrlChars = 2
  MaxAllUrlChars = 7
  Configs <- MCConfigs
  Outputs <- MCOutputs
INVARIANT WinContributionsAreTheWinners
