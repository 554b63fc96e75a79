SPECIFICATION FairSpec
CONSTANTS
  b1 = b1
  b2 = b2
  b3 = b3
  x1 = x1
  x2 = x2
  y1 = y1
  h1 = h1
  h2 = h2
  Configured <- MCConfigured
  BuyerList <- MCConfigured
  NoClient = {b3}
  BidInfo <- MCBidInfo
  MaxBuyersSolicited = 2
  Configs <- MCConfigs
INVARIANT SelectAdLifeCycle
INVARIANT OutcomeMatchesTasks
INVARIANT CacheMatchesSolicited
INVARIANT KAnonBeforeScoring
PROPERTY ReactorSafety
PROPERTY BidsFrozen
PROPERTY EventuallyReleased
CHECK_DEADLOCK FALSE
