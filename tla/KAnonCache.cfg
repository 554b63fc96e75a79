SPECIFICATION KAnonFairSpec
CONSTANTS
  h1 = h1
  h2 = h2
  h3 = h3
  r1 = r1
  r2 = r2
  Hash <- MCHash
  Request = {r1, r2}
  Load32 <- MCLoad32
  KAnonShards = 2
  NonKAnonShards = 1
  ShardCapacity = 2
INVARIANT OnlyVouchedFor
INVARIANT CachedHashesReported
PROPERTY AnsweredOnce
PROPERTY EveryQueryAnswered
