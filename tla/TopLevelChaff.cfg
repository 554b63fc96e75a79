CONSTANTS
  TopRequests <- MCTopRequests
  Outcomes <- MCOutcomes
  MaxResults = 2
  Batches <- MCBatches
  ServerHeaders <- MCServerHeaders
  TransferEnds <- MCTransferEnds
  Endpoints <- MCEndpoints
  Blobs = {"a", "b", ""}
  MaxEdits = 2
  BuyerOrder <- MCBuyerOrder
  MaxRounds = 2
  CodeBlobs = {"d", "e"}
  DefaultBlob = "d"
  ModelPaths = {"dir/"}
  MaxModelEvents = 3
  MaxModelRounds = 3
  CallCases <- MCCallCases
  UrlHash <- MCUrlHash
  PadSize = 12
  ZipSize = 6
  ProtoSize = 8
  RouteInputs <- MCRouteInputs
SPECIFICATION ServicesSpec
INVARIANT ChaffReachesAuction
CHECK_DEADLOCK FALSE
