SPECIFICATION BrokerSpec
CHECK_DEADLOCK FALSE
CONSTANTS
  Clients = {"c", "d"}
  V5 = {"d"}
  Topics <- Paths
  Filters <- SubscribeTo
  Dollar = {"$SYS", "$foo"}
  MayRead <- Readable
  Shared <- OnePath
  Mount <- NoMount
  Options <- SubscribeOptions
  Messages <- Publishings
  Expiring <- OnePath
  MaxSubs = 2
INVARIANT NothingDangles
PROPERTIES RoutesAsTable KeepsPromise FilesDecide RestoredAsSaved
