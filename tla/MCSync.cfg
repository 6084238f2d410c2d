SPECIFICATION SyncPartsSpec
CONSTANTS
  Records = {1, 2, 3}
  ObjectTypes <- TwoTypes
  TypeOf <- Contacts
  PageSize = 1
  MaxPagesPerRun = 2
  MaxSearchPages = 2
  Overlap = 1
  SyncAttempts = 2
  MaxStamp = 3
  MaxDisturbances = 1
  Readers = {1, 2, 3}
  NoReader = none
  Keys = {"revenue", "objects"}
  WorkspaceOf <- OneWorkspace
  Capacity = 1
  Ttl = 2
  LoadTime = 1
  MaxTime = 3
  MaxChanges = 1
INVARIANTS SyncPartsTypeOK FullPassIsComplete StalenessIsBounded InvalidationSticks
PROPERTIES MirrorCatchesUp
CHECK_DEADLOCK FALSE
