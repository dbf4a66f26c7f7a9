SPECIFICATION Spec
CONSTANTS
  weights = weights
  card = card
  s1 = s1
  s2 = s2
  h1 = h1
  h2 = h2
  Upload = Upload
  Hub = Hub
  Files = {weights, card}
  Sessions = {s1, s2}
  Writes <- MCWrites
  Deletes <- MCDeletes
  Handlers = {h1, h2}
  MaxRequests = 2
  MaxDownloads = 2
SYMMETRY MCSymmetry
INVARIANTS
  TypeOK
  UnfinishedHidden
  CacheFollowsBucket
  
  HistoryFollows
  DeletedLeavesNothing
  CompleteIsStored
  UploadsSwept
  OneWorker
PROPERTIES
  CompleteIsWhole
  CancelledIsFinal
CHECK_DEADLOCK FALSE
