SPECIFICATION AllSpec
CONSTANTS
  Latest <- LatestTag
  MaxText = 1
  MaxRef = 1
  MaxSegments = 1
  MaxTemplate = 1
  MaxDepth = 2
  MaxLeaves = 2
  MaxDocuments = 0
CHECK_DEADLOCK FALSE
INVARIANTS
  OwnContent
