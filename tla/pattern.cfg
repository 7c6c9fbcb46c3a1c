SPECIFICATION AllSpec
CONSTANTS
  Latest <- LatestTag
  MaxText = 6
  MaxRef = 5
  MaxSegments = 5
  MaxTemplate = 3
  MaxDepth = 3
  MaxLeaves = 3
  MaxDocuments = 2
CHECK_DEADLOCK FALSE
INVARIANTS
  ParsesTheOneReading
  ValuesRebuild
  OpenEndedComplete
  StrictWeakOrder
  TemplatesExpand
  PacksEveryFile
  ModelIsWhole
  DocumentsAddUp
  RequestMeetsItsRule
