SPECIFICATION FairSpec
CONSTANTS
  Requests = {r1, r2, r3}
  Names <- PlainNames
  SavedAs <- FiledAsAsked
  Outcomes = {"ok", "failed", "torn", "lost"}
  NoOne = NoOne
  Torn = Torn
INVARIANTS
  TypeOK
  OneBuilderPerName
  NoAbandonedEntry
  FollowerWaits
  UnknownHasCause
PROPERTIES
  Answered
  ImplementsService
