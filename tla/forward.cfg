SPECIFICATION ForwardSpec
CONSTANTS
  Requests = {r1, r2}
  Names <- ForwardNames
  SavedAs <- UnderItself
  Outcomes = {"ok", "failed"}
  NoOne = NoOne
  Torn = Torn
  Platforms <- Wanted
  BaseHost = "docker.io"
  StorageHost = "storage.local"
  RegistryConfig <- Objects
  Guarded = {"docker.io", "storage.local"}
  MaxMoves = 1
  MaxFaults = 2
INVARIANTS
  ForwardTypeOK
  TagsAreWhole
  FailsForCause
  PartsAreWhole
PROPERTIES
  TagMovesForward
  Answered
