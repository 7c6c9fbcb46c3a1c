SPECIFICATION Spec
CONSTANTS
  Requests = {r1, r2}
  Names <- AliasNames
  SavedAs <- FiledInLibrary
  Outcomes = {"ok"}
  NoOne = NoOne
  Torn = Torn
INVARIANT
  BuiltIsServed
