SPECIFICATION Spec
CONSTANTS
  Requests = {r1, r2}
  Names <- PlainNames
  SavedAs <- FiledAsAsked
  Outcomes = {"ok"}
  NoOne = NoOne
  Torn = Torn
INVARIANT
  NoFalseUnknown
