SPECIFICATION FairSpec
CONSTANTS
  Lookups = {l1, l2}
  Objects = {o1, o2}
  Specs = {good}
  Parses = {good}
  Static = {static}
  MaxChanges = 1
  MaxBreaks = 1
  None = None
  NoRules = NoRules
INVARIANTS
  TypeOK
  NoAbandonedLock
  CacheFresh
PROPERTIES
  ImplementsRuleView
  Converges
  LookupsReturn
