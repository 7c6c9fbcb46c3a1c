SPECIFICATION Spec
CONSTANTS
  base = base  model = model  file = file  twin = twin
  single = single  multi = multi
  Builds = {b1, b2, b3}
  Images = {single, multi}
  Sources = {base, model, file, twin}
  BaseLayers = {base}
  FirstOf <- OneDirectory
  Contents = {c1, c2}
  Recipe <- PerPlatform
  Indexes = {multi}
  MaxChanges = 0
  MaxFaults = 0
  MaxCrashes = 1
  None = None
  Junk = Junk
  Cut = Cut
SYMMETRY Symmetric
INVARIANTS
  TypeOK
  Pullable
  Coherent
PROPERTY
  StableResult
