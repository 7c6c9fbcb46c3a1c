SPECIFICATION Spec
CONSTANTS
  base = base  model = model  file = file  twin = twin
  single = single  multi = multi
  Builds = {b1, b2}
  Images = {single, multi}
  Sources = {base, model, file, twin}
  BaseLayers = {base}
  FirstOf <- OneDirectory
  Contents = {c1, c2}
  Recipe <- PerPlatform
  Indexes = {multi}
  MaxChanges = 1
  MaxFaults = 0
  MaxCrashes = 1
  None = None
  Junk = Junk
  Cut = Cut
SYMMETRY Symmetric
INVARIANT
  Coherent
