SPECIFICATION Spec
CONSTANTS
  base = base  model = model  file = file  twin = twin
  single = single  multi = multi
  Builds = {b1, b2, b3}
  Images = {single, multi}
  Sources = {base, model, file, twin}
  BaseLayers = {base}
  FirstOf <- OneDirectory
  Contents = {c1, c2}
  Recipe <- SharedDirectory
  Indexes = {multi}
  MaxChanges = 1
  MaxFaults = 1
  MaxCrashes = 0
  None = None
  Junk = Junk
  Cut = Cut
SYMMETRY Symmetric
INVARIANTS
  LayersPresent
  RightContent
  FaultlessSucceeds
