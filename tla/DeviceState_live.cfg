SPECIFICATION FairSpec
CONSTANTS
  Instances = {i1}
  Claims = {c1, c2}
  OpaqueClaims = {c2}
  Devices = {d1, d2}
  Edits = {n1, n2}
  Topologies <- VanishingTopologies
  Allocations <- OnlyFirst
  Limit <- LiveEvents
  None = None
  c1 = c1
  c2 = c2
  d1 = d1
  d2 = d2
  n1 = n1
  n2 = n2
PROPERTIES
  ReleaseCompletes
  PrepareCompletes
