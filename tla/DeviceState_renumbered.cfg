SPECIFICATION Spec
CONSTANTS
  Instances = {i1}
  Claims = {c1}
  OpaqueClaims = {}
  Devices = {d1, d2}
  Edits = {n1, n2}
  Topologies <- RenumberedTopologies
  Allocations <- OnlyFirst
  Limit <- RebootOnly
  None = None
  c1 = c1
  c2 = c2
  d1 = d1
  d2 = d2
  n1 = n1
  n2 = n2
PROPERTIES
  WrittenNodesExist
