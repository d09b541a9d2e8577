\* Updates that are cut off, cannot be committed, verified or find no memory.
\* A system whose nodes are in sync may stop.
SPECIFICATION Spec
CONSTANTS
  n1 = n1
  n2 = n2
  n3 = n3
  NoNode = NoNode
  p1 = p1
  p2 = p2
  Node = {n1, n2, n3}
  Page = {p1, p2}
  MaxHeight = 2
  Writes <- WritesOf
  StartHeights <- Behind
  MaxInFlight = 1
  Faults = {"read", "commit", "nomem", "verify"}
INVARIANTS DatabaseMatchesBlock UpdateSupervised
CHECK_DEADLOCK FALSE
