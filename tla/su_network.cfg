\* Blocks committed meanwhile, late answers, lost connections, crashes and a locked database.
\* A system whose nodes are in sync may stop.
SPECIFICATION Spec
CONSTANTS
  n1 = n1
  n2 = n2
  n3 = n3
  NoNode = NoNode
  p1 = p1
  p2 = p2
  Node = {n1, n2, n3}
  Page = {p1, p2}
  MaxHeight = 2
  Writes <- WritesOf
  StartHeights <- Behind
  MaxInFlight = 1
  Faults = {"late", "begin", "disconnect", "crash", "block"}
INVARIANTS TypeOK SynchronizingIsTimed
PROPERTIES ImplementsReplica
CHECK_DEADLOCK FALSE
