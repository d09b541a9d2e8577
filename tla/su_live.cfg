\* A new node; its peers may be busy; no fault.
\* A system whose nodes are in sync may stop.
SPECIFICATION FairSpec
CONSTANTS
  n1 = n1
  n2 = n2
  n3 = n3
  NoNode = NoNode
  p1 = p1
  p2 = p2
  Node = {n1, n2, n3}
  Page = {p1, p2}
  MaxHeight = 2
  Writes <- WritesOf
  StartHeights <- OneNew
  MaxInFlight = 1
  Faults = {}
PROPERTIES CatchesUp UpdateEnds
CHECK_DEADLOCK FALSE
