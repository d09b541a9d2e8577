\* Three nodes and three connections: one for each pair, or several for one.
\* A network that is connected may stop.
SPECIFICATION Spec
CONSTANTS
  n1 = n1
  n2 = n2
  n3 = n3
  Node = {n1, n2, n3}
  Admin = n1
  Network <- TwoNetworks
  Conn = {1, 2, 3}
  Random <- ThreeNumbers
INVARIANTS TypeOK StillConnected NoDuplicateLeft MembersAgree
CHECK_DEADLOCK FALSE
