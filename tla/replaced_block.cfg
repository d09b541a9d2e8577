\* Three nodes, two blocks, one restart; a part of the behaviours.
SPECIFICATION LateNodesSpec
CONSTANTS
  Node = {1, 2, 3}
  Txn = {t1, t2}
  WaitTime <- MCWaitTime
  MaxHeight = 3
  MaxRestarts <- OneRestart
  Late <- NoneLate
  Faults = {}
PROPERTIES
  Finality
CHECK_DEADLOCK FALSE
