\* Two nodes; node 1 may crash and start again once.
\* Nothing is left to do once the last transaction is in a block, or the bound
\* MaxHeight is reached: the system may stop.
SPECIFICATION Spec
CONSTANTS
  Node = {1, 2}
  Txn = {t1}
  WaitTime <- MCWaitTime
  MaxHeight = 2
  MaxRestarts <- OneRestart
  Late <- NoneLate
  Faults = {}
INVARIANTS
  CommittedByMajority
CHECK_DEADLOCK FALSE
