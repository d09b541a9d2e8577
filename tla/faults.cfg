\* Two nodes, two blocks, transactions that come after the blocks, a locked
\* database, failed commits, and the state updates of a node that is behind.
\* Nothing is left to do once the last transaction is in a block, or the bound
\* MaxHeight is reached: the system may stop.
SPECIFICATION Spec
CONSTANTS
  Node = {1, 2}
  Txn = {t1, t2}
  WaitTime <- MCWaitTime
  MaxHeight = 3
  MaxRestarts <- NoRestart
  Late <- AllLate
  Faults = {"busy", "commit"}
INVARIANTS
  ExecutedOnce
  OpenBlockOnList
PROPERTIES
  Finality
CHECK_DEADLOCK FALSE
