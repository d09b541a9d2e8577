\* Two nodes, a transaction that comes after a block that names it.
\* Nothing is left to do once the last transaction is in a block, or the bound
\* MaxHeight is reached: the system may stop.
SPECIFICATION Spec
CONSTANTS
  Node = {1, 2}
  Txn = {t1, t2}
  WaitTime <- MCWaitTime
  MaxHeight = 2
  MaxRestarts <- NoRestart
  Late <- AllLate
  Faults = {}
INVARIANTS
  OneVotePerRound
CHECK_DEADLOCK FALSE
