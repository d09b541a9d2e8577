\* Three nodes, one transaction, no fault, a fair event loop: every order of
\* blocks, votes and timers.
\* Nothing is left to do once the last transaction is in a block, or the bound
\* MaxHeight is reached: the system may stop.
SPECIFICATION FairSpec
CONSTANTS
  Node = {1, 2, 3}
  Txn = {t1}
  WaitTime <- MCWaitTime
  MaxHeight = 2
  MaxRestarts <- NoRestart
  Late <- NoneLate
  Faults = {}
INVARIANTS
  TypeOK
  OneVotePerRound
  Agreement
  SecondRoundSafe
PROPERTIES
  ImplementsLedger
  TransactionsExecuted
CHECK_DEADLOCK FALSE
