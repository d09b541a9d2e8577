\* Two nodes that have the first block, and one more transaction; two crashes.
\* Nothing is left to do once the transaction is executed, or is stalled.
SPECIFICATION FairSpec
CONSTANTS
  Node = {1, 2}
  Network <- TwoFaults
  Executed <- FirstExecuted
  Rejected <- NoneRejected
  Faults = {"crash"}
PROPERTIES EventuallyProcessed
CHECK_DEADLOCK FALSE
