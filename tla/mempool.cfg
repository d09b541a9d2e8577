\* Two nodes, the first of which makes two more transactions; a connection drops or
\* a node crashes once.  Or three nodes that are not all connected yet.
\* Nothing is left to do once the transactions are executed.
SPECIFICATION FairSpec
CONSTANTS
  Node = {1, 2, 3}
  Network <- TwoNetworks
  Executed <- FirstExecuted
  Rejected <- LastRejected
  Faults = {"disconnect", "crash"}
INVARIANTS TypeOK NonceOrder UnusedIsNew ServedByPeers
PROPERTIES VotesAreVerified TransactionsProcessed
CHECK_DEADLOCK FALSE
