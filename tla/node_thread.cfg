\* Four transactions of the application, two of them are refused if special.
\* A closed database does nothing more.
SPECIFICATION FairSpec
CONSTANTS
  Commits = 4
  Refused = {1, 3}
INVARIANTS TypeOK ClosedWhenReturned
PROPERTIES SpecialsProcessed CloseReturns
CHECK_DEADLOCK FALSE
