CONSTANTS
  Requests = {r1, r2}
  Slots = 1
  MaxDelay = 3
  AdminKey = TRUE
  MaxFaults = 3
SPECIFICATION FairSpec
CHECK_DEADLOCK FALSE
INVARIANTS
  TypeOK
  PerformedOnce
  ResultsAreReal
PROPERTIES
  RegistrationComesBack
  WaitingRequestsAreFetched
  FetchedRequestsEnd
