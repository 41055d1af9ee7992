CONSTANTS
  JOIN = JOIN
  BEACON = BEACON
  OK = OK
  ERROR = ERROR
  NoRequest = NoRequest
  ErrorStatus = ERROR
  QueueLen = 3
  Mlme <- MCMlme
  Restricted <- MCRestricted
  Statuses <- MCStatuses
  ZeroConfirm <- MCZeroConfirm
SPECIFICATION FairSpec
INVARIANTS
  TypeOK
  RingConsistent
  NothingLost
  LookupsFindOldest
PROPERTIES
  HandleTerminates
  ImplementsPromise
