SPECIFICATION Spec
CONSTANTS
  p1 = p1
  p2 = p2
  p3 = p3
  Proc <- MCProc
  Nobody = Nobody
  Args <- MCArgs
INVARIANTS
  TypeOK
  ServersListen
  LeaversWereHeard
PROPERTIES
  ImplementsMailbox
  FileTakenOnlyAtExit
  StartsEnd
  SentIsDelivered
CHECK_DEADLOCK FALSE
