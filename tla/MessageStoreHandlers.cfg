SPECIFICATION FairSpec
CONSTANTS
  Threads = {t1, t2}
  Users = {1, 2, 3}
  ClientTypes = {0, 17, 18}
  SYS_SERVER_USER_ID = 3
  UNREAD_MAX_COUNTER = 1
  UNREAD_LIST_LIMIT = 1
  RECENT_LIMIT = 1
  Inputs <- EveryKind
  MaxReq = 2
  MaxFault = 1
  MaxBoot = 1
INVARIANT TypeOK
PROPERTIES RequestAnswered ImplementsConversations
\* Bounded: behaviours end when MaxReq requests are done.
CHECK_DEADLOCK FALSE
