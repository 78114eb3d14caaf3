SPECIFICATION Spec
CONSTANTS
  Threads = {t1, t2}
  Users = {1, 2}
  ClientTypes = {0, 17, 18}
  SYS_SERVER_USER_ID = 3
  UNREAD_MAX_COUNTER = 1
  UNREAD_LIST_LIMIT = 1
  RECENT_LIMIT = 1
  Inputs <- Sends
  MaxReq = 2
  MaxFault = 0
  MaxBoot = 0
INVARIANT RelationUnique
\* Bounded: behaviours end when MaxReq requests are done.
CHECK_DEADLOCK FALSE
