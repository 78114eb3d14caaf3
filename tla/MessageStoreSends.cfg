SPECIFICATION Spec
CONSTANTS
  Threads = {t1, t2, t3}
  Users = {1, 2}
  ClientTypes = {0, 17, 18}
  SYS_SERVER_USER_ID = 3
  UNREAD_MAX_COUNTER = 1
  UNREAD_LIST_LIMIT = 1
  RECENT_LIMIT = 1
  Inputs <- SendsRemovalsReads
  MaxReq = 3
  MaxFault = 1
  MaxBoot = 1
INVARIANTS MessagesLinkToPair ContactsMirrored CounterMatchesStore AnswersTellTruth UnreadWithinCounter
PROPERTY ImplementsConversations
SYMMETRY ThreadSymmetry
\* Bounded: behaviours end when MaxReq requests are done.
CHECK_DEADLOCK FALSE
