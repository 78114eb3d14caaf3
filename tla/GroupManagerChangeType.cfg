SPECIFICATION Spec
CONSTANTS
  Threads = {t1}
  Users = {1, 2}
  UserLists <- Lists
  Inputs <- JoinOnly
  Stored <- Empty
  FIXED_LIMIT = 2
  RECENT_LIMIT = 2
  ALL_LIMIT = 2
  MEMBER_LIMIT = 4
  MaxReq = 2
  MaxFault = 0
  MaxBoot = 0
PROPERTY ChangeTypeHonoured
\* Bounded: behaviours end when MaxReq requests are done.
CHECK_DEADLOCK FALSE
