SPECIFICATION Spec
CONSTANTS
  Threads = {t1}
  Users = {1, 2}
  TaskIds = {"a"}
  Inputs <- OnlyHas
  Stored <- OneFile
  Accepts = {FALSE}
  MS = 4
  WEEK = 2
  WORD = 32
  FILES_LIMIT = 2
  Times = {40, 43}
  MaxReq = 2
  MaxFault = 0
  MaxBoot = 0
INVARIANT UnreceivedListed
\* Bounded: behaviours end when MaxReq requests are done and the time is up.
CHECK_DEADLOCK FALSE
