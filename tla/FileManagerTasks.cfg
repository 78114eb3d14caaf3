SPECIFICATION Spec
CONSTANTS
  Threads = {t1, t2, t3}
  Users = {1, 2}
  TaskIds = {"a"}
  Inputs <- EveryKind
  Stored <- Left
  Accepts = {TRUE, FALSE}
  MS = 4
  WEEK = 2
  WORD = 32
  FILES_LIMIT = 2
  Times = {40, 63, 64}
  MaxReq = 3
  MaxFault = 1
  MaxBoot = 1
INVARIANTS TypeOK AnswersTellTruth ReceivedNotListed FreshFilesListed
SYMMETRY ThreadSymmetry
\* Bounded: behaviours end when MaxReq requests are done and the time is up.
CHECK_DEADLOCK FALSE
