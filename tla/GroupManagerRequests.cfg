SPECIFICATION Spec
CONSTANTS
  Threads = {t1, t2}
  Users = {1, 2}
  UserLists <- Lists
  Inputs <- EveryKind
  Stored <- Left
  FIXED_LIMIT = 2
  RECENT_LIMIT = 2
  ALL_LIMIT = 2
  MEMBER_LIMIT = 4
  MaxReq = 3
  MaxFault = 1
  MaxBoot = 1
INVARIANTS TypeOK RelationsHaveGroup CreateAnswersTellTruth MemberCntTracks ListsTellTruth
PROPERTY QuitOnlyByCreator
SYMMETRY ThreadSymmetry
\* Bounded: behaviours end when MaxReq requests are done.
CHECK_DEADLOCK FALSE
