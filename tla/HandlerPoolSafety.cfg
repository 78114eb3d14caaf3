SPECIFICATION Spec
CONSTANTS
  max_conn_count = 2
  Sessions = {s1, s2}
  Kinds <- EveryTreatment
  SEQ = 3
  MaxPackets = 3
INVARIANTS TypeOK ConnAvailable TaskOwned RepliesInOrder
PROPERTY ImplementsService
SYMMETRY SessionSymmetry
\* Bounded: behaviours end when MaxPackets packets are treated or the server stops.
CHECK_DEADLOCK FALSE
