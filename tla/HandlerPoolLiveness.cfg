SPECIFICATION FairSpec
CONSTANTS
  max_conn_count = 2
  Sessions = {s1}
  Kinds <- Handled
  SEQ = 3
  MaxPackets = 4
INVARIANT Balanced
PROPERTY RequestsTreated
\* Bounded: behaviours end when MaxPackets packets are treated or the server stops.
CHECK_DEADLOCK FALSE
