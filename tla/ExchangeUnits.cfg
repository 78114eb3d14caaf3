SPECIFICATION Spec
CONSTANTS
  Classes <- Agreeing
  Garbage = {0, 3}
INVARIANTS DeliveredAsSent BufferExact ShortRefused ReplyFound RowsShown
\* An exchange ends with its reply, or with a unit that has none.
CHECK_DEADLOCK FALSE
