SPECIFICATION Spec
CONSTANTS
  Classes <- ValidateOnly
  Garbage = {0, 3}
INVARIANT UserIfValid
\* An exchange ends with its reply, or with a unit that has none.
CHECK_DEADLOCK FALSE
