\* One assignment, one plain message and a shutdown request to a member, its
\* result, its confirmation and its verdict on a chore.  One call that raises is
\* what it takes to lose a message: the release after a Run that failed.
CONSTANTS
  Members = {m1}
  Lead = lead
  Assignments = {a1}
  Plains = {p1}
  Readers = {m1}
  MaxAhead = 0
  Chores = {t1}
  None = None
  Other = other
  BatchSize = 2
  MaxFaults = 1
  MaxFails = 1
SPECIFICATION FairSpec
INVARIANTS TypeOK ConsumedHasResult ConfirmedStopHolds WorkAccounted
PROPERTY AssignmentHandled
\* A team with no message to send and its runners stopped only waits.
CHECK_DEADLOCK FALSE
