\* No file operation raises; one Run does.
CONSTANTS
  Members = {m1}
  Lead = lead
  Assignments = {a1}
  Plains = {}
  Readers = {m1}
  MaxAhead = 0
  Chores = {}
  None = None
  Other = other
  BatchSize = 2
  MaxFaults = 0
  MaxFails = 1
SPECIFICATION FairSpec
PROPERTY RedeliveryWorks
CHECK_DEADLOCK FALSE
