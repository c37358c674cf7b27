\* Responses: two turns, so that what the first one leaves behind meets the second;
\* the overloads and continuations of the code, and retries enough for a second row.
\* Worktrees: one name, so that operations, a retry and a member's Run meet on it;
\* calls enough to create and remove it twice, or to heal what an overlap left.
SPECIFICATION RunsSpec
CONSTANTS
  MaxTurns = 2
  MaxRetries = 4
  MaxOverloads = 3
  MaxContinuations = 3
  Names = {a}
  NoName = noname
  NoDirectory = nodir
  Tasks = {t}
  NoTask = notask
  CallIds = {c1, c2, c3, c4}
  NoCall = nocall
  Members = {m}
  Lead = lead
  Callers = {lead, m}
  MaxFaults = 1
SYMMETRY CallSymmetry
INVARIANTS
  TypeOK
  CallsBounded
  FallbackAfterOverloads
  WorktreeTypeOK
  JournalTellsGit
  RunsInItsWorktree
PROPERTIES
  BudgetKept
  WorkOnlyDiscarded
\* A Run ends, or has used up its turns; with its call identifiers used up and its
\* member done, nothing is left to do.
CHECK_DEADLOCK FALSE
