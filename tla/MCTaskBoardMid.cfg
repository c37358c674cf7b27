\* Three tasks, two of them claimed by one agent, one worktree to bind, and one
\* crash: see MidInit.
CONSTANTS
  Agents = {a1, a2}
  Tasks = {1, 2, 3}
  Ghost = ghost
  Names = {w1}
  None = None
  MaxRestarts = 1
SPECIFICATION MidFairSpec
INVARIANTS UnblockAnnounced
PROPERTY OperationsEnd
