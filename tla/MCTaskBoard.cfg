\* Two agents and two tasks: the claims, completions and bindings
\* of both agents overlap at every step.
CONSTANTS
  Agents = {a1, a2}
  Tasks = {1, 2}
  Ghost = ghost
  Names = {w1}
  None = None
  MaxRestarts = 0
SPECIFICATION Spec
SYMMETRY AgentSymmetry
INVARIANTS TypeOK DependenciesFirst ClaimedOnce
PROPERTY ImplementsLedger
