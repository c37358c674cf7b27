\* A binding and a completion of the same task.
CONSTANTS
  Agents = {a1, a2}
  Tasks = {1}
  Ghost = ghost
  Names = {w1}
  None = None
  MaxRestarts = 0
SPECIFICATION Spec
PROPERTY BindingKept
