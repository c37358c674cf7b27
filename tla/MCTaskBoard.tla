---------------------------- MODULE MCTaskBoard -----------------------------
(* Small instances of TaskBoard: constants are given by the configurations. *)
EXTENDS TaskBoard, TLC

AgentSymmetry == Permutations(Agents)

\* A board in the middle of its life: task 3 waits for tasks 1 and 2, which two
\* operations have claimed for the same agent and which have a worktree, so that
\* task 3 is the one that claims, bindings and completions meet on.
InProgress(a) == [status |-> "in_progress", owner |-> a,
                  blockedBy |-> {}, worktree |-> CHOOSE w \in Names : TRUE]
Waiting(deps) == [status |-> "pending", owner |-> None,
                  blockedBy |-> deps, worktree |-> None]

MidInit ==
  LET a == CHOOSE c \in Agents : TRUE IN
    /\ board = [t \in Tasks |-> CASE t = 1 -> InProgress(a)
                                  [] t = 2 -> InProgress(a)
                                  [] OTHER -> Waiting({1, 2})]
    /\ pc = [c \in Agents |-> "idle"]
    /\ cur = [c \in Agents |-> None]
    /\ arg = [c \in Agents |-> None]
    /\ seen = [c \in Agents |-> Nothing]
    /\ todo = [c \in Agents |-> {}]
    /\ before = [c \in Agents |-> {}]
    /\ winners = [t \in Tasks |-> IF t < 3 THEN {a} ELSE {}]
    /\ announced = {1, 2}
    /\ restarts = 0

MidFairSpec == MidInit /\ [][Next]_vars /\ \A a \in Agents : WF_vars(Step(a))
=============================================================================
