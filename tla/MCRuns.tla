------------------------------- MODULE MCRuns -------------------------------
(* Two parts of Runs that share no state: how a Run gets its responses, and *)
(* where the Runs of members work.  Each part runs by itself, as in         *)
(* MCSession: the states are the sum of theirs, not the product.            *)
(*                                                                          *)
(* One worktree, one task, the lead and one member that both call worktree  *)
(* tools; the identifiers of calls are interchangeable.                     *)
EXTENDS ModelCall, Worktrees, TLC

VARIABLE part \* the part that runs

CallSymmetry == Permutations(CallIds)

(* Idle, the responses do not multiply the states of the worktrees.        *)
RunsInit ==
  /\ part \in {"responses", "worktrees"}
  /\ Init /\ WorktreeInit
  /\ part = "worktrees" => settings.fallback /\ settings.upgradable

RunsNext ==
  /\ \/ part = "responses" /\ Next /\ UNCHANGED worktreeVars
     \/ part = "worktrees" /\ WorktreeNext /\ UNCHANGED vars
  /\ UNCHANGED part

RunsSpec == RunsInit /\ [][RunsNext]_<<part, vars, worktreeVars>>
=============================================================================
