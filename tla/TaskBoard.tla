----------------------------- MODULE TaskBoard ------------------------------
(***************************************************************************)
(* The persistent task graph (tasks/): one JSON file per task, and the     *)
(* operations TaskService runs on it from several threads at once, the     *)
(* foreground loop and the team members, each an agent here.  Reads take   *)
(* no lock; add, replace and compare_and_replace hold the directory's lock *)
(* for the whole of one file operation, so each of them is one step.       *)
(* Between its steps an operation keeps what it has read in seen[a].       *)
(*                                                                         *)
(* Reading the dependencies of a task is one step although each of their   *)
(* files is read on its own: a completed task stays completed, so a mixed  *)
(* reading decides as an atomic one does at the moment of the read that    *)
(* decided.                                                                *)
(***************************************************************************)
EXTENDS Naturals, FiniteSets

CONSTANTS
  Agents,       \* threads that run task operations; also the owners they name
  Tasks,        \* identifiers create_task may generate, ordered as file names
  Ghost,        \* an identifier no task has, which a blocked_by may name
  Names,        \* worktree names
  None,         \* no file, no owner, no worktree
  MaxRestarts   \* bound on crashes of the process

Ids == Tasks \cup {Ghost}

File == [status : {"pending", "in_progress", "completed"},
         owner : Agents \cup {None},
         blockedBy : SUBSET Ids,
         worktree : Names \cup {None}]

ASSUME TasksAreOrdered == Tasks \subseteq Nat
ASSUME GhostIsNoTask == Ghost \notin Tasks
ASSUME NoneIsNothing == None \notin Agents /\ None \notin Names /\ None \notin File
ASSUME RestartsBounded == MaxRestarts \in Nat

VARIABLES
  board,      \* the directory: the snapshot in each task's file, or None
  pc,         \* the step each agent's operation is at
  cur,        \* the task_id argument of the agent's operation
  arg,        \* its owner or worktree argument
  seen,       \* the snapshots the operation has read and still holds
  todo,       \* the files a scan of the directory has still to visit
  before,     \* complete_task: what was claimable before the replacement
  winners,    \* history: the agents whose claim of the task succeeded
  announced,  \* history: tasks some complete_task reported as unblocked, and
              \* tasks that were created with nothing left to wait for
  restarts    \* crashes so far

locals == <<pc, cur, arg, seen, todo, before>>
history == <<winners, announced>>
vars == <<board, locals, history, restarts>>

Steps == {"idle", "claim_get", "claim_check", "claim_swap",
          "list", "filter", "try",
          "before", "replace", "after", "bind_get", "bind_swap"}

Nothing == [t \in Tasks |-> None]

\* unresolved_dependency_ids is empty for a task with these dependencies
Resolved(deps) ==
  \A d \in deps : d \in Tasks /\ board[d] # None /\ board[d].status = "completed"

\* Mutant: the dependencies are not looked at again when the task is claimed.
CanClaimPending(f) == f # None /\ f.status = "pending"

\* can_claim_task, of a snapshot held in memory and the files as they are now
CanClaim(f) == f # None /\ f.status = "pending" /\ Resolved(f.blockedBy)

\* _claimable_pending_tasks
ClaimablePending == {t \in Tasks : CanClaim(board[t]) /\ board[t].blockedBy # {}}

Claimed(f, o) == [f EXCEPT !.status = "in_progress", !.owner = o]
Completed(f) == [f EXCEPT !.status = "completed"]
\* Mutant: the name lands in the wrong field.
BoundAsOwner(f, w) == [f EXCEPT !.owner = w]

Bound(f, w) == [f EXCEPT !.worktree = w]

First(S) == CHOOSE t \in S : \A u \in S : t <= u

-----------------------------------------------------------------------------
Init ==
  /\ board = Nothing
  /\ pc = [a \in Agents |-> "idle"]
  /\ cur = [a \in Agents |-> None]
  /\ arg = [a \in Agents |-> None]
  /\ seen = [a \in Agents |-> Nothing]
  /\ todo = [a \in Agents |-> {}]
  /\ before = [a \in Agents |-> {}]
  /\ winners = [t \in Tasks |-> {}]
  /\ announced = {}
  /\ restarts = 0

\* The operation returns or raises: its locals go with it.
Return(a) ==
  /\ pc' = [pc EXCEPT ![a] = "idle"]
  /\ cur' = [cur EXCEPT ![a] = None]
  /\ arg' = [arg EXCEPT ![a] = None]
  /\ seen' = [seen EXCEPT ![a] = Nothing]
  /\ todo' = [todo EXCEPT ![a] = {}]
  /\ before' = [before EXCEPT ![a] = {}]

\* get_task: the operation goes on with the snapshot that is in the file.
Get(a, t, step) ==
  /\ board[t] # None
  /\ pc' = [pc EXCEPT ![a] = step]
  /\ seen' = [seen EXCEPT ![a] = [Nothing EXCEPT ![t] = board[t]]]

\* Mutant: replace instead of compare_and_replace.
MatchesAlways(a, t) == TRUE

\* compare_and_replace finds the snapshot it expects
Matches(a, t) == board[t] = seen[a][t]

-----------------------------------------------------------------------------
\* create_task: the identifier is fresh, and only tasks that exist, or nothing
\* at all, can be named as dependencies.
CreateTask(a, t, deps) ==
  /\ pc[a] = "idle"
  /\ board[t] = None
  /\ \A d \in deps \cap Tasks : board[d] # None
  /\ board' = [board EXCEPT ![t] = [status |-> "pending", owner |-> None,
                                    blockedBy |-> deps, worktree |-> None]]
  /\ announced' = IF Resolved(deps) THEN announced \cup {t} ELSE announced
  /\ UNCHANGED <<locals, winners, restarts>>

\* claim_task(task_id, owner)
ClaimTask(a, t, o) ==
  /\ pc[a] = "idle"
  /\ board[t] # None
  /\ pc' = [pc EXCEPT ![a] = "claim_get"]
  /\ cur' = [cur EXCEPT ![a] = t]
  /\ arg' = [arg EXCEPT ![a] = o]
  /\ UNCHANGED <<board, seen, todo, before, history, restarts>>

ClaimGet(a) ==
  /\ pc[a] = "claim_get"
  /\ Get(a, cur[a], "claim_check")
  /\ UNCHANGED <<board, cur, arg, todo, before, history, restarts>>

ClaimCheck(a) ==
  /\ pc[a] = "claim_check"
  /\ IF CanClaim(seen[a][cur[a]])
     THEN /\ pc' = [pc EXCEPT ![a] = "claim_swap"]
          /\ UNCHANGED <<cur, arg, seen, todo, before>>
     ELSE Return(a)
  /\ UNCHANGED <<board, history, restarts>>

\* compare_and_replace of the claimed snapshot, for the owner the claim names
SwapClaim(a, t, o) ==
  /\ Matches(a, t)
  /\ board' = [board EXCEPT ![t] = Claimed(seen[a][t], o)]
  /\ winners' = [winners EXCEPT ![t] = @ \cup {a}]
  /\ Return(a)

\* Mutant: a claim that lost the race tries again without reading the file.
ClaimSwapStale(a) ==
  /\ pc[a] = "claim_swap"
  /\ SwapClaim(a, cur[a], arg[a])
  /\ UNCHANGED <<announced, restarts>>

ClaimSwap(a) ==
  /\ pc[a] = "claim_swap"
  /\ \/ SwapClaim(a, cur[a], arg[a])
     \/ /\ ~Matches(a, cur[a])
        /\ pc' = [pc EXCEPT ![a] = "claim_get"]
        /\ UNCHANGED <<board, cur, arg, seen, todo, before, winners>>
  /\ UNCHANGED <<announced, restarts>>

-----------------------------------------------------------------------------
\* claim_next_task(owner = the agent): the file names are read at once, the
\* files one after the other.
ClaimNextTask(a) ==
  /\ pc[a] = "idle"
  /\ \E t \in Tasks : board[t] # None
  /\ pc' = [pc EXCEPT ![a] = "list"]
  /\ todo' = [todo EXCEPT ![a] = {t \in Tasks : board[t] # None}]
  /\ UNCHANGED <<board, cur, arg, seen, before, history, restarts>>

ListRead(a) ==
  /\ pc[a] = "list"
  /\ LET t == First(todo[a])
         read == [seen[a] EXCEPT ![t] = board[t]]
         left == todo[a] \ {t}
     IN /\ seen' = [seen EXCEPT ![a] = read]
        /\ IF left = {}
           THEN /\ pc' = [pc EXCEPT ![a] = "filter"]
                /\ todo' = [todo EXCEPT ![a] = {u \in Tasks : read[u] # None}]
           ELSE /\ todo' = [todo EXCEPT ![a] = left]
                /\ UNCHANGED pc
  /\ UNCHANGED <<board, cur, arg, before, history, restarts>>

\* list_claimable_tasks keeps a listed task if it can be claimed
Filter(a) ==
  /\ pc[a] = "filter"
  /\ LET t == First(todo[a])
         kept == IF CanClaim(seen[a][t]) THEN seen[a]
                 ELSE [seen[a] EXCEPT ![t] = None]
         left == todo[a] \ {t}
         candidates == {u \in Tasks : kept[u] # None}
     IN IF left = {} /\ candidates = {}
        THEN Return(a)
        ELSE /\ seen' = [seen EXCEPT ![a] = kept]
             /\ pc' = IF left = {} THEN [pc EXCEPT ![a] = "try"] ELSE pc
             /\ todo' = [todo EXCEPT ![a] = IF left = {} THEN candidates ELSE left]
             /\ UNCHANGED <<cur, arg, before>>
  /\ UNCHANGED <<board, history, restarts>>

\* apply_claim on the listed snapshot, then compare_and_replace; the next
\* candidate if the file has changed, None after the last one.
TryNext(a) ==
  /\ pc[a] = "try"
  /\ LET t == First(todo[a])
         left == todo[a] \ {t}
     IN \/ CanClaim(seen[a][t]) /\ SwapClaim(a, t, a)
        \/ /\ CanClaim(seen[a][t]) => ~Matches(a, t)
           /\ IF left = {} \/ ~CanClaim(seen[a][t])
              THEN Return(a)
              ELSE /\ todo' = [todo EXCEPT ![a] = left]
                   /\ UNCHANGED <<pc, cur, arg, seen, before>>
           /\ UNCHANGED <<board, winners>>
  /\ UNCHANGED <<announced, restarts>>

-----------------------------------------------------------------------------
\* complete_task(task_id): any agent may complete any task.
CompleteTask(a, t) ==
  /\ pc[a] = "idle"
  /\ Get(a, t, "before")
  /\ cur' = [cur EXCEPT ![a] = t]
  /\ UNCHANGED <<board, arg, todo, before, history, restarts>>

CompleteBefore(a) ==
  /\ pc[a] = "before"
  /\ before' = [before EXCEPT ![a] = ClaimablePending]
  /\ pc' = [pc EXCEPT ![a] = "replace"]
  /\ UNCHANGED <<board, cur, arg, seen, todo, history, restarts>>

\* Mutant: the claimable tasks are listed after the replacement only.
CompleteReplaceLate(a) ==
  /\ pc[a] = "replace"
  /\ seen[a][cur[a]].status = "in_progress"
  /\ board' = [board EXCEPT ![cur[a]] = Completed(seen[a][cur[a]])]
  /\ before' = [before EXCEPT ![a] = ClaimablePending']
  /\ pc' = [pc EXCEPT ![a] = "after"]
  /\ UNCHANGED <<cur, arg, seen, todo, history, restarts>>

\* apply_complete on the snapshot read first, then replace, which does not
\* look at what the file holds now.
CompleteReplace(a) ==
  /\ pc[a] = "replace"
  /\ LET t == cur[a]
     IN IF seen[a][t].status = "in_progress"
        THEN /\ board' = [board EXCEPT ![t] = Completed(seen[a][t])]
             /\ pc' = [pc EXCEPT ![a] = "after"]
             /\ UNCHANGED <<cur, arg, seen, todo, before>>
        ELSE Return(a) /\ UNCHANGED board
  /\ UNCHANGED <<history, restarts>>

CompleteAfter(a) ==
  /\ pc[a] = "after"
  /\ announced' = announced \cup (ClaimablePending \ before[a])
  /\ Return(a)
  /\ UNCHANGED <<board, winners, restarts>>

-----------------------------------------------------------------------------
\* bind_worktree(task_id, worktree)
BindWorktree(a, t, w) ==
  /\ pc[a] = "idle"
  /\ board[t] # None
  /\ pc' = [pc EXCEPT ![a] = "bind_get"]
  /\ cur' = [cur EXCEPT ![a] = t]
  /\ arg' = [arg EXCEPT ![a] = w]
  /\ UNCHANGED <<board, seen, todo, before, history, restarts>>

\* A task bound to this name already is returned, one bound to another name
\* is refused.
BindGet(a) ==
  /\ pc[a] = "bind_get"
  /\ \/ /\ board[cur[a]].worktree = None
        /\ Get(a, cur[a], "bind_swap")
        /\ UNCHANGED <<cur, arg, todo, before>>
     \/ board[cur[a]].worktree # None /\ Return(a)
  /\ UNCHANGED <<board, history, restarts>>

\* Mutant: the bound snapshot is written without comparing.
BindSwapBlind(a) ==
  /\ pc[a] = "bind_swap"
  /\ board' = [board EXCEPT ![cur[a]] = Bound(seen[a][cur[a]], arg[a])]
  /\ Return(a)
  /\ UNCHANGED <<history, restarts>>

BindSwap(a) ==
  /\ pc[a] = "bind_swap"
  /\ LET t == cur[a]
     IN \/ /\ Matches(a, t)
           /\ board' = [board EXCEPT ![t] = Bound(seen[a][t], arg[a])]
           /\ Return(a)
        \/ /\ ~Matches(a, t)
           /\ pc' = [pc EXCEPT ![a] = "bind_get"]
           /\ UNCHANGED <<board, cur, arg, seen, todo, before>>
  /\ UNCHANGED <<history, restarts>>

-----------------------------------------------------------------------------
\* The process dies and is started again: the files stay, every operation in
\* progress is gone.
Restart ==
  /\ restarts < MaxRestarts
  /\ restarts' = restarts + 1
  /\ pc' = [a \in Agents |-> "idle"]
  /\ cur' = [a \in Agents |-> None]
  /\ arg' = [a \in Agents |-> None]
  /\ seen' = [a \in Agents |-> Nothing]
  /\ todo' = [a \in Agents |-> {}]
  /\ before' = [a \in Agents |-> {}]
  /\ UNCHANGED <<board, history>>

\* An operation that has begun takes its next step.
Step(a) ==
  \/ ClaimGet(a) \/ ClaimCheck(a) \/ ClaimSwap(a)
  \/ ListRead(a) \/ Filter(a) \/ TryNext(a)
  \/ CompleteBefore(a) \/ CompleteReplace(a) \/ CompleteAfter(a)
  \/ BindGet(a) \/ BindSwap(a)

Begin(a) ==
  \/ \E t \in Tasks :
       \/ \E deps \in SUBSET Ids : CreateTask(a, t, deps)
       \/ \E o \in Agents : ClaimTask(a, t, o)
       \/ CompleteTask(a, t)
       \/ \E w \in Names : BindWorktree(a, t, w)
  \/ ClaimNextTask(a)

Next == Restart \/ \E a \in Agents : Begin(a) \/ Step(a)

Spec == Init /\ [][Next]_vars

\* A thread that runs an operation is scheduled again, whatever the others do.
FairSpec == Spec /\ \A a \in Agents : WF_vars(Step(a))

-----------------------------------------------------------------------------
(* What the operations guarantee together. *)

\* Every file and every local has the shape its code gives it.
TypeOK ==
  /\ board \in [Tasks -> File \cup {None}]
  /\ pc \in [Agents -> Steps]
  /\ cur \in [Agents -> Tasks \cup {None}]
  /\ arg \in [Agents -> Agents \cup Names \cup {None}]
  /\ seen \in [Agents -> [Tasks -> File \cup {None}]]
  /\ todo \in [Agents -> SUBSET Tasks]
  /\ before \in [Agents -> SUBSET Tasks]
  /\ winners \in [Tasks -> SUBSET Agents]
  /\ announced \in SUBSET Tasks
  /\ restarts \in 0 .. MaxRestarts

\* Work starts only when everything it waits for is done, although the
\* dependencies are read before the claim is written and not under its lock
\* (apply_claim in claim_task and claim_next_task).
DependenciesFirst ==
  \A t \in Tasks :
    board[t] # None /\ board[t].status # "pending" => Resolved(board[t].blockedBy)

\* Of all the claims of a task, made by name or found on the board, with the
\* same owner or with another one, at most one is told that it succeeded.
ClaimedOnce == \A t \in Tasks : \A a, b \in winners[t] : a = b

\* Between operations no unblocked task is forgotten: a pending task all of
\* whose dependencies are done was ready when it was created, or the result of
\* some complete_task named it, however the completions overlapped.  (A report
\* that a crash cut off is lost.)
UnblockAnnounced ==
  restarts = 0 /\ (\A a \in Agents : pc[a] # "after")
    => ClaimablePending \subseteq announced

\* The compare-and-replace loops of claim_task and bind_worktree end: an operation
\* that began returns or raises, however often the others change the file under it.
OperationsEnd == \A a \in Agents : pc[a] # "idle" ~> pc[a] = "idle"

\* A binding once written stays: completing or claiming a task keeps it and
\* another name is refused.
BindingKept ==
  [][\A t \in Tasks : board[t] # None /\ board[t].worktree # None
       => board'[t].worktree = board[t].worktree]_board

\* Leaving the worktrees out, what is in the files is a task ledger.
Ledger == INSTANCE TaskLedger WITH
  ledger <- [t \in Tasks |->
               IF board[t] = None THEN None
               ELSE [status |-> board[t].status, owner |-> board[t].owner,
                     blockedBy |-> board[t].blockedBy]]

ASSUME NoneIsNoEntry == None \notin Ledger!Entry

\* The task files, changed by snapshots that may be out of date, only ever go
\* through the creations, claims and completions of the ledger.
ImplementsLedger == Ledger!Spec
=============================================================================
