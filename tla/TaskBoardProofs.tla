--------------------------- MODULE TaskBoardProofs --------------------------
(***************************************************************************)
(* Proofs about TaskBoard, for any number of agents, tasks, worktree names *)
(* and restarts.                                                           *)
(*                                                                         *)
(* The argument: a snapshot an operation holds is an earlier state of the  *)
(* file it was read from (SeenIsOlder), and a file only moves forward, so  *)
(* what a check found out about a snapshot, that its dependencies are done *)
(* or who owns it, still holds when the operation writes.  Every step then *)
(* changes the board in one of four ways (LEMMA BoardChange), from which   *)
(* the safety properties and the refinement follow.                        *)
(***************************************************************************)
EXTENDS TaskBoard, TLAPS, WellFoundedInduction

\* g is the same task as f, then or later.
Follows(f, g) ==
  /\ g # None
  /\ g.blockedBy = f.blockedBy
  /\ f.status # "pending" => g.status # "pending" /\ g.owner = f.owner
  /\ f.status = "completed" => g.status = "completed"

SeenIsOlder ==
  \A a \in Agents : \A t \in Tasks :
    seen[a][t] # None => Follows(seen[a][t], board[t])

\* What the arguments and the snapshots are at each step of an operation.
LocalsOK(a) ==
  /\ pc[a] \in {"claim_get", "claim_check", "claim_swap"}
       => cur[a] \in Tasks /\ arg[a] \in Agents
  /\ pc[a] \in {"bind_get", "bind_swap"} => cur[a] \in Tasks /\ arg[a] \in Names
  /\ pc[a] \in {"before", "replace", "after"} => cur[a] \in Tasks
  /\ pc[a] \in {"claim_check", "claim_swap", "before", "replace", "after", "bind_swap"}
       => seen[a][cur[a]] # None
  /\ pc[a] = "claim_swap" => CanClaim(seen[a][cur[a]])
  /\ pc[a] \in {"list", "filter", "try"} => todo[a] # {}
  /\ pc[a] = "list" => \A t \in todo[a] : board[t] # None

NoWinnerYet ==
  \A t \in Tasks :
    board[t] = None \/ board[t].status = "pending" => winners[t] = {}

IInv ==
  /\ TypeOK
  /\ SeenIsOlder
  /\ \A a \in Agents : LocalsOK(a)
  /\ DependenciesFirst
  /\ NoWinnerYet
  /\ ClaimedOnce

-----------------------------------------------------------------------------
(* The first of the files left to visit is one of them. *)

LEMMA LeastOfSet ==
  ASSUME NEW S, S \subseteq Nat, S # {}
  PROVE  \E t \in S : \A u \in S : t <= u
<1> DEFINE Less == OpToRel(<, Nat)
<1>1. \E x \in S : \A y \in S : <<y, x>> \notin Less
  BY NatLessThanWellFounded, WFMin
<1>2. PICK x \in S : \A y \in S : <<y, x>> \notin Less
  BY <1>1
<1>3. \A y \in S : ~(y < x)
  BY <1>2 DEF OpToRel
<1> QED BY <1>3

LEMMA FirstIsMember ==
  ASSUME NEW S, S \subseteq Tasks, S # {}
  PROVE  First(S) \in S
BY LeastOfSet, TasksAreOrdered DEF First

-----------------------------------------------------------------------------
(* Facts about the order on the states of one task. *)

LEMMA FollowsReflexive ==
  ASSUME NEW f \in File
  PROVE  Follows(f, f)
BY NoneIsNothing DEF Follows

LEMMA FollowsTransitive ==
  ASSUME NEW f \in File, NEW g \in File, NEW h \in File,
         Follows(f, g), Follows(g, h)
  PROVE  Follows(f, h)
BY DEF Follows

\* The fields of a file after each of the three rules (tasks/rules.py).
LEMMA RuleFields ==
  ASSUME NEW f \in File
  PROVE  /\ \A o \in Agents :
              /\ Claimed(f, o) \in File
              /\ Claimed(f, o).status = "in_progress"
              /\ Claimed(f, o).owner = o
              /\ Claimed(f, o).blockedBy = f.blockedBy
         /\ Completed(f) \in File
         /\ Completed(f).status = "completed"
         /\ Completed(f).owner = f.owner
         /\ Completed(f).blockedBy = f.blockedBy
         /\ \A w \in Names :
              /\ Bound(f, w) \in File
              /\ Bound(f, w).status = f.status
              /\ Bound(f, w).owner = f.owner
              /\ Bound(f, w).blockedBy = f.blockedBy
BY DEF File, Claimed, Completed, Bound

-----------------------------------------------------------------------------
(* The ways a step changes the board. *)

NewFile(deps) == [status |-> "pending", owner |-> None,
                  blockedBy |-> deps, worktree |-> None]

Creates(t, deps) ==
  /\ board[t] = None
  /\ board' = [board EXCEPT ![t] = NewFile(deps)]
  /\ winners' = winners

Claims(a, t, o) ==
  /\ board[t] # None
  /\ board[t].status = "pending"
  /\ Resolved(board[t].blockedBy)
  /\ board' = [board EXCEPT ![t] = Claimed(board[t], o)]
  /\ winners' = [winners EXCEPT ![t] = @ \cup {a}]

Completes(t, f) ==
  /\ f.status = "in_progress"
  /\ Follows(f, board[t])
  /\ board' = [board EXCEPT ![t] = Completed(f)]
  /\ winners' = winners

Binds(t, w) ==
  /\ board[t] # None
  /\ board' = [board EXCEPT ![t] = Bound(board[t], w)]
  /\ winners' = winners

BoardChanges ==
  \/ board' = board /\ winners' = winners
  \/ \E t \in Tasks, deps \in SUBSET Ids : Creates(t, deps)
  \/ \E a \in Agents, t \in Tasks, o \in Agents : Claims(a, t, o)
  \/ \E t \in Tasks, f \in File : Completes(t, f)
  \/ \E t \in Tasks, w \in Names : Binds(t, w)

\* The snapshot a successful comparison found in the file can be claimed.
LEMMA SwapClaims ==
  ASSUME IInv, NEW a \in Agents, NEW t \in Tasks, NEW o \in Agents,
         CanClaim(seen[a][t]), SwapClaim(a, t, o)
  PROVE  Claims(a, t, o)
BY DEF CanClaim, SwapClaim, Matches, Claims

\* Every step changes the board in one of the four ways, or not at all.
LEMMA BoardChange ==
  ASSUME IInv, [Next]_vars
  PROVE  BoardChanges
<1> USE DEF BoardChanges, IInv, TypeOK
<1>1. CASE UNCHANGED vars
  BY <1>1 DEF vars, history
<1>2. CASE Restart
  BY <1>2 DEF Restart, history
<1>3. ASSUME NEW a \in Agents, Begin(a)
      PROVE  BoardChanges
  <2>1. ASSUME NEW t \in Tasks, NEW deps \in SUBSET Ids, CreateTask(a, t, deps)
        PROVE  BoardChanges
    BY <2>1 DEF CreateTask, Creates, NewFile
  <2>2. ASSUME NEW t \in Tasks, NEW o \in Agents, ClaimTask(a, t, o)
        PROVE  BoardChanges
    BY <2>2 DEF ClaimTask, history
  <2>3. ASSUME NEW t \in Tasks, CompleteTask(a, t)
        PROVE  BoardChanges
    BY <2>3 DEF CompleteTask, history
  <2>4. ASSUME NEW t \in Tasks, NEW w \in Names, BindWorktree(a, t, w)
        PROVE  BoardChanges
    BY <2>4 DEF BindWorktree, history
  <2>5. CASE ClaimNextTask(a)
    BY <2>5 DEF ClaimNextTask, history
  <2> QED BY <1>3, <2>1, <2>2, <2>3, <2>4, <2>5 DEF Begin
<1>4. ASSUME NEW a \in Agents, Step(a)
      PROVE  BoardChanges
  <2> LocalsOK(a)
    OBVIOUS
  <2>1. CASE ClaimGet(a) \/ ClaimCheck(a) \/ ListRead(a) \/ Filter(a)
             \/ CompleteBefore(a) \/ CompleteAfter(a) \/ BindGet(a)
    BY <2>1 DEF ClaimGet, ClaimCheck, ListRead, Filter, CompleteBefore,
                CompleteAfter, BindGet, history
  <2>2. CASE ClaimSwap(a)
    <3>1. CASE SwapClaim(a, cur[a], arg[a])
      BY <2>2, <3>1, SwapClaims DEF LocalsOK, ClaimSwap
    <3> QED BY <2>2, <3>1 DEF ClaimSwap
  <2>3. CASE TryNext(a)
    <3> DEFINE t == First(todo[a])
    <3>1. t \in Tasks
      BY <2>3, FirstIsMember DEF TryNext, LocalsOK
    <3>2. CASE CanClaim(seen[a][t]) /\ SwapClaim(a, t, a)
      BY <3>1, <3>2, SwapClaims
    <3> QED BY <2>3, <3>2 DEF TryNext
  <2>4. CASE CompleteReplace(a)
    <3> DEFINE f == seen[a][cur[a]]
    <3>1. cur[a] \in Tasks /\ f \in File /\ Follows(f, board[cur[a]])
      BY <2>4 DEF CompleteReplace, LocalsOK, SeenIsOlder
    <3>2. CASE f.status = "in_progress"
      BY <2>4, <3>1, <3>2 DEF CompleteReplace, Completes, history
    <3> QED BY <2>4, <3>2 DEF CompleteReplace, history
  <2>5. CASE BindSwap(a)
    <3>1. cur[a] \in Tasks /\ arg[a] \in Names /\ seen[a][cur[a]] # None
      BY <2>5 DEF BindSwap, LocalsOK
    <3>2. CASE Matches(a, cur[a])
      BY <2>5, <3>1, <3>2 DEF BindSwap, Binds, Matches, history
    <3> QED BY <2>5, <3>2 DEF BindSwap, history
  <2> QED BY <1>4, <2>1, <2>2, <2>3, <2>4, <2>5 DEF Step
<1> QED BY <1>1, <1>2, <1>3, <1>4 DEF Next

-----------------------------------------------------------------------------
(* A file only moves forward, and what is resolved stays resolved. *)

LEMMA FilesMoveForward ==
  ASSUME IInv, BoardChanges, NEW t \in Tasks, board[t] # None
  PROVE  Follows(board[t], board'[t])
<1> USE DEF IInv, TypeOK
<1> board[t] \in File
  OBVIOUS
<1>1. CASE board' = board /\ winners' = winners
  BY <1>1, FollowsReflexive
<1>2. ASSUME NEW u \in Tasks, NEW deps \in SUBSET Ids, Creates(u, deps)
      PROVE  Follows(board[t], board'[t])
  BY <1>2, FollowsReflexive DEF Creates
<1>3. ASSUME NEW a \in Agents, NEW u \in Tasks, NEW o \in Agents, Claims(a, u, o)
      PROVE  Follows(board[t], board'[t])
  <2>1. CASE t = u
    <3>1. board'[t] = Claimed(board[t], o) /\ board[t].status = "pending"
      BY <1>3, <2>1 DEF Claims
    <3>2. /\ Claimed(board[t], o) \in File
          /\ Claimed(board[t], o).status = "in_progress"
          /\ Claimed(board[t], o).blockedBy = board[t].blockedBy
      BY RuleFields
    <3> QED BY <3>1, <3>2, NoneIsNothing DEF Follows
  <2>2. CASE t # u
    BY <1>3, <2>2, FollowsReflexive DEF Claims
  <2> QED BY <2>1, <2>2
<1>4. ASSUME NEW u \in Tasks, NEW f \in File, Completes(u, f)
      PROVE  Follows(board[t], board'[t])
  <2>1. CASE t = u
    <3>1. /\ board'[t] = Completed(f)
          /\ f.status = "in_progress"
          /\ Follows(f, board[t])
      BY <1>4, <2>1 DEF Completes
    <3> QED BY <3>1, RuleFields, NoneIsNothing DEF Follows
  <2>2. CASE t # u
    BY <1>4, <2>2, FollowsReflexive DEF Completes
  <2> QED BY <2>1, <2>2
<1>5. ASSUME NEW u \in Tasks, NEW w \in Names, Binds(u, w)
      PROVE  Follows(board[t], board'[t])
  <2>1. CASE t = u
    <3>1. board'[t] = Bound(board[t], w)
      BY <1>5, <2>1 DEF Binds
    <3>2. /\ Bound(board[t], w) \in File
          /\ Bound(board[t], w).status = board[t].status
          /\ Bound(board[t], w).owner = board[t].owner
          /\ Bound(board[t], w).blockedBy = board[t].blockedBy
      BY RuleFields
    <3> QED BY <3>1, <3>2, NoneIsNothing DEF Follows
  <2>2. CASE t # u
    BY <1>5, <2>2, FollowsReflexive DEF Binds
  <2> QED BY <2>1, <2>2
<1> QED BY <1>1, <1>2, <1>3, <1>4, <1>5 DEF BoardChanges

LEMMA ResolvedStays ==
  ASSUME IInv, BoardChanges, NEW deps \in SUBSET Ids, Resolved(deps)
  PROVE  Resolved(deps)'
<1> SUFFICES ASSUME NEW d \in deps
             PROVE  d \in Tasks /\ board'[d] # None /\ board'[d].status = "completed"
  BY DEF Resolved
<1>1. d \in Tasks /\ board[d] # None /\ board[d].status = "completed"
  BY DEF Resolved
<1>2. Follows(board[d], board'[d])
  BY <1>1, FilesMoveForward
<1> QED BY <1>1, <1>2 DEF Follows

-----------------------------------------------------------------------------
(* Types. *)

LEMMA BoardTyped ==
  ASSUME IInv, BoardChanges
  PROVE  /\ board' \in [Tasks -> File \cup {None}]
         /\ winners' \in [Tasks -> SUBSET Agents]
<1> USE DEF IInv, TypeOK
<1>1. CASE board' = board /\ winners' = winners
  BY <1>1
<1>2. ASSUME NEW t \in Tasks, NEW deps \in SUBSET Ids, Creates(t, deps)
      PROVE  /\ board' \in [Tasks -> File \cup {None}]
             /\ winners' \in [Tasks -> SUBSET Agents]
  <2>1. NewFile(deps) \in File
    BY DEF NewFile, File
  <2> QED BY <1>2, <2>1 DEF Creates
<1>3. ASSUME NEW a \in Agents, NEW t \in Tasks, NEW o \in Agents, Claims(a, t, o)
      PROVE  /\ board' \in [Tasks -> File \cup {None}]
             /\ winners' \in [Tasks -> SUBSET Agents]
  <2>1. board[t] \in File
    BY <1>3 DEF Claims
  <2>2. Claimed(board[t], o) \in File
    BY <2>1, RuleFields
  <2> QED BY <1>3, <2>2 DEF Claims
<1>4. ASSUME NEW t \in Tasks, NEW f \in File, Completes(t, f)
      PROVE  /\ board' \in [Tasks -> File \cup {None}]
             /\ winners' \in [Tasks -> SUBSET Agents]
  BY <1>4, RuleFields DEF Completes
<1>5. ASSUME NEW t \in Tasks, NEW w \in Names, Binds(t, w)
      PROVE  /\ board' \in [Tasks -> File \cup {None}]
             /\ winners' \in [Tasks -> SUBSET Agents]
  <2>1. board[t] \in File
    BY <1>5 DEF Binds
  <2>2. Bound(board[t], w) \in File
    BY <2>1, RuleFields
  <2> QED BY <1>5, <2>2 DEF Binds
<1> QED BY <1>1, <1>2, <1>3, <1>4, <1>5 DEF BoardChanges

\* The types of everything but the board and its history.
LocalTypes ==
  /\ pc \in [Agents -> Steps]
  /\ cur \in [Agents -> Tasks \cup {None}]
  /\ arg \in [Agents -> Agents \cup Names \cup {None}]
  /\ seen \in [Agents -> [Tasks -> File \cup {None}]]
  /\ todo \in [Agents -> SUBSET Tasks]
  /\ before \in [Agents -> SUBSET Tasks]
  /\ announced \in SUBSET Tasks
  /\ restarts \in 0 .. MaxRestarts

\* A snapshot is one held before, is read from the file now, or is dropped.
SeenSources ==
  \A a \in Agents : \A t \in Tasks : seen'[a][t] \in {seen[a][t], board[t], None}

LEMMA ReturnTyped ==
  ASSUME IInv, NEW a \in Agents, Return(a),
         announced' \in SUBSET Tasks, restarts' = restarts
  PROVE  LocalTypes' /\ SeenSources
BY DEF IInv, TypeOK, Return, LocalTypes, SeenSources, Nothing, Steps

LEMMA LocalsTyped ==
  ASSUME IInv, [Next]_vars
  PROVE  LocalTypes' /\ SeenSources
<1> USE DEF IInv, TypeOK, LocalTypes, SeenSources
<1>1. CASE UNCHANGED vars
  BY <1>1 DEF vars, locals, history
<1>2. CASE Restart
  BY <1>2, RestartsBounded DEF Restart, history, Nothing, Steps
<1>3. ASSUME NEW a \in Agents, Begin(a)
      PROVE  LocalTypes' /\ SeenSources
  <2>1. ASSUME NEW t \in Tasks, NEW deps \in SUBSET Ids, CreateTask(a, t, deps)
        PROVE  LocalTypes' /\ SeenSources
    BY <2>1 DEF CreateTask, locals
  <2>2. ASSUME NEW t \in Tasks, NEW o \in Agents, ClaimTask(a, t, o)
        PROVE  LocalTypes' /\ SeenSources
    BY <2>2 DEF ClaimTask, history, Steps
  <2>3. ASSUME NEW t \in Tasks, CompleteTask(a, t)
        PROVE  LocalTypes' /\ SeenSources
    BY <2>3 DEF CompleteTask, Get, Nothing, history, Steps
  <2>4. ASSUME NEW t \in Tasks, NEW w \in Names, BindWorktree(a, t, w)
        PROVE  LocalTypes' /\ SeenSources
    BY <2>4 DEF BindWorktree, history, Steps
  <2>5. CASE ClaimNextTask(a)
    BY <2>5 DEF ClaimNextTask, history, Steps
  <2> QED BY <1>3, <2>1, <2>2, <2>3, <2>4, <2>5 DEF Begin
<1>4. ASSUME NEW a \in Agents, Step(a)
      PROVE  LocalTypes' /\ SeenSources
  <2> LocalsOK(a)
    OBVIOUS
  <2>1. CASE ClaimGet(a)
    BY <2>1 DEF ClaimGet, LocalsOK, Get, Nothing, history, Steps
  <2>2. CASE ClaimCheck(a)
    BY <2>2, ReturnTyped DEF ClaimCheck, history, Steps
  <2>3. CASE ClaimSwap(a)
    BY <2>3, ReturnTyped DEF ClaimSwap, SwapClaim, Steps
  <2>4. CASE ListRead(a)
    <3> DEFINE t == First(todo[a])
               read == [seen[a] EXCEPT ![t] = board[t]]
    <3>1. t \in Tasks
      BY <2>4, FirstIsMember DEF ListRead, LocalsOK
    <3>2. read \in [Tasks -> File \cup {None}]
      BY <3>1
    <3> DEFINE found == {u \in Tasks : read[u] # None}
               left == todo[a] \ {t}
    <3>3. /\ seen' = [seen EXCEPT ![a] = read]
          /\ pc' \in [Agents -> Steps]
          /\ todo' \in [Agents -> SUBSET Tasks]
      <4>1. /\ seen' = [seen EXCEPT ![a] = read]
            /\ IF left = {}
               THEN /\ pc' = [pc EXCEPT ![a] = "filter"]
                    /\ todo' = [todo EXCEPT ![a] = found]
               ELSE todo' = [todo EXCEPT ![a] = left] /\ pc' = pc
        BY <2>4 DEF ListRead
      <4>2. found \subseteq Tasks /\ left \subseteq Tasks
        OBVIOUS
      <4> HIDE DEF found, left, read
      <4>3. CASE left = {}
        <5>1. pc' \in [Agents -> Steps]
          BY <4>1, <4>3 DEF Steps
        <5>2. todo' \in [Agents -> SUBSET Tasks]
          BY <4>1, <4>2, <4>3
        <5> QED BY <4>1, <5>1, <5>2
      <4>4. CASE left # {}
        <5>1. pc' \in [Agents -> Steps]
          BY <4>1, <4>4
        <5>2. todo' \in [Agents -> SUBSET Tasks]
          BY <4>1, <4>2, <4>4
        <5> QED BY <4>1, <5>1, <5>2
      <4> QED BY <4>3, <4>4
    <3>4. SeenSources
      BY <3>1, <3>3
    <3> QED BY <2>4, <3>2, <3>3, <3>4 DEF ListRead, history
  <2>5. CASE Filter(a)
    <3> DEFINE t == First(todo[a])
               kept == IF CanClaim(seen[a][t]) THEN seen[a]
                       ELSE [seen[a] EXCEPT ![t] = None]
               left == todo[a] \ {t}
               candidates == {u \in Tasks : kept[u] # None}
    <3>1. kept \in [Tasks -> File \cup {None}]
      OBVIOUS
    <3>2. CASE left = {} /\ candidates = {}
      <4>1. Return(a)
        BY <2>5, <3>2 DEF Filter
      <4> QED BY <2>5, <4>1, ReturnTyped DEF Filter, history
    <3>3. CASE ~(left = {} /\ candidates = {})
      <4>1. /\ seen' = [seen EXCEPT ![a] = kept]
            /\ pc' \in [Agents -> Steps]
            /\ todo' = [todo EXCEPT ![a] = IF left = {} THEN candidates ELSE left]
            /\ UNCHANGED <<cur, arg, before, announced, restarts>>
        BY <2>5, <3>3 DEF Filter, history, Steps
      <4>2. SeenSources
        BY <4>1
      <4> QED BY <3>1, <4>1, <4>2
    <3> QED BY <3>2, <3>3
  <2>6. CASE TryNext(a)
    BY <2>6, ReturnTyped DEF TryNext, SwapClaim, Steps
  <2>7. CASE CompleteBefore(a)
    BY <2>7 DEF CompleteBefore, ClaimablePending, history, Steps
  <2>8. CASE CompleteReplace(a)
    BY <2>8, ReturnTyped DEF CompleteReplace, history, Steps
  <2>9. CASE CompleteAfter(a)
    BY <2>9, ReturnTyped DEF CompleteAfter, ClaimablePending
  <2>10. CASE BindGet(a)
    <3>1. CASE Return(a)
      BY <2>10, <3>1, ReturnTyped DEF BindGet, history
    <3>2. CASE Get(a, cur[a], "bind_swap") /\ UNCHANGED <<cur, arg, todo, before>>
      BY <2>10, <3>2 DEF BindGet, LocalsOK, Get, Nothing, history, Steps
    <3> QED BY <2>10, <3>1, <3>2 DEF BindGet
  <2>11. CASE BindSwap(a)
    BY <2>11, ReturnTyped DEF BindSwap, history, Steps
  <2> QED BY <1>4, <2>1, <2>2, <2>3, <2>4, <2>5, <2>6, <2>7, <2>8, <2>9, <2>10, <2>11
          DEF Step
<1> QED BY <1>1, <1>2, <1>3, <1>4 DEF Next

-----------------------------------------------------------------------------
(* The invariant is inductive. *)

LEMMA SeenStaysOlder ==
  ASSUME IInv, BoardChanges, SeenSources, LocalTypes', board' \in [Tasks -> File \cup {None}]
  PROVE  SeenIsOlder'
<1> SUFFICES ASSUME NEW a \in Agents, NEW t \in Tasks, seen'[a][t] # None
             PROVE  Follows(seen'[a][t], board'[t])
  BY DEF SeenIsOlder
<1>1. CASE seen'[a][t] = seen[a][t]
  <2>1. /\ seen[a][t] \in File /\ board[t] \in File /\ board'[t] \in File \cup {None}
        /\ Follows(seen[a][t], board[t])
    BY <1>1 DEF IInv, TypeOK, SeenIsOlder, Follows
  <2>2. Follows(board[t], board'[t])
    BY <2>1, FilesMoveForward, NoneIsNothing
  <2>3. board'[t] \in File
    BY <2>1, <2>2 DEF Follows
  <2> QED BY <1>1, <2>1, <2>2, <2>3, FollowsTransitive
<1>2. CASE seen'[a][t] = board[t]
  BY <1>2, FilesMoveForward
<1> QED BY <1>1, <1>2 DEF SeenSources

\* An agent whose locals do not change keeps what it knew.
LEMMA OthersKeepLocals ==
  ASSUME IInv, BoardChanges, NEW b \in Agents,
         pc'[b] = pc[b], cur'[b] = cur[b], arg'[b] = arg[b],
         seen'[b] = seen[b], todo'[b] = todo[b]
  PROVE  LocalsOK(b)'
<1> LocalsOK(b)
  BY DEF IInv
<1>1. CASE pc[b] = "claim_swap"
  <2>1. cur[b] \in Tasks /\ CanClaim(seen[b][cur[b]])
    BY <1>1 DEF LocalsOK
  <2>2. seen[b][cur[b]].blockedBy \in SUBSET Ids
    BY <2>1 DEF CanClaim, IInv, TypeOK, File
  <2>3. CanClaim(seen[b][cur[b]])'
    BY <2>1, <2>2, ResolvedStays DEF CanClaim
  <2> QED BY <1>1, <2>3 DEF LocalsOK
<1>2. CASE pc[b] = "list"
  <2>1. \A t \in todo[b] : board'[t] # None
    BY <1>2, FilesMoveForward DEF LocalsOK, Follows, IInv, TypeOK
  <2> QED BY <1>2, <2>1 DEF LocalsOK
<1>3. CASE pc[b] \notin {"claim_swap", "list"}
  BY <1>3 DEF LocalsOK
<1> QED BY <1>1, <1>2, <1>3

LEMMA ReturnLeavesLocalsOK ==
  ASSUME IInv, BoardChanges, NEW a \in Agents, Return(a), NEW b \in Agents
  PROVE  LocalsOK(b)'
<1>1. CASE a = b
  BY <1>1 DEF Return, LocalsOK, IInv, TypeOK
<1>2. CASE a # b
  BY <1>2, OthersKeepLocals DEF Return, IInv, TypeOK
<1> QED BY <1>1, <1>2

LEMMA LocalsStayOK ==
  ASSUME IInv, BoardChanges, [Next]_vars, NEW b \in Agents
  PROVE  LocalsOK(b)'
<1> USE DEF IInv, TypeOK
<1>1. CASE UNCHANGED vars
  BY <1>1, OthersKeepLocals DEF vars, locals
<1>2. CASE Restart
  BY <1>2 DEF Restart, LocalsOK
<1>3. ASSUME NEW a \in Agents, Begin(a)
      PROVE  LocalsOK(b)'
  <2>1. ASSUME NEW t \in Tasks, NEW deps \in SUBSET Ids, CreateTask(a, t, deps)
        PROVE  LocalsOK(b)'
    BY <2>1, OthersKeepLocals DEF CreateTask, locals
  <2>2. ASSUME NEW t \in Tasks, NEW o \in Agents, ClaimTask(a, t, o)
        PROVE  LocalsOK(b)'
    <3>1. CASE a = b
      BY <2>2, <3>1 DEF ClaimTask, LocalsOK
    <3> QED BY <2>2, <3>1, OthersKeepLocals DEF ClaimTask
  <2>3. ASSUME NEW t \in Tasks, CompleteTask(a, t)
        PROVE  LocalsOK(b)'
    <3>1. CASE a = b
      BY <2>3, <3>1 DEF CompleteTask, Get, Nothing, LocalsOK
    <3> QED BY <2>3, <3>1, OthersKeepLocals DEF CompleteTask, Get
  <2>4. ASSUME NEW t \in Tasks, NEW w \in Names, BindWorktree(a, t, w)
        PROVE  LocalsOK(b)'
    <3>1. CASE a = b
      BY <2>4, <3>1 DEF BindWorktree, LocalsOK
    <3> QED BY <2>4, <3>1, OthersKeepLocals DEF BindWorktree
  <2>5. CASE ClaimNextTask(a)
    <3>1. CASE a = b
      BY <2>5, <3>1 DEF ClaimNextTask, LocalsOK
    <3> QED BY <2>5, <3>1, OthersKeepLocals DEF ClaimNextTask
  <2> QED BY <1>3, <2>1, <2>2, <2>3, <2>4, <2>5 DEF Begin
<1>4. ASSUME NEW a \in Agents, Step(a)
      PROVE  LocalsOK(b)'
  <2> LocalsOK(a)
    OBVIOUS
  <2>1. CASE ClaimGet(a)
    <3>1. CASE a = b
      BY <2>1, <3>1 DEF ClaimGet, LocalsOK, Get, Nothing
    <3> QED BY <2>1, <3>1, OthersKeepLocals DEF ClaimGet, Get
  <2>2. CASE ClaimCheck(a)
    <3>1. CASE Return(a)
      BY <3>1, ReturnLeavesLocalsOK
    <3>2. CASE a = b /\ CanClaim(seen[a][cur[a]]) /\ ~Return(a)
      <4>1. /\ pc'[a] = "claim_swap" /\ board' = board
            /\ UNCHANGED <<cur, arg, seen, todo>>
        BY <2>2, <3>2 DEF ClaimCheck
      <4>2. CanClaim(seen[a][cur[a]])'
        BY <3>2, <4>1 DEF CanClaim, Resolved
      <4> QED BY <2>2, <3>2, <4>1, <4>2 DEF ClaimCheck, LocalsOK
    <3> QED BY <2>2, <3>1, <3>2, OthersKeepLocals DEF ClaimCheck
  <2>3. CASE ClaimSwap(a)
    <3>1. CASE Return(a)
      BY <3>1, ReturnLeavesLocalsOK
    <3>2. CASE a = b /\ ~Return(a)
      BY <2>3, <3>2 DEF ClaimSwap, SwapClaim, LocalsOK
    <3> QED BY <2>3, <3>1, <3>2, OthersKeepLocals DEF ClaimSwap, SwapClaim
  <2>4. CASE ListRead(a)
    <3>1. CASE a = b
      <4> DEFINE t == First(todo[a])
                 read == [seen[a] EXCEPT ![t] = board[t]]
                 found == {u \in Tasks : read[u] # None}
                 left == todo[a] \ {t}
      <4>1. pc[a] = "list" /\ t \in todo[a] /\ t \in Tasks /\ board[t] # None
        BY <2>4, FirstIsMember DEF ListRead, LocalsOK
      <4>2. read[t] = board[t] /\ t \in found
        BY <4>1
      <4>3. /\ UNCHANGED board
            /\ IF left = {}
               THEN /\ pc' = [pc EXCEPT ![a] = "filter"]
                    /\ todo' = [todo EXCEPT ![a] = found]
               ELSE todo' = [todo EXCEPT ![a] = left] /\ pc' = pc
        BY <2>4 DEF ListRead
      <4>4. CASE left = {}
        <5>1. pc'[a] = "filter" /\ todo'[a] = found
          BY <4>3, <4>4
        <5> QED BY <3>1, <4>2, <5>1 DEF LocalsOK
      <4>5. CASE left # {}
        <5>1. pc'[a] = "list" /\ todo'[a] = left /\ board' = board
          BY <4>1, <4>3, <4>5
        <5>2. \A u \in left : board[u] # None
          BY <4>1 DEF LocalsOK
        <5> QED BY <3>1, <4>5, <5>1, <5>2 DEF LocalsOK
      <4> QED BY <4>4, <4>5
    <3> QED BY <2>4, <3>1, OthersKeepLocals DEF ListRead
  <2>5. CASE Filter(a)
    <3>1. CASE Return(a)
      BY <3>1, ReturnLeavesLocalsOK
    <3>2. CASE a = b /\ ~Return(a)
      BY <2>5, <3>2 DEF Filter, LocalsOK
    <3> QED BY <2>5, <3>1, <3>2, OthersKeepLocals DEF Filter
  <2>6. CASE TryNext(a)
    <3>1. CASE Return(a)
      BY <3>1, ReturnLeavesLocalsOK
    <3>2. CASE a = b /\ ~Return(a)
      BY <2>6, <3>2 DEF TryNext, SwapClaim, LocalsOK
    <3> QED BY <2>6, <3>1, <3>2, OthersKeepLocals DEF TryNext, SwapClaim
  <2>7. CASE CompleteBefore(a)
    <3>1. CASE a = b
      BY <2>7, <3>1 DEF CompleteBefore, LocalsOK
    <3> QED BY <2>7, <3>1, OthersKeepLocals DEF CompleteBefore
  <2>8. CASE CompleteReplace(a)
    <3>1. CASE Return(a)
      BY <3>1, ReturnLeavesLocalsOK
    <3>2. CASE a = b /\ ~Return(a)
      BY <2>8, <3>2 DEF CompleteReplace, LocalsOK
    <3> QED BY <2>8, <3>1, <3>2, OthersKeepLocals DEF CompleteReplace
  <2>9. CASE CompleteAfter(a)
    BY <2>9, ReturnLeavesLocalsOK DEF CompleteAfter
  <2>10. CASE BindGet(a)
    <3>1. CASE Return(a)
      BY <3>1, ReturnLeavesLocalsOK
    <3>2. CASE a = b /\ ~Return(a)
      BY <2>10, <3>2 DEF BindGet, Get, Nothing, LocalsOK
    <3> QED BY <2>10, <3>1, <3>2, OthersKeepLocals DEF BindGet, Get
  <2>11. CASE BindSwap(a)
    <3>1. CASE Return(a)
      BY <3>1, ReturnLeavesLocalsOK
    <3>2. CASE a = b /\ ~Return(a)
      BY <2>11, <3>2 DEF BindSwap, LocalsOK
    <3> QED BY <2>11, <3>1, <3>2, OthersKeepLocals DEF BindSwap
  <2> QED BY <1>4, <2>1, <2>2, <2>3, <2>4, <2>5, <2>6, <2>7, <2>8, <2>9, <2>10, <2>11
          DEF Step
<1> QED BY <1>1, <1>2, <1>3, <1>4 DEF Next

-----------------------------------------------------------------------------
(* The invariants about the board, one case for each way it changes. *)

LEMMA DependenciesStayFirst ==
  ASSUME IInv, BoardChanges, board' \in [Tasks -> File \cup {None}]
  PROVE  DependenciesFirst'
<1> SUFFICES ASSUME NEW t \in Tasks, board'[t] # None, board'[t].status # "pending"
             PROVE  Resolved(board[t].blockedBy)'
  BY DEF DependenciesFirst
<1> USE DEF IInv, TypeOK
\* It is enough that the task existed and that its dependencies were resolved.
<1>1. ASSUME board[t] # None, Resolved(board[t].blockedBy)
      PROVE  Resolved(board[t].blockedBy)'
  <2>1. PICK deps \in SUBSET Ids : deps = board[t].blockedBy
    BY <1>1 DEF File
  <2>2. board'[t].blockedBy = deps
    BY <1>1, <2>1, FilesMoveForward DEF Follows
  <2>3. Resolved(deps)'
    BY <1>1, <2>1, ResolvedStays
  <2> QED BY <2>2, <2>3
<1>2. CASE board[t] # None /\ board[t].status # "pending"
  BY <1>1, <1>2 DEF DependenciesFirst
<1>3. CASE board[t] = None \/ board[t].status = "pending"
  <2>1. CASE board' = board
    BY <1>3, <2>1
  <2>2. ASSUME NEW u \in Tasks, NEW deps \in SUBSET Ids, Creates(u, deps)
        PROVE  FALSE
    BY <1>3, <2>2 DEF Creates, NewFile
  <2>3. ASSUME NEW a \in Agents, NEW u \in Tasks, NEW o \in Agents, Claims(a, u, o)
        PROVE  Resolved(board[t].blockedBy)'
    BY <1>1, <1>3, <2>3 DEF Claims
  <2>4. ASSUME NEW u \in Tasks, NEW f \in File, Completes(u, f)
        PROVE  FALSE
    BY <1>3, <2>4 DEF Completes, Follows
  <2>5. ASSUME NEW u \in Tasks, NEW w \in Names, Binds(u, w)
        PROVE  FALSE
    <3>1. CASE t = u
      <4>1. board[t] \in File /\ board'[t] = Bound(board[t], w)
        BY <2>5, <3>1 DEF Binds
      <4>2. Bound(board[t], w).status = board[t].status
        BY <4>1, RuleFields
      <4> QED BY <1>3, <4>1, <4>2, NoneIsNothing
    <3>2. CASE t # u
      BY <1>3, <2>5, <3>2 DEF Binds
    <3> QED BY <3>1, <3>2
  <2> QED BY <2>1, <2>2, <2>3, <2>4, <2>5 DEF BoardChanges
<1> QED BY <1>2, <1>3

LEMMA WinnersStayOne ==
  ASSUME IInv, BoardChanges, board' \in [Tasks -> File \cup {None}]
  PROVE  NoWinnerYet' /\ ClaimedOnce'
<1> USE DEF IInv, TypeOK, NoWinnerYet, ClaimedOnce
<1>1. ASSUME winners' = winners
      PROVE  NoWinnerYet' /\ ClaimedOnce'
  <2>1. ASSUME NEW t \in Tasks, board'[t] = None \/ board'[t].status = "pending"
        PROVE  board[t] = None \/ board[t].status = "pending"
    BY <2>1, FilesMoveForward DEF Follows
  <2> QED BY <1>1, <2>1
<1>2. ASSUME NEW a \in Agents, NEW t \in Tasks, NEW o \in Agents, Claims(a, t, o)
      PROVE  NoWinnerYet' /\ ClaimedOnce'
  <2>1. /\ winners[t] = {} /\ board[t] \in File
        /\ winners' = [winners EXCEPT ![t] = {a}]
        /\ board' = [board EXCEPT ![t] = Claimed(board[t], o)]
    <3>1. /\ board[t] # None /\ board[t].status = "pending"
          /\ board' = [board EXCEPT ![t] = Claimed(board[t], o)]
          /\ winners' = [winners EXCEPT ![t] = winners[t] \cup {a}]
      BY <1>2 DEF Claims
    <3>2. winners[t] = {} /\ board[t] \in File
      BY <3>1
    <3>3. winners[t] \cup {a} = {a}
      BY <3>2
    <3> QED BY <3>1, <3>2, <3>3
  <2>2. Claimed(board[t], o) \in File /\ Claimed(board[t], o).status = "in_progress"
    BY <2>1, RuleFields
  <2> QED BY <2>1, <2>2, NoneIsNothing
<1> QED BY <1>1, <1>2 DEF BoardChanges, Creates, Completes, Binds

-----------------------------------------------------------------------------
(* The theorems. *)

LEMMA InitInvariant == Init => IInv
<1> SUFFICES ASSUME Init PROVE IInv
  OBVIOUS
<1>1. TypeOK
  BY RestartsBounded DEF Init, TypeOK, Nothing, Steps
<1> QED BY <1>1 DEF Init, IInv, SeenIsOlder, LocalsOK, DependenciesFirst, NoWinnerYet,
                    ClaimedOnce, Nothing

LEMMA StepInvariant == IInv /\ [Next]_vars => IInv'
<1> SUFFICES ASSUME IInv, [Next]_vars PROVE IInv'
  OBVIOUS
<1>1. BoardChanges
  BY BoardChange
<1>2. LocalTypes' /\ SeenSources
  BY LocalsTyped
<1>3. /\ board' \in [Tasks -> File \cup {None}]
      /\ winners' \in [Tasks -> SUBSET Agents]
  BY <1>1, BoardTyped
<1>4. TypeOK'
  BY <1>2, <1>3 DEF TypeOK, LocalTypes
<1>5. SeenIsOlder'
  BY <1>1, <1>2, <1>3, SeenStaysOlder
<1>6. \A a \in Agents : LocalsOK(a)'
  BY <1>1, LocalsStayOK
<1>7. DependenciesFirst'
  BY <1>1, <1>3, DependenciesStayFirst
<1>8. NoWinnerYet' /\ ClaimedOnce'
  BY <1>1, <1>3, WinnersStayOne
<1> QED BY <1>4, <1>5, <1>6, <1>7, <1>8 DEF IInv

LEMMA Invariant == Spec => []IInv
BY InitInvariant, StepInvariant, PTL DEF Spec

\* Files and locals have the types the code gives them, in every reachable
\* state (Task.__post_init__ and the service's locals).
THEOREM TypeCorrect == Spec => []TypeOK
<1>1. IInv => TypeOK
  BY DEF IInv
<1> QED BY <1>1, Invariant, PTL

\* No task is in progress or completed before all it is blocked by is
\* completed, whatever the agents do between the check and the write.
THEOREM WorkAfterDependencies == Spec => []DependenciesFirst
<1>1. IInv => DependenciesFirst
  BY DEF IInv
<1> QED BY <1>1, Invariant, PTL

\* At most one claim of a task is ever told that it succeeded
\* (compare_and_replace in claim_task and claim_next_task).
THEOREM OneClaimWins == Spec => []ClaimedOnce
<1>1. IInv => ClaimedOnce
  BY DEF IInv
<1> QED BY <1>1, Invariant, PTL

-----------------------------------------------------------------------------
(* No unblocked task is forgotten. *)

\* What a completion has noted as claimable still is, or is taken.
NotedIsResolved ==
  \A a \in Agents : \A t \in before[a] : board[t] # None /\ Resolved(board[t].blockedBy)

\* An unblocked task that nobody has been told of is about to be reported by a
\* completion that did not see it as claimable before.
AboutToBeTold ==
  restarts = 0 =>
    \A t \in ClaimablePending \ announced :
      \E a \in Agents : pc[a] = "after" /\ t \notin before[a]

\* A step that completes no task makes none claimable, but for a new one.
LEMMA NothingUnblocked ==
  ASSUME IInv, BoardChanges,
         \A d \in Tasks : board'[d] # None /\ board'[d].status = "completed"
                            => board[d] # None /\ board[d].status = "completed",
         NEW t \in ClaimablePending', board[t] # None
  PROVE  t \in ClaimablePending
<1>1. /\ t \in Tasks /\ board[t] \in File /\ board'[t].status = "pending"
      /\ board'[t].blockedBy # {} /\ Resolved(board[t].blockedBy)'
  BY DEF ClaimablePending, CanClaim, IInv, TypeOK
<1>2. Follows(board[t], board'[t])
  BY <1>1, FilesMoveForward
<1>3. board[t].status = "pending" /\ board'[t].blockedBy = board[t].blockedBy
  BY <1>1, <1>2 DEF Follows
<1>4. Resolved(board[t].blockedBy)
  <2> SUFFICES ASSUME NEW d \in board[t].blockedBy
               PROVE  d \in Tasks /\ board[d] # None /\ board[d].status = "completed"
    BY DEF Resolved
  <2>1. d \in Tasks /\ board'[d] # None /\ board'[d].status = "completed"
    BY <1>1, <1>3 DEF Resolved
  <2> QED BY <2>1
<1> QED BY <1>1, <1>3, <1>4 DEF ClaimablePending, CanClaim

\* What an operation has noted before stays, is dropped or is noted now.
NoteSources ==
  \A a \in Agents : before'[a] \in {before[a], {}, ClaimablePending}

LEMMA NotesTaken ==
  ASSUME IInv, [Next]_vars
  PROVE  NoteSources
<1> USE DEF IInv, TypeOK, NoteSources
<1>1. CASE UNCHANGED vars
  BY <1>1 DEF vars, locals
<1>2. CASE Restart
  BY <1>2 DEF Restart
<1>3. ASSUME NEW a \in Agents, Begin(a)
      PROVE  NoteSources
  BY <1>3 DEF Begin, CreateTask, ClaimTask, CompleteTask, BindWorktree, ClaimNextTask, locals
<1>4. ASSUME NEW a \in Agents, Step(a)
      PROVE  NoteSources
  <2>1. CASE CompleteBefore(a)
    BY <2>1 DEF CompleteBefore
  <2>2. before' = before \/ before' = [before EXCEPT ![a] = {}] \/ CompleteBefore(a)
    BY <1>4 DEF Step, ClaimGet, ClaimCheck, ClaimSwap, ListRead, Filter, TryNext, SwapClaim,
                CompleteReplace, CompleteAfter, BindGet, BindSwap, Return
  <2> QED BY <2>1, <2>2
<1> QED BY <1>1, <1>2, <1>3, <1>4 DEF Next

LEMMA NotesStayResolved ==
  ASSUME IInv, NotedIsResolved, BoardChanges, NoteSources
  PROVE  NotedIsResolved'
<1> SUFFICES ASSUME NEW a \in Agents, NEW t \in before'[a]
             PROVE  board'[t] # None /\ Resolved(board[t].blockedBy)'
  BY DEF NotedIsResolved
<1>1. t \in Tasks /\ board[t] # None /\ Resolved(board[t].blockedBy)
  BY DEF NoteSources, NotedIsResolved, ClaimablePending, CanClaim, IInv, TypeOK
<1>2. PICK deps \in SUBSET Ids : deps = board[t].blockedBy
  BY <1>1 DEF IInv, TypeOK, File
<1>3. board'[t] # None /\ board'[t].blockedBy = deps
  BY <1>1, <1>2, FilesMoveForward DEF Follows
<1>4. Resolved(deps)'
  BY <1>1, <1>2, ResolvedStays
<1> QED BY <1>3, <1>4

\* A step that completes and creates nothing, and interrupts no report.
LEMMA ReportsGoOn ==
  ASSUME IInv, AboutToBeTold, BoardChanges, restarts' = restarts, announced' = announced,
         \A t \in Tasks : board[t] = None => board'[t] = None,
         \A d \in Tasks : board'[d] # None /\ board'[d].status = "completed"
                            => board[d] # None /\ board[d].status = "completed",
         \A a \in Agents : pc[a] = "after" => pc'[a] = "after" /\ before'[a] = before[a]
  PROVE  AboutToBeTold'
<1> SUFFICES ASSUME restarts = 0, NEW t \in ClaimablePending', t \notin announced
             PROVE  \E a \in Agents : pc'[a] = "after" /\ t \notin before'[a]
  BY DEF AboutToBeTold
<1>1. t \in Tasks /\ board[t] # None
  BY DEF ClaimablePending, CanClaim
<1>2. t \in ClaimablePending
  BY <1>1, NothingUnblocked
<1> QED BY <1>2 DEF AboutToBeTold

\* The claims and the bindings complete no task.
LEMMA ClaimsUnblockNothing ==
  ASSUME IInv,
         \/ board' = board
         \/ \E a \in Agents, t \in Tasks, o \in Agents : Claims(a, t, o)
         \/ \E t \in Tasks, w \in Names : Binds(t, w)
  PROVE  /\ \A t \in Tasks : board[t] = None => board'[t] = None
         /\ \A d \in Tasks : board'[d] # None /\ board'[d].status = "completed"
                               => board[d] # None /\ board[d].status = "completed"
<1> USE DEF IInv, TypeOK
<1>1. ASSUME NEW a \in Agents, NEW t \in Tasks, NEW o \in Agents, Claims(a, t, o)
      PROVE  \A u \in Tasks : /\ board[u] = None => board'[u] = None
                              /\ board'[u] # None /\ board'[u].status = "completed"
                                   => board[u] # None /\ board[u].status = "completed"
  <2>1. board[t] # None /\ board[t] \in File /\ board' = [board EXCEPT ![t] = Claimed(board[t], o)]
    BY <1>1 DEF Claims
  <2>2. Claimed(board[t], o).status = "in_progress"
    BY <2>1, RuleFields
  <2> QED BY <2>1, <2>2
<1>2. ASSUME NEW t \in Tasks, NEW w \in Names, Binds(t, w)
      PROVE  \A u \in Tasks : /\ board[u] = None => board'[u] = None
                              /\ board'[u] # None /\ board'[u].status = "completed"
                                   => board[u] # None /\ board[u].status = "completed"
  <2>1. board[t] # None /\ board[t] \in File /\ board' = [board EXCEPT ![t] = Bound(board[t], w)]
    BY <1>2 DEF Binds
  <2>2. Bound(board[t], w).status = board[t].status
    BY <2>1, RuleFields
  <2> QED BY <2>1, <2>2
<1> QED BY <1>1, <1>2

LEMMA CreateTells ==
  ASSUME IInv, AboutToBeTold, BoardChanges, NEW a \in Agents, NEW t \in Tasks,
         NEW deps \in SUBSET Ids, CreateTask(a, t, deps)
  PROVE  AboutToBeTold'
<1> SUFFICES ASSUME restarts = 0, NEW u \in ClaimablePending', u \notin announced'
             PROVE  \E b \in Agents : pc'[b] = "after" /\ u \notin before'[b]
  BY DEF AboutToBeTold, CreateTask
<1>1. /\ board[t] = None /\ board' = [board EXCEPT ![t] = NewFile(deps)]
      /\ announced' = IF Resolved(deps) THEN announced \cup {t} ELSE announced
      /\ UNCHANGED <<pc, before>>
  BY DEF CreateTask, NewFile, locals
<1>2. board'[t] = NewFile(deps) /\ \A v \in Tasks \ {t} : board'[v] = board[v]
  BY <1>1 DEF IInv, TypeOK
<1>3. \A d \in Tasks : board'[d] # None /\ board'[d].status = "completed"
                        => board[d] # None /\ board[d].status = "completed"
  BY <1>2 DEF NewFile
<1>4. CASE u = t
  <2>1. Resolved(deps)'
    BY <1>2, <1>4 DEF ClaimablePending, CanClaim, NewFile
  <2>2. Resolved(deps)
    BY <1>3, <2>1 DEF Resolved
  <2> QED BY <1>1, <1>4, <2>2
<1>5. CASE u # t
  <2>1. board[u] # None
    BY <1>2, <1>5 DEF ClaimablePending, CanClaim
  <2>2. u \in ClaimablePending
    BY <1>3, <2>1, NothingUnblocked
  <2> QED BY <1>1, <2>2 DEF AboutToBeTold
<1> QED BY <1>4, <1>5

\* A completion noted what was claimable before it: whatever becomes claimable by
\* it, it has not noted.
LEMMA ReplaceTells ==
  ASSUME IInv, NotedIsResolved, AboutToBeTold, BoardChanges, NEW a \in Agents,
         CompleteReplace(a), pc'[a] = "after"
  PROVE  AboutToBeTold'
<1> SUFFICES ASSUME restarts = 0, NEW t \in ClaimablePending', t \notin announced
             PROVE  \E b \in Agents : pc'[b] = "after" /\ t \notin before'[b]
  BY DEF AboutToBeTold, CompleteReplace, history
<1>1. /\ pc[a] = "replace" /\ before' = before
      /\ pc' = [pc EXCEPT ![a] = "after"]
      /\ board' = [board EXCEPT ![cur[a]] = Completed(seen[a][cur[a]])]
  BY DEF CompleteReplace, Return, IInv, TypeOK
<1>2. \A b \in Agents : pc[b] = "after" => pc'[b] = "after"
  BY <1>1 DEF IInv, TypeOK
<1>3. CASE t \in before[a]
  <2>1. t \in Tasks /\ board[t] # None /\ Resolved(board[t].blockedBy)
    BY <1>3 DEF NotedIsResolved, IInv, TypeOK
  <2>2. Follows(board[t], board'[t])
    BY <2>1, FilesMoveForward
  <2>3. t \in ClaimablePending
    BY <2>1, <2>2 DEF ClaimablePending, CanClaim, Follows
  <2> QED BY <1>1, <1>2, <2>3 DEF AboutToBeTold
<1>4. CASE t \notin before[a]
  BY <1>1, <1>4 DEF IInv, TypeOK
<1> QED BY <1>3, <1>4

\* The report tells of all it has not noted; what it has noted another one tells.
LEMMA AfterTells ==
  ASSUME IInv, AboutToBeTold, NEW a \in Agents, CompleteAfter(a)
  PROVE  AboutToBeTold'
<1>1. /\ board' = board /\ restarts' = restarts
      /\ announced' = announced \cup (ClaimablePending \ before[a])
      /\ pc' = [pc EXCEPT ![a] = "idle"] /\ before' = [before EXCEPT ![a] = {}]
  BY DEF CompleteAfter, Return
<1>2. ClaimablePending' = ClaimablePending
  BY <1>1 DEF ClaimablePending, CanClaim, Resolved
<1> SUFFICES ASSUME restarts = 0, NEW t \in ClaimablePending, t \notin announced'
             PROVE  \E b \in Agents : pc'[b] = "after" /\ t \notin before'[b]
  BY <1>1, <1>2 DEF AboutToBeTold
<1>3. t \notin announced /\ t \in before[a]
  BY <1>1
<1>4. PICK b \in Agents : pc[b] = "after" /\ t \notin before[b]
  BY <1>3 DEF AboutToBeTold
<1>5. pc'[b] = pc[b] /\ before'[b] = before[b]
  BY <1>1, <1>3, <1>4 DEF IInv, TypeOK
<1> QED BY <1>4, <1>5

\* The steps of an operation but for the completion only claim and bind.
LEMMA StepOfBoard ==
  ASSUME IInv, NEW a \in Agents, Step(a), ~(CompleteReplace(a) /\ pc'[a] = "after")
  PROVE  \/ board' = board
         \/ \E t \in Tasks, o \in Agents : Claims(a, t, o)
         \/ \E t \in Tasks, w \in Names : Binds(t, w)
<1> USE DEF IInv, TypeOK
<1> LocalsOK(a)
  OBVIOUS
<1>1. CASE ClaimGet(a) \/ ClaimCheck(a) \/ ListRead(a) \/ Filter(a)
             \/ CompleteBefore(a) \/ CompleteAfter(a) \/ BindGet(a)
  BY <1>1 DEF ClaimGet, ClaimCheck, ListRead, Filter, CompleteBefore, CompleteAfter, BindGet
<1>2. CASE ClaimSwap(a)
  <2>1. CASE SwapClaim(a, cur[a], arg[a])
    BY <1>2, <2>1, SwapClaims DEF LocalsOK, ClaimSwap
  <2> QED BY <1>2, <2>1 DEF ClaimSwap
<1>3. CASE TryNext(a)
  <2> DEFINE t == First(todo[a])
  <2>1. t \in Tasks
    BY <1>3, FirstIsMember DEF TryNext, LocalsOK
  <2>2. CASE CanClaim(seen[a][t]) /\ SwapClaim(a, t, a)
    BY <2>1, <2>2, SwapClaims
  <2> QED BY <1>3, <2>2 DEF TryNext
<1>4. CASE CompleteReplace(a)
  BY <1>4 DEF CompleteReplace
<1>5. CASE BindSwap(a)
  <2>1. cur[a] \in Tasks /\ arg[a] \in Names /\ seen[a][cur[a]] # None
    BY <1>5 DEF BindSwap, LocalsOK
  <2>2. CASE Matches(a, cur[a])
    BY <1>5, <2>1, <2>2 DEF BindSwap, Binds, Matches, history
  <2> QED BY <1>5, <2>2 DEF BindSwap
<1> QED BY <1>1, <1>2, <1>3, <1>4, <1>5 DEF Step

LEMMA TellingGoesOn ==
  ASSUME IInv, NotedIsResolved, AboutToBeTold, [Next]_vars
  PROVE  AboutToBeTold'
<1> USE DEF IInv, TypeOK
<1>0. BoardChanges
  BY BoardChange
<1>1. CASE UNCHANGED vars
  BY <1>0, <1>1, ReportsGoOn DEF vars, locals, history
<1>2. CASE Restart
  BY <1>2 DEF Restart, AboutToBeTold
<1>3. ASSUME NEW a \in Agents, Begin(a)
      PROVE  AboutToBeTold'
  <2>1. ASSUME NEW t \in Tasks, NEW deps \in SUBSET Ids, CreateTask(a, t, deps)
        PROVE  AboutToBeTold'
    BY <1>0, <2>1, CreateTells
  <2>2. CASE board' = board /\ announced' = announced /\ restarts' = restarts
               /\ before' = before
               /\ \A b \in Agents : pc[b] = "after" => pc'[b] = "after"
    BY <1>0, <2>2, ReportsGoOn
  <2>3. ASSUME \/ \E t \in Tasks, o \in Agents : ClaimTask(a, t, o)
               \/ \E t \in Tasks : CompleteTask(a, t)
               \/ \E t \in Tasks, w \in Names : BindWorktree(a, t, w)
               \/ ClaimNextTask(a)
        PROVE  /\ board' = board /\ announced' = announced /\ restarts' = restarts
               /\ before' = before
               /\ \A b \in Agents : pc[b] = "after" => pc'[b] = "after"
    BY <2>3 DEF ClaimTask, CompleteTask, Get, BindWorktree, ClaimNextTask, history
  <2> QED BY <1>3, <2>1, <2>2, <2>3 DEF Begin
<1>4. ASSUME NEW a \in Agents, Step(a)
      PROVE  AboutToBeTold'
  <2>1. CASE CompleteAfter(a)
    BY <2>1, AfterTells
  <2>2. CASE CompleteReplace(a) /\ pc'[a] = "after"
    BY <1>0, <2>2, ReplaceTells
  <2>3. CASE ~CompleteAfter(a) /\ ~(CompleteReplace(a) /\ pc'[a] = "after")
    <3>1. /\ announced' = announced /\ restarts' = restarts
          /\ pc[a] # "after"
          /\ \A b \in Agents \ {a} : pc'[b] = pc[b] /\ before'[b] = before[b]
      BY <1>4, <2>3 DEF Step, ClaimGet, Get, ClaimCheck, ClaimSwap, ListRead, Filter, TryNext,
                        SwapClaim, CompleteBefore, CompleteReplace, BindGet, BindSwap, Return,
                        history
    <3>2. \/ board' = board
          \/ \E t \in Tasks, o \in Agents : Claims(a, t, o)
          \/ \E t \in Tasks, w \in Names : Binds(t, w)
      BY <1>4, <2>3, StepOfBoard
    <3> QED BY <1>0, <3>1, <3>2, ClaimsUnblockNothing, ReportsGoOn
  <2> QED BY <2>1, <2>2, <2>3
<1> QED BY <1>1, <1>2, <1>3, <1>4 DEF Next

LEMMA AllAreTold == Spec => [](NotedIsResolved /\ AboutToBeTold)
<1>1. Init => NotedIsResolved /\ AboutToBeTold
  BY DEF Init, NotedIsResolved, AboutToBeTold, ClaimablePending, CanClaim, Nothing
<1>2. IInv /\ NotedIsResolved /\ AboutToBeTold /\ [Next]_vars
        => NotedIsResolved' /\ AboutToBeTold'
  BY BoardChange, NotesTaken, NotesStayResolved, TellingGoesOn
<1> QED BY <1>1, <1>2, Invariant, PTL DEF Spec

\* When no completion is still to report and the process has not crashed, every
\* task whose dependencies are done was reported as unblocked, however the
\* completions that unblocked it overlapped (complete_task).
THEOREM UnblockedAreAnnounced == Spec => []UnblockAnnounced
<1>1. NotedIsResolved /\ AboutToBeTold => UnblockAnnounced
  BY DEF AboutToBeTold, UnblockAnnounced
<1> QED BY <1>1, AllAreTold, PTL

-----------------------------------------------------------------------------
(* The board implements the ledger. *)

\* What the ledger keeps of a file.
EntryOf(f) == IF f = None THEN None
              ELSE [status |-> f.status, owner |-> f.owner, blockedBy |-> f.blockedBy]

Mapped == [t \in Tasks |-> EntryOf(board[t])]

LEMMA EntryFields ==
  ASSUME NEW f \in File
  PROVE  /\ EntryOf(f) # None
         /\ EntryOf(f).status = f.status
         /\ EntryOf(f).owner = f.owner
         /\ EntryOf(f).blockedBy = f.blockedBy
         /\ EntryOf(f) = [status |-> f.status, owner |-> f.owner, blockedBy |-> f.blockedBy]
BY NoneIsNothing, NoneIsNoEntry DEF EntryOf, File, Ledger!Entry

\* A change of one file is the change of one entry.
LEMMA MappedExcept ==
  ASSUME IInv, NEW t \in Tasks, NEW f \in File, board' = [board EXCEPT ![t] = f]
  PROVE  Mapped' = [Mapped EXCEPT ![t] = EntryOf(f)]
<1>1. \A u \in Tasks : board'[u] = IF u = t THEN f ELSE board[u]
  BY DEF IInv, TypeOK
<1>2. Mapped' = [u \in Tasks |-> EntryOf(board'[u])]
  BY DEF Mapped
<1>3. [Mapped EXCEPT ![t] = EntryOf(f)]
        = [u \in Tasks |-> IF u = t THEN EntryOf(f) ELSE EntryOf(board[u])]
  BY DEF Mapped
<1> QED BY <1>1, <1>2, <1>3

\* The ledger of the instance is Mapped.
LEMMA LedgerIsMapped ==
  /\ Ledger!Init <=> Mapped = [t \in Tasks |-> None]
  /\ \A t \in Tasks, deps \in SUBSET Ids : Ledger!Create(t, deps) <=>
       /\ Mapped[t] = None
       /\ Mapped' = [Mapped EXCEPT ![t] =
             [status |-> "pending", owner |-> None, blockedBy |-> deps]]
  /\ \A t \in Tasks, o \in Agents : Ledger!Claim(t, o) <=>
       /\ Mapped[t] # None
       /\ Mapped[t].status = "pending"
       /\ \A d \in Mapped[t].blockedBy :
            d \in Tasks /\ Mapped[d] # None /\ Mapped[d].status = "completed"
       /\ Mapped' = [Mapped EXCEPT ![t] =
             [status |-> "in_progress", owner |-> o, blockedBy |-> Mapped[t].blockedBy]]
  /\ \A t \in Tasks : Ledger!Complete(t) <=>
       /\ Mapped[t] # None
       /\ Mapped[t].status = "in_progress"
       /\ Mapped' = [Mapped EXCEPT ![t] =
             [status |-> "completed", owner |-> Mapped[t].owner,
              blockedBy |-> Mapped[t].blockedBy]]
<1>1. Ledger!Init <=> Mapped = [t \in Tasks |-> None]
  BY DEF Ledger!Init, Mapped, EntryOf
<1>2. \A t \in Tasks, deps \in SUBSET Ids : Ledger!Create(t, deps) <=>
       /\ Mapped[t] = None
       /\ Mapped' = [Mapped EXCEPT ![t] =
             [status |-> "pending", owner |-> None, blockedBy |-> deps]]
  BY DEF Ledger!Create, Mapped, EntryOf
<1>3. \A t \in Tasks, o \in Agents : Ledger!Claim(t, o) <=>
       /\ Mapped[t] # None
       /\ Mapped[t].status = "pending"
       /\ \A d \in Mapped[t].blockedBy :
            d \in Tasks /\ Mapped[d] # None /\ Mapped[d].status = "completed"
       /\ Mapped' = [Mapped EXCEPT ![t] =
             [status |-> "in_progress", owner |-> o, blockedBy |-> Mapped[t].blockedBy]]
  BY Zenon DEF Ledger!Claim, Ledger!Done, Mapped, EntryOf
<1>4. \A t \in Tasks : Ledger!Complete(t) <=>
       /\ Mapped[t] # None
       /\ Mapped[t].status = "in_progress"
       /\ Mapped' = [Mapped EXCEPT ![t] =
             [status |-> "completed", owner |-> Mapped[t].owner,
              blockedBy |-> Mapped[t].blockedBy]]
  BY Zenon DEF Ledger!Complete, Mapped, EntryOf
<1> QED BY <1>1, <1>2, <1>3, <1>4

\* A way the board changes is a step of the ledger, or leaves it alone: a
\* binding, and a second completion of the same task.
LEMMA BoardChangeIsLedgerStep ==
  ASSUME IInv, BoardChanges
  PROVE  Ledger!Next \/ Mapped' = Mapped
<1> USE DEF IInv, TypeOK
<1>1. CASE board' = board
  BY <1>1 DEF Mapped
<1>2. ASSUME NEW t \in Tasks, NEW deps \in SUBSET Ids, Creates(t, deps)
      PROVE  Ledger!Next
  <2>1. NewFile(deps) \in File /\ Mapped[t] = None
    BY <1>2 DEF NewFile, File, Creates, Mapped, EntryOf
  <2>2. EntryOf(NewFile(deps))
          = [status |-> "pending", owner |-> None, blockedBy |-> deps]
    BY <2>1, NoneIsNothing DEF EntryOf, NewFile
  <2>3. Mapped' = [Mapped EXCEPT ![t] = EntryOf(NewFile(deps))]
    BY <1>2, <2>1, MappedExcept DEF Creates
  <2>4. Ledger!Create(t, deps)
    BY <2>1, <2>2, <2>3, LedgerIsMapped
  <2> QED BY <2>4 DEF Ledger!Next, Ids
<1>3. ASSUME NEW a \in Agents, NEW t \in Tasks, NEW o \in Agents, Claims(a, t, o)
      PROVE  Ledger!Next
  <2> DEFINE f == board[t]
             g == Claimed(f, o)
  <2>1. /\ f \in File /\ f.status = "pending" /\ Resolved(f.blockedBy)
        /\ board' = [board EXCEPT ![t] = g]
    BY <1>3 DEF Claims
  <2>2. /\ g \in File /\ g.status = "in_progress" /\ g.owner = o
        /\ g.blockedBy = f.blockedBy
    BY <2>1, RuleFields
  <2>3. Mapped' = [Mapped EXCEPT ![t] = EntryOf(g)]
    BY <2>1, <2>2, MappedExcept
  <2>4. /\ Mapped[t] # None /\ Mapped[t].status = "pending"
        /\ Mapped[t].blockedBy = f.blockedBy
    BY <2>1, EntryFields DEF Mapped
  <2>5. EntryOf(g) = [status |-> "in_progress", owner |-> o, blockedBy |-> Mapped[t].blockedBy]
    BY <2>2, <2>4, EntryFields
  <2>6. ASSUME NEW d \in f.blockedBy
        PROVE  d \in Tasks /\ Mapped[d] # None /\ Mapped[d].status = "completed"
    <3>1. d \in Tasks /\ board[d] \in File /\ board[d].status = "completed"
      BY <2>1 DEF Resolved
    <3> QED BY <3>1, EntryFields DEF Mapped
  <2>7. Ledger!Claim(t, o)
    <3> HIDE DEF f, g
    <3> QED BY <2>3, <2>4, <2>5, <2>6, LedgerIsMapped
  <2> QED BY <2>7 DEF Ledger!Next
<1>4. ASSUME NEW t \in Tasks, NEW f \in File, Completes(t, f)
      PROVE  Ledger!Next \/ Mapped' = Mapped
  <2> DEFINE b == board[t]
             g == Completed(f)
  <2>1. /\ f.status = "in_progress" /\ b \in File /\ b.status # "pending"
        /\ b.owner = f.owner /\ b.blockedBy = f.blockedBy
        /\ board' = [board EXCEPT ![t] = g]
    BY <1>4 DEF Completes, Follows
  <2>2. /\ g \in File /\ g.status = "completed" /\ g.owner = f.owner
        /\ g.blockedBy = f.blockedBy
    BY RuleFields
  <2>3. Mapped' = [Mapped EXCEPT ![t] = EntryOf(g)]
    BY <2>1, <2>2, MappedExcept
  <2>4. /\ Mapped[t] = EntryOf(b) /\ Mapped[t] # None /\ Mapped[t].status = b.status
        /\ Mapped[t].owner = b.owner /\ Mapped[t].blockedBy = b.blockedBy
    BY <2>1, EntryFields DEF Mapped
  <2>5. EntryOf(g) = [status |-> "completed", owner |-> Mapped[t].owner,
                      blockedBy |-> Mapped[t].blockedBy]
    BY <2>1, <2>2, <2>4, EntryFields
  <2>6. CASE b.status = "in_progress"
    <3>1. Ledger!Complete(t)
      <4> HIDE DEF b, g
      <4> QED BY <2>3, <2>4, <2>5, <2>6, LedgerIsMapped
    <3> QED BY <3>1 DEF Ledger!Next
  <2>7. CASE b.status = "completed"
    <3>1. EntryOf(b) = EntryOf(g)
      BY <2>1, <2>2, <2>7, EntryFields
    <3> QED BY <2>3, <2>4, <3>1 DEF Mapped
  <2> QED BY <2>1, <2>6, <2>7 DEF File
<1>5. ASSUME NEW t \in Tasks, NEW w \in Names, Binds(t, w)
      PROVE  Mapped' = Mapped
  <2> DEFINE f == board[t]
             g == Bound(f, w)
  <2>1. f \in File /\ board' = [board EXCEPT ![t] = g]
    BY <1>5 DEF Binds
  <2>2. /\ g \in File /\ g.status = f.status /\ g.owner = f.owner
        /\ g.blockedBy = f.blockedBy
    BY <2>1, RuleFields
  <2>3. Mapped' = [Mapped EXCEPT ![t] = EntryOf(g)]
    BY <2>1, <2>2, MappedExcept
  <2>4. EntryOf(g) = EntryOf(f) /\ Mapped[t] = EntryOf(f)
    BY <2>1, <2>2, EntryFields DEF Mapped
  <2> QED BY <2>3, <2>4 DEF Mapped
<1> QED BY <1>1, <1>2, <1>3, <1>4, <1>5 DEF BoardChanges

\* Leaving the worktrees out, the files of the task graph go through the
\* creations, claims and completions of a ledger that has no races at all.
THEOREM Refinement == Spec => ImplementsLedger
<1>1. Init => Ledger!Init
  BY LedgerIsMapped DEF Init, Mapped, EntryOf, Nothing
<1>2. IInv /\ [Next]_vars => Ledger!Next \/ Mapped' = Mapped
  BY BoardChange, BoardChangeIsLedgerStep
<1>3. IInv /\ [Next]_vars
        => [Ledger!Next]_([t \in Tasks |->
               IF board[t] = None THEN None
               ELSE [status |-> board[t].status, owner |-> board[t].owner,
                     blockedBy |-> board[t].blockedBy]])
  BY <1>2 DEF Mapped, EntryOf
<1> QED BY <1>1, <1>3, Invariant, PTL DEF Spec, ImplementsLedger, Ledger!Spec
=============================================================================
