----------------------------- MODULE TaskLedger -----------------------------
(***************************************************************************)
(* What the task graph promises to the agents that share it, without the   *)
(* files, the snapshots and the races of TaskService: a task is created    *)
(* pending, is claimed by one owner once everything it is blocked by is    *)
(* completed, and is completed at most once.  Nothing is ever taken back.  *)
(* TaskBoard implements this specification.                                *)
(***************************************************************************)
CONSTANTS
  Tasks,   \* the tasks that may come to exist
  Ids,     \* the identifiers a blocked_by list may name, Tasks among them
  Agents,  \* who may own a task
  None     \* "not there": no entry, no owner

VARIABLE ledger  \* what is recorded of each task

Entry == [status : {"pending", "in_progress", "completed"},
          owner : Agents \cup {None},
          blockedBy : SUBSET Ids]

TypeOK == ledger \in [Tasks -> Entry \cup {None}]

Done(t) == t \in Tasks /\ ledger[t] # None /\ ledger[t].status = "completed"

Init == ledger = [t \in Tasks |-> None]

Create(t, deps) ==
  /\ ledger[t] = None
  /\ ledger' = [ledger EXCEPT ![t] =
        [status |-> "pending", owner |-> None, blockedBy |-> deps]]

Claim(t, o) ==
  /\ ledger[t] # None
  /\ ledger[t].status = "pending"
  /\ \A d \in ledger[t].blockedBy : Done(d)
  /\ ledger' = [ledger EXCEPT ![t] =
        [status |-> "in_progress", owner |-> o, blockedBy |-> @.blockedBy]]

Complete(t) ==
  /\ ledger[t] # None
  /\ ledger[t].status = "in_progress"
  /\ ledger' = [ledger EXCEPT ![t] =
        [status |-> "completed", owner |-> @.owner, blockedBy |-> @.blockedBy]]

Next ==
  \E t \in Tasks :
    \/ \E deps \in SUBSET Ids : Create(t, deps)
    \/ \E o \in Agents : Claim(t, o)
    \/ Complete(t)

Spec == Init /\ [][Next]_ledger
=============================================================================
