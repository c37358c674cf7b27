----------------------------- MODULE Worktrees -----------------------------
(***************************************************************************)
(* Git worktrees (worktrees/) and the member Runs that work in them.       *)
(*                                                                         *)
(* Tools create, remove and keep worktrees.  Each operation is a sequence  *)
(* of steps on three stores that share no transaction: Git (a directory    *)
(* and a branch), the task files (the binding) and an append-only event    *)
(* journal.  The tools are meant for the lead, but the tool pool of the    *)
(* members is the lead's without the MCP tools (main.py:948), so a member  *)
(* can call them too: op[c] is the operation of caller c.  Members         *)
(* meanwhile claim tasks and write, commit and push in the directory their *)
(* task is bound to.                                                       *)
(*                                                                         *)
(* A Git command is an external program: it may fail, or be killed by its  *)
(* time limit with part of its work done.                                  *)
(***************************************************************************)
EXTENDS Naturals, Sequences, FiniteSets

CONSTANTS Names,      \* worktree names
          NoName,     \* no worktree: the main workspace
          NoDirectory, \* the registry has no directory for the Run
          Tasks,      \* task identifiers
          NoTask,     \* no task
          CallIds,    \* identifiers of tool calls
          NoCall,     \* no call
          Members,    \* members that take work from the task board
          Lead,       \* the session of the lead
          Callers,    \* the lead and the members that call worktree tools
          MaxFaults   \* bound on failing commands, failing writes and crashes

ASSUME WorktreeAssumption ==
    /\ NoName \notin Names
    /\ NoDirectory \notin Names \cup {NoName}
    /\ NoTask \notin Tasks
    /\ NoCall \notin CallIds
    /\ Lead \notin Members
    /\ Callers \subseteq Members \cup {Lead}
    /\ MaxFaults \in Nat

VARIABLES
  place,       \* place[n]: what is at .worktrees/n
  branch,      \* branch[n]: the branch wt/n exists
  edits,       \* edits[n]: git status shows files in .worktrees/n that no
               \* commit has
  commits,     \* commits[n]: commits of wt/n beyond the one it started from
  binding,     \* binding[t]: the worktree in the file of task t
  claimed,     \* tasks a member has claimed
  journal,     \* the events, oldest first
  torn,        \* the journal ends in a line cut off by a crash
  op,          \* op[c]: the worktree operation caller c has in progress
  item,        \* item[m]: the work item member m executes
  at,          \* at[m]: where the runner of m is
  directory,   \* directory[m]: what the registry holds for the Run of m
  cwd,         \* cwd[m]: the directory a tool call of m has checked
  background,  \* commands handed to a thread of their own and not yet run
  astray,      \* <<worktree of a work item, other directory it wrote to>>
  half,        \* history: names an operation stopped on after its first effect,
               \* or two worked on at once, and none has gone through since
  crossed,     \* history: callers whose operation is one of such two
  faults       \* how often something has failed

gitVars    == <<place, branch, edits, commits>>
taskVars   == <<binding, claimed>>
logVars    == <<journal, torn>>
memberVars == <<item, at, directory, cwd, background, astray>>
worktreeVars == <<gitVars, taskVars, logVars, memberVars, op, half, crossed,
                  faults>>

-----------------------------------------------------------------------------
Kinds       == {"create", "remove", "keep"}
Directories == Names \cup {NoName}        \* NoName is the main workspace
Places      == {"none", "worktree", "plain"}

(* worktree-<action>-<call_id>: the same call repeats the same operation.  *)
OperationId(kind, call) == <<kind, call>>

Events == [kind: Kinds, call: CallIds, name: Names, task: Tasks \cup {NoTask}]

NoItem == [task |-> NoTask, worktree |-> NoName]
Idle   == [kind |-> "none", call |-> NoCall, name |-> NoName,
           task |-> NoTask, discard |-> FALSE, step |-> "none"]

OperationStates ==
    [kind: Kinds \cup {"none"}, call: CallIds \cup {NoCall},
     name: Names \cup {NoName}, task: Tasks \cup {NoTask}, discard: BOOLEAN,
     step: {"none", "add", "bind", "inspect", "detach", "unbranch", "confirm",
            "append"}]

(* The event the journal has for an operation.  Whole lines are kept by    *)
(* fsync; a line that does not decode makes every reader raise.            *)
EventsOf(kind, call) ==
    {e \in {journal[i] : i \in DOMAIN journal} :
        OperationId(e.kind, e.call) = OperationId(kind, call)}

(* status --porcelain is empty and no commit is missing upstream, or, when *)
(* there is no upstream, beyond the commit the branch was created from.    *)
IsClean(n) == ~edits[n] /\ commits[n] # "local"

\* Mutant: the branch is not looked at.
ExistingDirectory(n) == place[n] # "none"

(* The directory and the branch are there: what every operation on an      *)
(* existing worktree reads first.                                          *)
ExistingWorktree(n) == place[n] # "none" /\ branch[n]

-----------------------------------------------------------------------------
WorktreeTypeOK ==
    /\ place \in [Names -> Places]
    /\ branch \in [Names -> BOOLEAN]
    /\ edits \in [Names -> BOOLEAN]
    /\ commits \in [Names -> {"none", "local", "pushed"}]
    /\ binding \in [Tasks -> Names \cup {NoName}]
    /\ claimed \subseteq Tasks
    /\ journal \in Seq(Events)
    /\ torn \in BOOLEAN
    /\ op \in [Callers -> OperationStates]
    /\ item \in [Members -> [task: Tasks \cup {NoTask}, worktree: Directories]]
    /\ at \in [Members -> {"idle", "claimed", "running", "writing"}]
    /\ directory \in [Members -> Directories \cup {NoDirectory}]
    /\ cwd \in [Members -> Directories]
    /\ background \subseteq [worktree: Directories, cwd: Directories]
    /\ astray \subseteq Directories \X Directories
    /\ half \subseteq Names
    /\ crossed \subseteq Callers
    /\ faults \in 0..MaxFaults

WorktreeInit ==
    /\ place = [n \in Names |-> "none"]
    /\ branch = [n \in Names |-> FALSE]
    /\ edits = [n \in Names |-> FALSE]
    /\ commits = [n \in Names |-> "none"]
    /\ binding = [t \in Tasks |-> NoName]
    /\ claimed = {}
    /\ journal = <<>>
    /\ torn = FALSE
    /\ op = [c \in Callers |-> Idle]
    /\ item = [m \in Members |-> NoItem]
    /\ at = [m \in Members |-> "idle"]
    /\ directory = [m \in Members |-> NoDirectory]
    /\ cwd = [m \in Members |-> NoName]
    /\ background = {}
    /\ astray = {}
    /\ half = {}
    /\ crossed = {}
    /\ faults = 0

-----------------------------------------------------------------------------
(* How a step of an operation ends.                                        *)

Fault == faults < MaxFaults /\ faults' = faults + 1

Continue(c, step) ==
    /\ op' = [op EXCEPT ![c].step = step]
    /\ UNCHANGED <<half, crossed>>

(* The exception leaves the service; nothing undoes the steps before it.   *)
Raise(c, started) ==
    /\ op' = [op EXCEPT ![c] = Idle]
    /\ half' = IF started THEN half \cup {op[c].name} ELSE half
    /\ crossed' = crossed \ {c}

-----------------------------------------------------------------------------
(* A worktree tool is called.                                               *)

(* A member calls tools in its Run, one after the other.                   *)
Free(c) == op[c] = Idle /\ (c \in Members => at[c] = "running")

(* The journal knows the operation: its event is returned, or, when the    *)
(* arguments differ, an error.  Nothing else happens in either case.       *)
Replay(c, kind, call) ==
    /\ Free(c) /\ ~torn
    /\ EventsOf(kind, call) # {}
    /\ UNCHANGED worktreeVars

(* A journal that does not decode ends every call before it does anything. *)
RefuseTorn(c) ==
    /\ Free(c) /\ torn
    /\ UNCHANGED worktreeVars

(* The identifier is the provider's, of this one call; a call that has left *)
(* no event may be made again.                                             *)
NewCall(call) ==
    /\ \A c \in Callers : op[c].call # call
    /\ \A i \in DOMAIN journal : journal[i].call # call

Begin(c, kind, call, n, t, discard, step) ==
    /\ Free(c) /\ ~torn
    /\ NewCall(call)
    /\ EventsOf(kind, call) = {}
    /\ op' = [op EXCEPT ![c] = [kind |-> kind, call |-> call, name |-> n,
                                task |-> t, discard |-> discard, step |-> step]]
    /\ LET others == {d \in Callers : op[d].name = n} IN
         /\ half' = IF others = {} THEN half ELSE half \cup {n}
         /\ crossed' = IF others = {} THEN crossed ELSE crossed \cup others \cup {c}
    /\ UNCHANGED <<gitVars, taskVars, logVars, memberVars, faults>>

(* The task must be unbound or bound to this very name.                    *)
BeginCreate(c, call, n, t) ==
    /\ t # NoTask => binding[t] \in {NoName, n}
    /\ Begin(c, "create", call, n, t, FALSE, "add")

BeginRemove(c, call, n, discard) ==
    Begin(c, "remove", call, n, NoTask, discard,
          IF discard THEN "detach" ELSE "inspect")

BeginKeep(c, call, n) ==
    Begin(c, "keep", call, n, NoTask, FALSE, "confirm")

-----------------------------------------------------------------------------
(* create: worktree add -b wt/n, then the binding, then the event.         *)

(* Git makes the branch first and the directory after it; a command killed *)
(* in between leaves the branch alone.                                     *)
Add(c) ==
    LET n == op[c].name
        free == place[n] = "none" /\ ~branch[n]
        next == IF op[c].task # NoTask THEN "bind" ELSE "append"
    IN
    /\ op[c].step = "add"
    /\ \/ /\ free
          /\ place' = [place EXCEPT ![n] = "worktree"]
          /\ branch' = [branch EXCEPT ![n] = TRUE]
          /\ commits' = [commits EXCEPT ![n] = "none"]
          /\ Continue(c, next)
          /\ UNCHANGED faults
       \/ /\ ~free
          /\ Raise(c, FALSE)
          /\ UNCHANGED <<place, branch, commits, faults>>
       \/ /\ free
          /\ \E added \in BOOLEAN, branched \in BOOLEAN :
                /\ added => branched
                /\ place' = [place EXCEPT ![n] = IF added THEN "worktree" ELSE @]
                /\ branch' = [branch EXCEPT ![n] = branched]
                /\ Raise(c, branched)
          /\ commits' = [commits EXCEPT ![n] = "none"]
          /\ Fault
    /\ UNCHANGED <<edits, taskVars, logVars, memberVars>>

(* bind_worktree compares again: a task bound to another name meanwhile is *)
(* refused.  A refusal leaves the worktree there, without event.           *)
Bind(c) ==
    LET t == op[c].task IN
    /\ op[c].step = "bind"
    /\ \/ /\ binding[t] \in {NoName, op[c].name}
          /\ binding' = [binding EXCEPT ![t] = op[c].name]
          /\ Continue(c, "append")
          /\ UNCHANGED faults
       \/ /\ binding[t] \notin {NoName, op[c].name}
          /\ Raise(c, TRUE)
          /\ UNCHANGED <<binding, faults>>
       \/ /\ Fault
          /\ Raise(c, TRUE)
          /\ UNCHANGED binding
    /\ UNCHANGED <<gitVars, claimed, logVars, memberVars>>

-----------------------------------------------------------------------------
(* remove: look, remove the directory, delete the branch, then the event.  *)

Inspect(c) ==
    /\ op[c].step = "inspect"
    /\ \/ /\ ExistingWorktree(op[c].name) /\ IsClean(op[c].name)
          /\ Continue(c, "detach")
          /\ UNCHANGED faults
       \/ /\ ~(ExistingWorktree(op[c].name) /\ IsClean(op[c].name))
          /\ Raise(c, FALSE)
          /\ UNCHANGED faults
       \/ /\ Raise(c, FALSE)
          /\ Fault
    /\ UNCHANGED <<gitVars, taskVars, logVars, memberVars>>

(* Git itself refuses to remove a worktree with changes unless it is told  *)
(* to, and refuses a directory that is no worktree.                        *)
Detach(c) ==
    LET n == op[c].name
        able == /\ ExistingWorktree(n) /\ place[n] = "worktree"
                /\ op[c].discard \/ ~edits[n]
        Gone == /\ place' = [place EXCEPT ![n] = "none"]
                /\ edits' = [edits EXCEPT ![n] = FALSE]
    IN
    /\ op[c].step = "detach"
    /\ \/ able /\ Gone /\ Continue(c, "unbranch") /\ UNCHANGED faults
       \/ ~able /\ Raise(c, FALSE) /\ UNCHANGED <<place, edits, faults>>
       \/ able /\ Gone /\ Raise(c, TRUE) /\ Fault
       \/ Raise(c, FALSE) /\ Fault /\ UNCHANGED <<place, edits>>
    /\ UNCHANGED <<branch, commits, taskVars, logVars, memberVars>>

\* Mutant: branch -D whatever was asked for.
DeletableForced(n, discard) == TRUE

(* branch -D when changes may be discarded, else branch -d, which refuses  *)
(* a branch whose commits are nowhere else.                                *)
Deletable(n, discard) == discard \/ commits[n] # "local"

Unbranch(c) ==
    LET n == op[c].name
        able == Deletable(n, op[c].discard)
        Gone == /\ branch' = [branch EXCEPT ![n] = FALSE]
                /\ commits' = [commits EXCEPT ![n] = "none"]
    IN
    /\ op[c].step = "unbranch"
    /\ \/ able /\ Gone /\ Continue(c, "append") /\ UNCHANGED faults
       \/ ~able /\ Raise(c, TRUE) /\ UNCHANGED <<branch, commits, faults>>
       \/ able /\ Gone /\ Raise(c, TRUE) /\ Fault
       \/ Raise(c, TRUE) /\ Fault /\ UNCHANGED <<branch, commits>>
    /\ UNCHANGED <<place, edits, taskVars, logVars, memberVars>>

(* keep reads the worktree and touches neither Git nor the task.           *)
Confirm(c) ==
    /\ op[c].step = "confirm"
    /\ \/ /\ ExistingWorktree(op[c].name)
          /\ Continue(c, "append")
          /\ UNCHANGED faults
       \/ ~ExistingWorktree(op[c].name) /\ Raise(c, FALSE) /\ UNCHANGED faults
       \/ Raise(c, FALSE) /\ Fault
    /\ UNCHANGED <<gitVars, taskVars, logVars, memberVars>>

-----------------------------------------------------------------------------
\* Mutant: name and task in the wrong order.
EventOfSwapped(c) == [kind |-> op[c].kind, call |-> op[c].call,
                      name |-> op[c].task, task |-> op[c].name]

EventOf(c) == [kind |-> op[c].kind, call |-> op[c].call,
               name |-> op[c].name, task |-> op[c].task]

(* The event is written and synced.  When writing it fails, what the       *)
(* operation did stays done and the journal does not know.                 *)
AppendEvent(c) ==
    /\ op[c].step = "append"
    /\ \/ /\ journal' = Append(journal, EventOf(c))
          /\ op' = [op EXCEPT ![c] = Idle]
          /\ crossed' = crossed \ {c}
          /\ half' = IF c \in crossed \/ op[c].kind = "keep" THEN half
                     ELSE half \ {op[c].name}
          /\ UNCHANGED faults
       \/ /\ journal' \in {journal, Append(journal, EventOf(c))}
          /\ Raise(c, op[c].kind # "keep")
          /\ Fault
    /\ UNCHANGED <<gitVars, taskVars, torn, memberVars>>

(* A crash of the process forgets the operation, the Runs, their           *)
(* directories and the commands in the background.  In the middle of the   *)
(* append it may leave a part of a line.                                   *)
Crash ==
    /\ Fault
    /\ op' = [c \in Callers |-> Idle]
    /\ crossed' = {}
    /\ half' = half \cup {op[c].name : c \in
                  {d \in Callers : op[d].step \in {"bind", "unbranch", "append"}}}
    /\ torn' \in IF \E c \in Callers : op[c].step = "append"
                   THEN BOOLEAN ELSE {torn}
    /\ item' = [m \in Members |-> NoItem]
    /\ at' = [m \in Members |-> "idle"]
    /\ directory' = [m \in Members |-> NoDirectory]
    /\ cwd' = [m \in Members |-> NoName]
    /\ background' = {}
    /\ UNCHANGED <<gitVars, taskVars, journal, astray>>

-----------------------------------------------------------------------------
(* A member takes a task: the work item is a snapshot of its binding.      *)
Claim(m, t) ==
    /\ at[m] = "idle"
    /\ t \notin claimed
    /\ claimed' = claimed \cup {t}
    /\ item' = [item EXCEPT ![m] = [task |-> t, worktree |-> binding[t]]]
    /\ at' = [at EXCEPT ![m] = "claimed"]
    /\ UNCHANGED <<gitVars, binding, logVars, op, directory, cwd, background,
                   astray, half, crossed, faults>>

\* Mutant: without its directory a task is done in the main workspace.
ResolvedAnywhere(worktree) ==
    IF worktree # NoName /\ place[worktree] # "none" THEN {worktree} ELSE {NoName}

(* The resolver gives the main workspace to a task without worktree; for a *)
(* task with one the directory must be there, else the Run never starts.   *)
Resolved(worktree) ==
    IF worktree = NoName THEN {NoName}
    ELSE IF place[worktree] # "none" THEN {worktree} ELSE {}

(* The Run is created and its directory entered in the registry.           *)
StartRun(m) ==
    /\ at[m] = "claimed"
    /\ \/ \E d \in Resolved(item[m].worktree) :
             /\ directory' = [directory EXCEPT ![m] = d]
             /\ at' = [at EXCEPT ![m] = "running"]
             /\ UNCHANGED item
       \/ /\ Resolved(item[m].worktree) = {}
          /\ at' = [at EXCEPT ![m] = "idle"]
          /\ item' = [item EXCEPT ![m] = NoItem]
          /\ UNCHANGED directory
    /\ UNCHANGED <<gitVars, taskVars, logVars, op, cwd, background, astray,
                   half, crossed, faults>>

(* What a tool call of a Run gets from the registry: a Run that is not in  *)
(* it works in the main workspace.                                         *)
RunDirectory(m) == IF directory[m] = NoDirectory THEN NoName ELSE directory[m]

Present(d) == d \in {NoName} \cup {n \in Names : place[n] # "none"}

(* The Run of m is between two tool calls.                                 *)
Working(m) == at[m] = "running" /\ (m \in Callers => op[m] = Idle)

(* A file tool checks that its directory is there ...                      *)
OpenFile(m) ==
    /\ Working(m)
    /\ Present(RunDirectory(m))
    /\ cwd' = [cwd EXCEPT ![m] = RunDirectory(m)]
    /\ at' = [at EXCEPT ![m] = "writing"]
    /\ UNCHANGED <<gitVars, taskVars, logVars, op, item, directory, background,
                   astray, half, crossed, faults>>

(* What writing in a directory does.  write_file makes missing parents: a  *)
(* worktree removed after the check comes back as a plain directory.  A     *)
(* file that Git ignores is shown to nobody.                               *)
Own == {<<n, n>> : n \in Directories}

Written(d, worktree) ==
    /\ astray' = astray \cup ({<<worktree, d>>} \ Own)
    /\ IF d = NoName THEN UNCHANGED <<place, edits>>
       ELSE /\ \E shown \in BOOLEAN : edits' = [edits EXCEPT ![d] = @ \/ shown]
            /\ place' = [place EXCEPT ![d] = IF @ = "none" THEN "plain" ELSE @]

(* ... and writes there.  edit_file needs its file and raises without it.  *)
WriteFile(m) ==
    /\ at[m] = "writing"
    /\ \/ Written(cwd[m], item[m].worktree)
       \/ /\ ~Present(cwd[m])
          /\ UNCHANGED <<place, edits, astray>>
    /\ at' = [at EXCEPT ![m] = "running"]
    /\ cwd' = [cwd EXCEPT ![m] = NoName]
    /\ UNCHANGED <<branch, commits, taskVars, logVars, op, item, directory,
                   background, half, crossed, faults>>

(* A command in the foreground: git commit and git push in the worktree.   *)
Commit(m) ==
    LET n == RunDirectory(m) IN
    /\ Working(m)
    /\ n # NoName /\ place[n] = "worktree" /\ branch[n] /\ edits[n]
    /\ edits' = [edits EXCEPT ![n] = FALSE]
    /\ commits' = [commits EXCEPT ![n] = "local"]
    /\ UNCHANGED <<place, branch, taskVars, logVars, memberVars, op, half, crossed,
                   faults>>

Push(m) ==
    LET n == RunDirectory(m) IN
    /\ Working(m)
    /\ n # NoName /\ place[n] = "worktree" /\ branch[n] /\ commits[n] = "local"
    /\ commits' = [commits EXCEPT ![n] = "pushed"]
    /\ UNCHANGED <<place, branch, edits, taskVars, logVars, memberVars, op,
                   half, crossed, faults>>

(* A command in the background takes the directory along as it is started. *)
StartBackground(m) ==
    /\ Working(m)
    /\ background' = background \cup
         {[worktree |-> item[m].worktree, cwd |-> RunDirectory(m)]}
    /\ UNCHANGED <<gitVars, taskVars, logVars, op, item, at, directory, cwd,
                   astray, half, crossed, faults>>

(* It runs when its thread does, perhaps after the Run has ended.  Without *)
(* its directory it fails to start.                                        *)
BackgroundDirectory(b) == b.cwd

RunBackground(b) ==
    LET d == BackgroundDirectory(b) IN
    /\ b \in background
    /\ background' = background \ {b}
    /\ \/ Present(d) /\ Written(d, b.worktree)
       \/ ~Present(d) /\ UNCHANGED <<place, edits, astray>>
    /\ UNCHANGED <<branch, commits, taskVars, logVars, op, item, at, directory,
                   cwd, half, crossed, faults>>

(* The Run ends or raises: its directory leaves the registry either way.   *)
EndRun(m) ==
    /\ Working(m)
    /\ at' = [at EXCEPT ![m] = "idle"]
    /\ item' = [item EXCEPT ![m] = NoItem]
    /\ directory' = [directory EXCEPT ![m] = NoDirectory]
    /\ UNCHANGED <<gitVars, taskVars, logVars, op, cwd, background, astray,
                   half, crossed, faults>>

-----------------------------------------------------------------------------
BeginOperation ==
    \E c \in Callers, call \in CallIds, n \in Names :
        \/ \E t \in Tasks \cup {NoTask} : BeginCreate(c, call, n, t)
        \/ \E discard \in BOOLEAN : BeginRemove(c, call, n, discard)
        \/ BeginKeep(c, call, n)
        \/ \E kind \in Kinds : Replay(c, kind, call)
        \/ RefuseTorn(c)

OperationStep ==
    \E c \in Callers :
        \/ Add(c) \/ Bind(c) \/ Inspect(c) \/ Detach(c) \/ Unbranch(c)
        \/ Confirm(c) \/ AppendEvent(c)

MemberStep ==
    \/ \E m \in Members :
         \/ \E t \in Tasks : Claim(m, t)
         \/ StartRun(m) \/ OpenFile(m) \/ WriteFile(m)
         \/ Commit(m) \/ Push(m) \/ StartBackground(m) \/ EndRun(m)
    \/ \E b \in background : RunBackground(b)

WorktreeNext == BeginOperation \/ OperationStep \/ MemberStep \/ Crash

WorktreeSpec == WorktreeInit /\ [][WorktreeNext]_worktreeVars

-----------------------------------------------------------------------------
(* Work of a member disappears only by a removal that was told to discard  *)
(* it: neither a file written nor a commit made after the inspection       *)
(* (worktrees/service.py:113) is lost, for Git looks again, at the files   *)
(* when the directory goes and at the commits when the branch goes.  Files *)
(* that Git ignores are outside: both looks pass them over, and they go    *)
(* with the directory.                                                     *)
WorkOnlyDiscarded ==
    [][\A n \in Names :
          \/ \E c \in Callers :
                op[c].kind = "remove" /\ op[c].name = n /\ op[c].discard
          \/ /\ edits[n] => edits'[n] \/ commits'[n] = "local"
             /\ commits[n] = "local" => commits'[n] # "none"]_worktreeVars

(* The last event about a worktree is not its removal.                     *)
Recorded(log, n) ==
    \E i \in DOMAIN log :
        /\ log[i].name = n /\ log[i].kind # "remove"
        /\ \A j \in DOMAIN log : j > i => log[j].name # n

(* The journal tells what Git has: a worktree whose last event is a        *)
(* creation or a keep is there with its branch, one without event or       *)
(* removed last is not.  The three stores are written one after the other  *)
(* (worktrees/service.py:79): the journal may be wrong about a name an     *)
(* operation stopped on half way or two worked on at once, but only until  *)
(* a creation or a removal of that name, alone on it, goes through; a      *)
(* member may write there at any time.                                     *)
JournalTellsGit ==
    \A n \in Names \ half :
        (\A c \in Callers : op[c].name # n) =>
            IF Recorded(journal, n) THEN place[n] = "worktree" /\ branch[n]
            ELSE place[n] # "worktree" /\ ~branch[n]

(* What the tool calls of a task's Run write, they write in the worktree    *)
(* the task was bound to when it was claimed, never in the main workspace   *)
(* instead: not when the worktree is removed before the Run starts          *)
(* (worktrees/adapters/directory.py:42), nor in a command that runs in the  *)
(* background after the registry has forgotten the Run                      *)
(* (tools/builtin/bash.py:76).  A subagent of it is a Run of its own, of    *)
(* which the registry knows nothing.                                       *)
RunsInItsWorktree == astray = {}
=============================================================================
