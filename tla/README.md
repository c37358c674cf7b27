# Specifications of CliAgent (`local_dev_agent`)

CliAgent is a local coding agent: a command line loop that turns prompts into *Runs* of a
model and its tools, with a persistent task graph, scheduled prompts, a team of member
agents that work in threads of their own, background commands and Git worktrees. Almost all
of its state is JSON files that several threads read and replace. What is hard in it is not
any one function but the order in which those threads and files meet, and what an exception
or a crash leaves half done. That is what these modules are about.

Code paths below are relative to `src/src/local_dev_agent/`.

- [Inventory](#inventory): the parts of the system
- [Modules](#modules): which module models what, and how it corresponds to the code
- [Runs](#runs): what TLC checks, bounds, fairness
- [Disagreements found](#disagreements-found)
- [Proofs](#proofs)
- [Plan](#plan): what comes next
- [Not modelled](#not-modelled)

## Inventory

### Threads

| Thread | Started by | Holds the execution gate | Runs on session |
|---|---|---|---|
| foreground loop | `main` | while it executes a prompt | the CLI session |
| cron scheduler | `cron/threading.py` | never | none: it only enqueues triggers |
| cron processor | `cron/threading.py` | while it executes a trigger | the CLI session |
| team lead runner | creation of a team | while it executes its messages, if the gate is free at once | the CLI session |
| one runner per member | `add_teammate` | never | a session of its own |
| one thread per background command | `background_tasks/service.py` | never | none |

The gate (`cron/execution_gate.py`) is one lock that keeps the three users of the CLI
session apart. Members do not take it, and they have the parent's tools: task, cron, file
and team operations of a member run at the same time as those of the foreground.

### Components

| Component | State it keeps | Operations | Interacts with | What is hard | What makes it correct | Module |
|---|---|---|---|---|---|---|
| `tasks/` task graph | one JSON file per task | create, claim by id, claim next, complete, bind a worktree, list | task tools, member runners, worktrees | reads without lock, compare-and-replace loops, a blind `replace` in `complete_task` | one claim wins, dependencies first, nothing is undone, unblocked tasks are reported, loops end | `TaskBoard` |
| `cron/` scheduled prompts | `scheduled_tasks.json`, a table in memory, the queue, the process's markers | schedule, cancel, tick, process | cron tools, gate, `execute_prompt` | a file rewritten without lock, trigger before mark, failing Runs, a listing that kills its thread, two kinds of days | due when the expression says, once per minute, once for one-shots, in order, drained | `CronExpression`, `CronScheduler` |
| `runtime/`, `domain/` Runs | the session, Run and Step files, the conversation | handle a prompt, execute turns | model, tools, hooks, memory | an exception or crash between any two saves; nothing recovers | files agree with each other; conversation well formed; gate comes back | `AgentRun` |
| `recovery/` model calls | the recovery state of a Run, in memory | retry, fall back, rebuild, escalate, continue | model adapter, context | three nested loops, each with state of its own | bounded calls, fallback after consecutive overloads, budget kept | `ModelCall` |
| `context/` | results kept in files, the summary checkpoint | restore, budget, snip, shorten, summarise, rebuild | Runs, model calls | rules that follow one another, each with exceptions at its edges; messages that are never on file | each request tells the whole story in order; the checkpoint stays usable | `Conversation` |
| `background_tasks/` | commands in memory, delivered identifiers | start, end, drain | Runs | drained before it is saved | announced once, or drained by a Run that failed | `Conversation` |
| `teams/` inboxes and runners | inbox, assignment, protocol and team files | create the team, add members; assign, send, request shutdown; reserve, dispatch, run, report, acknowledge, release; claim, execute, verify, report | Runs of members and lead, task board | at-least-once delivery, a step that fails between two others, stop in the middle of a batch | result before acknowledgement; a confirmed stop holds; the lead learns what became of every task taken | `TeamInbox` |
| `worktrees/` | Git worktrees, journal, the binding in the task, the registry of the Runs' directories | create, remove, keep, replay; bind, resolve, release | task graph, Git, member Runs | three stores written one after the other while members write in the directories | work disappears only if told to; the journal tells what Git has; a Run writes in its own worktree | `Worktrees` |
| `mcp/` | connections, clients, tools in the registry | connect, list, register, call | tools, external servers | a server answers late, twice, never, or not what was asked | connecting is all or nothing; a call returns its own answer | `McpClient` |
| `memory/` | one Markdown file per memory | load, extract, consolidate | Runs, the model | a set of files replaced one by one, by two loops | what was saved is in some file at every moment | `MemoryStore` |
| `tools/`, `hooks/`, `permissions/`, `subagents/`, `todos/` | the pools, the todo list, the reminder's counter, the subagent's session | execute a call, ask the user, delegate, remind | Runs, the user, MCP | exceptions on every level, a Run inside a tool call | a tool runs only if everything let it through; the result tells what happened | `ToolCalls` |
| `storage/` | the files of the above | save, get, append | all | load then write without lock | through the modules of its users | `AgentRun`, `Conversation` |
| `models/` | none | generate | provider | error mapping | external answers | `ModelCall` |
| `skills/`, `system_prompt/`, `observability/` | none, but for a cache | | | | | none |

## Modules

### `TaskLedger` and `TaskBoard`: the task graph

`TaskLedger` is what the task graph promises: tasks are created pending, claimed by one
owner when all they are blocked by is completed, and completed. `TaskBoard` is
`TaskService` over `JsonFileTaskRepository`. `board[t]` is the snapshot in the file of `t`;
an agent is a thread with at most one operation in progress, whose step is `pc[a]` and whose
locals are `cur`, `arg`, `seen`, `todo` and `before`. Each file operation is one step: `add`,
`replace` and `compare_and_replace` hold the directory's lock, a read takes a file that was
replaced by rename. So `claim_task` is `ClaimGet`, `ClaimCheck`, `ClaimSwap` and back;
`claim_next_task` reads the files one after the other (`ListRead`), filters them
(`Filter`) and tries each (`TryNext`); `complete_task` is a read, the claimable tasks before,
a blind `replace`, the claimable tasks after; `bind_worktree` is read and swap. `Restart`
loses every operation in progress, keeps the files.

One reduction is made: the dependencies of a task are read in one step although each has
its own file. A completed task stays completed (this is part of what is proved), so a mixed
reading gives the same answer as an atomic one at the moment of the read that decided it.

`winners` and `announced` are history variables: who was told that a claim succeeded, and
which tasks were reported as unblocked. Subjects, descriptions and timestamps are left out.

### `CronExpression` and `CronScheduler`: scheduled prompts

`CronExpression` is the parser and the matcher: a field is written in one of five forms,
`Accepted` is what the parser takes, `Allowed` the values it stands for, `Matches` the rule of
day and weekday. It is pure. `FiresAsWritten` compares it, in the runs and in the proof, with a
definition of its own (`Names`) that is read from cron's manual and not from the code. In one
point the manuals differ and `Names` takes the side of the code: a day field written `*/n` counts as
restricted, where newer manuals count every field that begins with a star as unrestricted.

In `CronScheduler` a job stands for the arguments of one `schedule` call. `file` is
`scheduled_tasks.json` and `memory` the session-only table: for each job its
`last_enqueued_minute`, or nothing. The file is loaded and replaced without a lock, so each of
its operations is two steps: `Load` puts into `writing[w]` what thread `w` will write, `Write` and
`TickWrite` replace the file; the table has a lock, and an operation on it is one step
(`Remember`). The scheduler's thread is `TickBegin`, `TickList`, and per job `TickCheck`,
`TickRecord`, `TickWrite`; `marked` and `retired` are its memory of what it enqueued.
`ProcessBegin` and `ProcessEnd` are `process_once` around the Run, `OtherBegin` and `OtherEnd`
the other holders of the gate. `get` and `remove` of a cancel are one load: the second load of
the code decides, and a definition that vanished between the two ends in the same answer, or
writes nothing. `Restart` leaves the file alone; it also stands for stopping and starting the
two threads.

### `AgentRun`: one prompt after the other

`execute_prompt`, save by save: `HandleGet` (which refuses a session with an active Run),
the three saves of `handle`, the two Run transitions and the Step that begin `execute`, then
turns: `Respond` appends the assistant's message; tool calls each have a Step that is
created, started and finished; `AppendResults` appends the results and looks at the limit.
`EndRun` and `FreeSession` are the last two saves, whether the Run is completed or
exhausted. `active`, `status`, `steps` and `log` are the files of the session, the Runs, the
Steps and the conversation. `Raise` is any exception and any crash of the process at once:
both leave the files as they are, and the gate free for the next thread. A model call is one
answer here; `ModelCall` looks inside.

### `ModelCall`: the calls of one turn

`_generate` and `recovery/`. `Prepare` builds a request and sends it, `TransientError` is the
decision of the executor, `ContextExceeded` the request built a second time, `Respond` what
the loop does with an answer in each `stage`: the first request of the turn, the retry with
the higher budget, and the continuations. `kept` is the recovery state the loop carries from
call to call, `current` the one inside the executor: that they are two variables is the
point. Whether there is a fallback model, and whether the budget can be raised, is chosen in
the initial state. The policies of budget and continuation are always there, as `main.py`
installs them. The provider is external and may answer anything at any time.

### `TeamInbox`: the team, its inboxes and runners

`roster` is who has a file in the team's directory, and `hiring` the tool call that adds one: the file of
the team, then the lead's (`CreateTeam`, `EnterLead`), a member's (`AddTeammate`), and last the thread
of the runner (`StartRunner`). A member can be sent to from its file on. Its session is any that the
model names, also one on which no Run can start. There is one team: a call of `create_team` that
failed halfway is made again for another one.

`inbox[r]` is the file of member `r`, oldest first, each message with its kind, what it is
about (its idempotency key) and its delivery status. A runner reserves a batch (`Reserve`),
dispatches it message by message (`Dispatch`), acknowledges what was the protocol's
(`AcknowledgeSystem`), then runs the agent on the rest (`Run`), reports and acknowledges.
Every file operation may raise, and each such failure is an action of its own
(`DispatchFails`, `ReportFails`, ...) that leads where the code's `except` leads; an
exception of `reserve_unread` ends the thread. `held`, `todo` and `agent` are the
runner's locals: what it has reserved and not given back, not yet dispatched, and will hand
to the agent. `Settle` is where the lead needs the gate at once or releases its batch, and
where a member that was asked to stop releases what is left. The members' sessions are
abstracted to `wedged`: a session whose Run raised and is active for ever, as `AgentRun` shows, or
that never took one. The lead's release after a failed Run and the release of the gate that follows it
are one step. The tools that send messages are two steps each (record, then message) and may
be repeated, as a retried tool call does with the same identifier.

A member whose inbox is empty takes a task from the board (`ClaimWork`), runs it (`DoWork`), and
reads the task again to tell the lead whether it is completed (`Tell`); `work` is the status and
owner in the task's file, `doing` the runner's task and Run, and `CompleteWork` the tool that any
agent may call. Each of the three may raise. The races for a task are those of `TaskBoard`; here
claiming is one step, and so is reading the inbox and claiming, or reading the task and sending:
none of them depends on what others can do in between. `untold` is history: the tasks whose
verdict was lost in an exception.

### `Worktrees`: Git, task files and the journal

`place`, `branch`, `edits` and `commits` are what Git and the file system have for each name;
`binding` is in the task's file; `journal` is the log of events, `torn` a last line cut off. An
operation in progress is `op[c]`, one for each of the callers: the docstring of the tools reserves them for
the lead, but `main.py:952` gives the members the lead's pool without the MCP tools, so a member may call them in the middle of
its Run, and two operations on one name may overlap. `create` is `Add`, `Bind`, `AppendEvent`; `remove` is `Inspect`,
`Detach`, `Unbranch`, `AppendEvent`; `keep` is `Confirm`, `AppendEvent`. Each step may raise, before or after
its effect, and a crash may come between any two; nothing is undone. `half` and `crossed` are history: the names
about which the journal may be wrong, because an operation stopped after its first effect or two worked at once,
and the operations that met another on their name. A creation or removal that goes through without meeting another
takes its name out of `half`. `Replay` returns the event of the same call; with a torn line every operation
refuses (`RefuseTorn`).

Members claim a task with a snapshot of its binding, resolve the directory, enter it in
the registry and write: a file tool checks its directory (`OpenFile`) and writes later
(`WriteFile`), which may bring a removed directory back as a plain one; a command commits or pushes, or takes
its directory along to a thread of its own (`StartBackground`, `RunBackground`) and may run after the registry has
forgotten the Run. Git is external: its refusals (uncommitted files, a branch whose
commits are nowhere else) are taken from how the gateway calls it. A write is one that Git sees or one that it
ignores: `edits` and `commits` are about the first kind only.

### `McpClient`: servers and calls

The lead has one call in progress (`call`): the handshake, the listing of one page after another, or a tool
call. Requests to a process go through a pipe (`asked` is the set of those it was ever sent), and what it sends
comes through a queue that a thread fills (`queue`): it answers any of them, late, again, in any order or never, sends
notifications and exits, all as it likes. Over HTTP, an exchange
is one step. `Read` takes the next message, `GiveUp` is the timeout, after which the answer may still
come. `Register` enters all tools of a server at once or none; `CloseAfterFailure` is the
`except` of connecting. `answers` is history: which call was given which answer.

### `MemoryStore`: long-term memory

`files` maps names to facts. Each loop loads a selection, runs, and after a completed Run extracts, saves one
file at a time, and consolidates: it lists, asks the model for a new set, lists again, writes each new file and
unlinks what the second listing had and the new set has not. No lock orders the two loops, so each write
and each unlink is a step. `owed` is history: the facts that must be in a file. The facts that a
consolidation leaves out, or moves out of a memory it keeps, are no longer owed, nor those that a loop
overwrites or unlinks while another is at work (`alone`): the code does not protect those.

### `Conversation`: transcript, requests, checkpoint and announcements

A message is its kind and its place. `transcript` and `checkpoint` are files, `artifacts` the results
kept in files of their own; `extra` are the messages of a continued answer, which are in memory only;
`view` is the request. `AskPlainly` and `AskSummarised` are the pipeline of `context/manager.py`:
`Restored`, `Budgeted`, `Snip`, `Shorten`, and where it is too long `SaveCheckpoint` and the pipeline again. What is too long is
open, because sizes are not numbers here. `RejectRequest` and `TruncateAnswer` are the recoveries that change what
the next request is made of. Commands start in tools, end on their own (`EndCommand`) and are drained
twice a turn (`BeginRun`, `EndTools`), one step before the message that carries them is
appended; `dropped` is history: what a Run drained that then failed. `AnnouncedOnce` says that none is told twice or
told and dropped; that none is dropped is `AnnouncementReaches`, which does not hold.

### `ToolCalls`: calls, questions, subagents, reminders

`frames[t]` is the stack of thread `t`: its call and, below a `task` call, that of its subagent.
`Enter` looks the tool up in the pool of its loop (the lead's, the team's, a subagent's), checks its
arguments and asks; `SayYes`, `SayNo` and `HookRaises` are the user and the terminal; `ToolRaises`, `ToolSucceeds`
and `Delegate` the tool. `child` is the Run of the subagent on file, and `told` the
result the parent's model is given. A subagent's Run that is completed and free may still fail the call: a blank
answer makes no result (`CloseChild`, `subagents/schema.py:98`).

`main.py` makes two loops, each with a pool and a reminder counter of its own (`AgentLoops`): the lead's, for
the foreground and the cron processor, and the team's, without the MCP tools, for all members and for the
Runs of the lead's own inbox runner (`main.py:532-558`, `948-962`). `on[t]` is the loop of the Run of `t`; a request of the
lead may be on either (`SendRequest(t, l)`), since where one of its Runs ends and the next begins is not told apart here. `EndTurn` and
`SendRequest` count towards the reminder of that loop. `since` is history: the turns of each loop since a new
list or a reminder. What a loop promises is therefore about its turns and not about a Run's: the counter that
members share is reset by any of them, and the turns of the lead are divided over two.

### `MCSession` and `MCRuns`: parts side by side

`McpClient`, `MemoryStore`, `Conversation` and `ToolCalls` share no state, so an invariant of one is an
invariant of all together exactly if it is one of that part. `MCSession` puts them side by side and
lets one of them run: the states are the sum of theirs and not the product. `MCRuns` does the same with
`ModelCall` and `Worktrees`.

## Runs

| Run | Instance | What it shows |
|---|---|---|
| `task_board` | 2 agents (interchangeable), 2 tasks, 1 worktree name, an unknown dependency | `DependenciesFirst`, `ClaimedOnce`, `ImplementsLedger`: with all operations of both agents interleaved |
| `task_board_mid` | 2 agents, 3 tasks, 1 worktree name, starting from two claimed and bound tasks that block the third; 1 crash | `UnblockAnnounced`: overlapping completions do not both miss the task they unblock together; `OperationsEnd`: both compare-and-replace loops, of a claim and of a binding, end although the other agent may win |
| `cron_scheduler` | 4 jobs (durable recurring, durable one-shot, session-only, refused), the 2 minutes over the turn of a month, 1 caller, 1 failure or crash, 1 other Run | `TriggeredOnce`, `FiresAsWritten`, `DeliveredInOrder`, `QueueDrains`, `DueIsTriggered` |
| `agent_run` | 2 threads, 2 Runs, 2 turns, up to 2 tool calls | `ActiveRunIsSaved`, `BegunRunIsActive`, `EndedRunHasNoOpenStep`, `ToolCallsAreAnswered`, `PromptEnds` |
| `runs` | responses: 2 turns, 3 overloads, 3 continuations (as in the code), 4 retries; worktrees: 1 name, 1 task, 4 call identifiers (interchangeable), the lead and 1 member both calling the tools, 1 failure or crash | `CallsBounded`, `FallbackAfterOverloads`, `BudgetKept` (responses), `WorkOnlyDiscarded`, `JournalTellsGit`, `RunsInItsWorktree` (worktrees) |
| `team_inbox` | 1 member and the lead, 1 assignment, 1 plain message sent while the inbox is empty (`MaxAhead`), 1 shutdown, 1 chore on the board, the team created and the member added first; batches of 2, 1 failing operation, 1 failing Run | `ConsumedHasResult`, `ConfirmedStopHolds`, `WorkAccounted`, `AssignmentHandled`: a step that fails between two others loses no result, an assignment is consumed in the end, or its runner has ended, its session takes no Run or its release raised, and the lead learns the truth about every task taken |
| `session` | see `MCSession.cfg`: 3 servers, two of them of one name; 2 loops, 2 memories, 2 facts; 3 Runs of 2 turns, 7 messages, 1 command; a lead, who delegates, on two loops and a member on one of them | `ConnectsWholly`, `OwnAnswer` (MCP), `FactsKept` (memory), `ViewFaithful`, `CheckpointIsPrefix`, `AnnouncedOnce` (conversation), `ToldAsHappened`, `RemindedInTime` (tools) |
| `task_board_binding`, `cron_definitions`, `model_fallback`, `team_redelivery`, `notices` | | each refutes one statement, see below |

The bounds are named constants. They are chosen so that the smallest instance of every
conflict is inside: two agents are enough for each race of the task files (a third
one can only repeat the part of either, and the proofs cover any number); three tasks let two
completions unblock a third; the two minutes lie in two hours, days, months and weekdays, and
let a job be due again after its mark was lost; two Runs let the second meet everything the
first may leave; four retries allow a second row of three overloads to begin within one
request; one call that raises is what it takes to lose a message, as the release after a Run
that failed. A plain message is sent while the
inbox is empty: it is then worked on before the assignment or in one batch with it, and what
follows a shutdown request, and is left, is the assignment. With one worktree name and four call identifiers an operation meets another one on
the same name, its own retry, and a member in the directory, a name is created and removed twice, and what an
overlap left wrong is made right by a third call; the provider gives each call an identifier of its own; what several names have of each
other, that a task bound to one refuses the second, is left out. Two MCP servers of one normal
name meet in the registry, and three calls let a late or repeated answer be read by a later one, before or after
its own, in a queue of two. Three Runs
and seven messages are long enough for a view to be snipped in its middle, for a large result to
be in what is kept or shortened, and for a summary to be made of a view that begins with one. `MaxRestarts`,
`MaxFailures`, `MaxFaults` and `MaxFails` bound how often the environment fails, not how the code
reacts.

`CHECK_DEADLOCK FALSE` is set where the system may really stop: the scheduler's thread dead and
nobody scheduling, a session with its Runs used up, a team with nothing to do, in `runs` a Run that ended
and worktree calls used up, and in `session` and `notices` the calls, Runs and prompts used up. The two positive
runs of the task board check deadlock.

**Fairness.** A thread with an operation in progress is scheduled again (`TaskBoard!Step`,
`CronScheduler!SchedulerStep`, `TeamInbox!MemberStep`, and `StartRunner`, the rest of a tool call): weak fairness, since each of these
steps stays enabled until it is taken. Each step of `AgentRun` returns or raises: the model
client has a timeout and tools have limits. Where a tool asks the user, this assumes that the user answers:
`input()` has no timeout, and a question nobody answers keeps the gate. Beginning operations is never fair: nobody need
call a tool. `ProcessBegin` needs the gate; with weak fairness alone, others could keep it for
ever, and `QueueDrains` therefore holds because the other Runs are finite in number
(`MaxPrompts`). No fairness is assumed of the lead: it only tries the gate, so that the code
gives no such guarantee, and no property depends on it. `runs`, `session` and `notices` assume none:
their properties are about safety.

## Disagreements found

- `task_board_binding` refutes `BindingKept`. `complete_task` (`tasks/service.py:184`) writes
  by `replace` a snapshot read earlier and erases a worktree bound in between;
  `HANDOFF.md:23` says that completing keeps the binding.
- `cron_definitions` refutes `OneDefinitionChanges`. Every change of `scheduled_tasks.json` loads it
  and rewrites it without a lock (`cron/json_repository.py:63`): a mark by the scheduler and a
  cancel by a tool undo each other. `TriggeredOnce` holds all the same, because the scheduler
  remembers in memory; after a restart nothing remembers.
- `model_fallback` refutes `FallbackKept`. After the context window was exceeded, the second request
  starts from the recovery state of before the first (`runtime/loop.py:672`), so a switch to
  the fallback made in between is forgotten; `recovery/transient.py:67` says the state is kept
  across calls.
- `team_redelivery` refutes `RedeliveryWorks`. An exception leaves the session with an active Run, so
  every redelivery to that member is refused; `teams/json_inbox_repository.py:164` says that a
  release lets the input of a failed Run be delivered again.
- `notices` refutes `AnnouncementReaches`. Ends of commands are marked as delivered when they are drained
  (`background_tasks/notifications.py:34`); a Run that fails before it has saved the message with them takes them
  with it. `src/README.md:71-72` says that notices are delivered once, in a later request. The same exception
  leaves the session active (see `AgentRun`), so within the process no later request of that session would carry
  them; but they are also no longer there to be carried.

Two more were met that are about how parts are wired, not about an order of steps, so no run
refutes them; the models follow the code. The docstring of `tools/builtin/worktree_tools.py`
reserves the worktree tools for the lead, but `main.py:952` builds the members' pool from the
lead's without the MCP tools only: `Worktrees` lets members call them. `src/README.md:93` has
the todo list hold the steps of the current Run; all loops write the same one.

## Proofs

TLAPS checks these for every value of the constants that satisfies the assumptions of the
modules: distinct sentinels, positive bounds, tasks ordered like numbers. Two say more of the
code: the Runs on the CLI session exclude one another, since the gate does that, so `ToolCalls`
has one lead thread, which changes loops (`ToolCallsAssumption`); and the messages of one Run, of which the limits of turns
and continuations leave at most 2 * (10 + 3) - 1, fit into the tail of a snipped view of 50 messages
with a head of 3 (`ConversationAssumption`). Every invariant the runs check is also a theorem, but
for the five statements that the code refutes.

**`TaskBoardProofs`**: `TypeCorrect`, `WorkAfterDependencies`, `OneClaimWins`,
`UnblockedAreAnnounced`, `Refinement`.
None of the properties is inductive alone, because the operations act on snapshots taken
earlier. The strengthening says what a snapshot is worth: a file held in `seen` is an earlier
state of the file on disk, in the order pending, in progress, completed, with the same
dependencies (`Follows`). Hence a stale completion writes over an in-progress or completed
file only, a successful compare means that nobody claimed in between, and dependencies that
were resolved stay resolved. `DependenciesFirst` follows from `ResolvedStays`, `ClaimedOnce` from the
fact that a pending file has no winner. For `UnblockedAreAnnounced`, `AboutToBeTold` says that an
unblocked task nobody was told of is one that some completion, past its replacement and before its second
listing, had not seen as claimable in its first; the completion that writes last is such a one, because what
a first listing noted stays resolved (`NotedIsResolved`). `Refinement` maps each change of `board` to a step of
`TaskLedger` (`BoardChangeIsLedgerStep`) and everything else, bindings included, to a stutter.

**`AgentRunProofs`**: `RunTypeCorrect`, `SessionNamesSavedRun`, `SessionKeepsBegunRun`,
`EndedRunIsClosed`, `ConversationWellFormed`. The inductive invariant says, for each place in
the code, what is in the files (`Phases`), which Step is open (`Stepping`), which message is
last (`Talking`), and what holds of every Run that is not being executed (`AtRest`). It is needed
because each property is about files while the reason it holds is where the thread is.

**`ModelCallProofs`**: `CallTypeCorrect`, `RecoveriesBounded`, `FallbackWhenOverloaded`,
`BudgetStaysEscalated`. The invariant has a part for each thing the levels have to agree on:
`Following` (the recovery state in use, the loop's between calls and the executor's during one,
counts the row of overloads), `Counting` (a stage starts with no more requests than the stages
before it may have sent) and `Escalating` (between turns the loop's flag, in a later stage of a turn
the stage itself knows that the budget is the higher one). The bound on the calls is a product of
constants, so the proof first shows what one more stage adds to it (`OneMore`, `Monotone`, `Share`).

**`CronSchedulerProofs`**: `CronTypeCorrect`, `NoTriggerTwice`, `RunInOrder`, `TriggersAsWritten`.
That nothing is triggered twice is not inductive alone: `Remembers` says that each job's marker
is as late as its last trigger and none is ahead of the tick, and that a one-shot job with a
trigger is retired, so the next trigger of a job is for a later minute than all before.
`RunInOrder` needs that the trigger being run is still at the head of the queue (`AtATrigger`).
`TriggersAsWritten` rests on `MatchesNamed`, a fact about the expressions alone: for every five
fields the parser takes and every time, the matcher (with `%` counted from the lowest value of a
field, and Python's weekdays) allows only what cron's manual names. Its converse in the model,
`DueIsTriggered`, is a liveness property and stays with TLC; it exempts a scheduler whose thread a failed
listing has ended, which nothing starts again.

**`TeamInboxProofs`**: `TeamTypeCorrect`, `ConsumedIsReported`, `ConfirmedMembersStop`,
`ChoresAreAccounted`. The invariant `TeamInv` is about one runner at a time (`Good`). `Batch`: what it has
reserved are the oldest messages it has not consumed, and what it holds in `todo` and `agent` is part of
that, by where it is. `Reported`: from the report to the acknowledgement, the results of what it is about to
acknowledge are in the lead's inbox. `Stopping`: where the request behind a confirmed stop has got to,
so that the batch that has it again, whatever failed, has it before the agent gets anything, and the board
is not looked at while it waits. `Accounts`
says of every chore that nobody has taken it, or who is at it and what was told of it. Sends by others only
append to an inbox, and what is oldest stays oldest (`Quiet`), so each step is followed through one box.

**`WorktreesProofs`**: `WorktreeTypeCorrect`, `RunsStayInWorktree`, `DiscardedOnlyIfAsked`,
`JournalIsTrue`. The journal agrees with Git only between operations, so `InProgress` says for each step
of each kind of operation that has met no other what Git has: of its own effects so far (`Effect`), whatever was there
before, and, where the journal was right when it began, of what it has not touched (`Untouched`). The first
part alone is why an operation that goes through makes a wrong journal right. `OneAtATime` says that of two
operations on a name both are `crossed` and the name is one to distrust (`half`).
`RunsStayInWorktree` needs that the registry, a checked directory and a command handed to a thread all name the
worktree of the work item (`InPlace`). `DiscardedOnlyIfAsked` is an action property: Git's second look at
the files and at the commits decides it, and it needs only that commits have a branch.

**`ToolProofs`**: `ToolCallsTypeCorrect`, `CallsToldAsHappened`, `LoopsRemindInTime`;
`McpTypeCorrect`, `AnswersAreTheirCalls`, `ServersConnectWholly`. For the calls, `Stacks` says for each
shape of a stack which questions have been answered and how far the subagent's Run on file is, so that the
result that is told when a frame ends, however it ends, is about what happened; `Counting` compares the
counter of each loop with the turns it stands for, and `RemindedInTime` is inductive with it, because each thread of
a loop has at most one request under way. For the servers, `Numbered` says that every message on its
way, or ever asked for, that has the number of the call in progress is of this call, and none has a number still to
be given;
`Clients` and `Registered` say what the half of a connection that is being made has opened and entered.

**`SessionProofs`**: `MemoryTypeCorrect`, `FactsAreKept`; `ConversationTypeCorrect`,
`RequestsTellTheStory`, `CheckpointsStayPrefixes`, `EndsAreToldOnce`; `SessionIsItsParts`,
`SessionTypeCorrect`. For memory, the loop that is alone at work has still to write or to leave, for every
fact that is owed, a file with it (`Covered`), and only one loop at a time can be alone. For the
conversation, `ConversationInv` counts what a Run has appended by where it is (`Written`), puts the end
of a checkpoint where no later message can make it separate a call from its result (`CheckpointSound`), and
says where the end of each command is told (`Told`). That a request is faithful is proved once, for any
messages: those a request begins with are the history, or a summary and what follows it (`Whole`); budgeting
keeps that but for a reference at the end (`Sound`), snipping cuts at places that separate no exchange
(`WhereSnipped`) and leaves what is newer than the prompt because a Run fits into the tail, and
shortening changes nothing but kinds (`PreSummaryIsFaithful`). A view restored from
the checkpoint, one of a new checkpoint and a summary alone all come down to this lemma. `SessionIsItsParts` is what makes
the run `session` a check of each part.

Only model-checked: the liveness properties (`OperationsEnd`, `PromptEnds`, `QueueDrains`,
`DueIsTriggered`, `AssignmentHandled`), which need fairness and ENABLED, beyond the prover.

## Plan

Done, in this order: `TaskLedger`, `TaskBoard` and their proofs; `CronScheduler`; `AgentRun` and
`ModelCall` with their proofs; `TeamInbox`; autonomous work and the creation of the team in `TeamInbox`; `CronExpression` and the
proofs about cron; `Worktrees`; `Conversation`; `ToolCalls`; `McpClient`; `MemoryStore`; the proofs of
the invariants of `ToolCalls`, `McpClient`, `MemoryStore`, `Worktrees`, `TeamInbox` and `Conversation`, and of
`UnblockAnnounced`.

What is left:

1. An abstract inbox (a message is waiting, being handled, or done) that `TeamInbox` implements, checked
   and then proved step by step on top of `TeamInv`.
2. What the liveness properties rest on as safety: that an operation in progress has a step it can take
   (so that weak fairness is enough) and that the bounded loops count down.
3. A worktree run with two names and two tasks, so that a task bound to one name refuses the other.

## Not modelled

Whole parts: `skills/` (files read into prompts), `system_prompt/` (text), `observability/`, the
mapping of SDK errors in `models/`, JSON codecs and version numbers in `storage/`, construction and
command line parsing in `main.py`. `learnClaude/` is course material.

Parts of modelled components:

- teams: several teams at once; plan approval messages, which no tool sends; `recover_team` and
  `recover_reserved`, which nothing calls; a restart, after which no runner of an existing team is
  started again. A member that stopped keeps its file, so work may be assigned to it that nobody
  handles: `AssignmentHandled` says so by its exception for ended runners. It has two more: messages whose
  release raised, which stay reserved, and a session that takes no Run; so it is about the failures the code
  answers, and `PROJECT.json` lists the others as hazards without a property. `add_teammate` also
  takes the lead's own session, on which a member would run without the gate.
- tasks: that completing erases a binding is in `TaskBoard` only; in `Worktrees` a task is bound
  or not.
- worktrees: files that Git ignores: neither the inspection nor Git's own refusal sees them
  (`worktrees/adapters/git.py:58`, `:93`), so that a removal that was not told to discard anything deletes them, and
  `WorkOnlyDiscarded` says nothing of them. A subagent of a member, which works in the main workspace, is
  outside `RunsInItsWorktree`. Git checks a worktree and deletes it in one step; a bound task that refuses a second
  worktree has its disjunct in `Bind`, which needs two names and which the run's one name
  does not reach.
- mcp: the parsing of messages and the session identifier of HTTP. The program itself composes only
  fake clients. The model shows, and no property forbids, that a call after a late answer fails until
  the queue is empty, that a server whose process exited is never connected again
  (`mcp/service.py:62`), and that two servers of the same normalised name share a connection.
- memory: listing is one step; the index `MEMORY.md`, which nothing reads; which memories a prompt is
  given.
- context: sizes are not numbers, so whether a view is too large is an open choice, and that only the
  last message's results are budgeted cannot be told.
- tools: which turns of a loop are those of one Run, so that a Run that is never reminded because others
  reset the counter it shares is no violation; one call per turn of a subagent; what files contain and tools return; the one terminal
  from which all threads read answers.
- runtime: nothing repairs a conversation whose Run died between a tool call and its results; the
  models have such states, and `ToolCallsAreAnswered` says that no prompt follows on them.
