------------------------------ MODULE AgentRun -------------------------------
(***************************************************************************)
(* One prompt after the other on one session: execute_prompt creates a Run *)
(* with UserInputRuntimeService.handle and MinimalAgentLoop.execute drives *)
(* it turn by turn.  The session, each Run, each Step and the conversation *)
(* are files of their own, and every save is a step here, for an exception *)
(* (of the model, of a file) or the death of the process may come between  *)
(* any two of them and nothing repairs what is half done.                  *)
(*                                                                         *)
(* Threads are the ones that share the session: the foreground loop, the   *)
(* cron processor and the team's lead runner.  Each holds the execution    *)
(* gate from before handle until execute has returned or raised.           *)
(***************************************************************************)
EXTENDS Naturals, Sequences

CONSTANTS
  Threads,    \* threads that execute prompts on the session
  None,       \* no thread, no Run
  MaxTurns,   \* max_turns of the loop
  MaxTools,   \* bound on the tool calls of one response
  MaxRuns     \* bound on the Runs of the session

Runs == 1 .. MaxRuns

ASSUME SomeTurns == MaxTurns \in Nat \ {0}
ASSUME Bounds == MaxTools \in Nat \ {0} /\ MaxRuns \in Nat

VARIABLES
  gate,     \* the thread that holds the execution gate
  pc,       \* where that thread is
  run,      \* the Run it executes
  turn,     \* its turn_number
  calls,    \* tool calls of the response still to execute
  active,   \* active_run_id in the session's file
  status,   \* the status in each Run's file
  steps,    \* the statuses in the files of each Run's Steps, oldest first
  log       \* the conversation, a kind per message

locals == <<pc, run, turn, calls>>
files == <<active, status, steps, log>>
vars == <<gate, locals, files>>

RunTerminal == {"completed", "exhausted"}
StepTerminal == {"succeeded", "failed"}

RunStatuses == {"queued", "recovering", "running"} \cup RunTerminal
ASSUME NoneIsNothing == None \notin Threads \cup Runs /\ None \notin RunStatuses

StepStatuses == {"pending", "executing"} \cup StepTerminal
Messages == {"user", "text", "tool_use", "results"}

Places == {"idle", "get", "save_run", "save_step", "save_session",
           "recovering", "running", "start_first", "append_user", "model",
           "succeed", "create_tool", "start_tool", "finish_tool",
           "append_results", "create_next", "start_next",
           "finish_step", "complete", "exhaust", "free"}

\* transition_to of the newest Step, saved
StepBecomes(s) ==
  steps' = [steps EXCEPT ![run] = [@ EXCEPT ![Len(@)] = s]]

StepCreated == steps' = [steps EXCEPT ![run] = Append(@, "pending")]

\* transition_to of the Run, saved
RunBecomes(s) == status' = [status EXCEPT ![run] = s]

Goto(place) == pc' = place

-----------------------------------------------------------------------------
Init ==
  /\ gate = None
  /\ pc = "idle" /\ run = None /\ turn = 0 /\ calls = 0
  /\ active = None
  /\ status = [r \in Runs |-> None]
  /\ steps = [r \in Runs |-> <<>>]
  /\ log = <<>>

\* The prompt's thread leaves execute_prompt and releases the gate.
Leave ==
  /\ gate' = None
  /\ pc' = "idle" /\ run' = None /\ turn' = 0 /\ calls' = 0

\* execute_prompt, with the gate
Prompt(t) ==
  /\ gate = None
  /\ \E r \in Runs : status[r] = None
  /\ gate' = t
  /\ Goto("get")
  /\ UNCHANGED <<run, turn, calls, files>>

\* Mutant: a session with an active Run takes the next one all the same.
HandleGetForced ==
  /\ pc = "get"
  /\ run' = CHOOSE r \in Runs : status[r] = None
  /\ Goto("save_run")
  /\ UNCHANGED <<gate, turn, calls, files>>

\* Mutant: the session is saved before what it refers to.
HandleGetSessionFirst ==
  /\ pc = "get"
  /\ \/ /\ active = None
        /\ \E r \in Runs : status[r] = None /\ run' = r /\ active' = r
        /\ Goto("save_run")
        /\ UNCHANGED <<gate, turn, calls>>
     \/ active # None /\ Leave /\ UNCHANGED active
  /\ UNCHANGED <<status, steps, log>>

\* get_session and start_run: a session with an active Run is refused.  The
\* Run has a new identifier.
HandleGet ==
  /\ pc = "get"
  /\ \/ /\ active = None
        /\ run' = CHOOSE r \in Runs : status[r] = None
        /\ Goto("save_run")
        /\ UNCHANGED <<gate, turn, calls>>
     \/ active # None /\ Leave
  /\ UNCHANGED files

HandleSaveRun ==
  /\ pc = "save_run"
  /\ RunBecomes("queued")
  /\ Goto("save_step")
  /\ UNCHANGED <<gate, run, turn, calls, active, steps, log>>

HandleSaveStep ==
  /\ pc = "save_step"
  /\ StepCreated
  /\ Goto("save_session")
  /\ UNCHANGED <<gate, run, turn, calls, active, status, log>>

HandleSaveSession ==
  /\ pc = "save_session"
  /\ active' = run
  /\ Goto("recovering")
  /\ UNCHANGED <<gate, run, turn, calls, status, steps, log>>

\* _start_run and _start_step of the planning Step
StartRun ==
  /\ \/ pc = "recovering" /\ RunBecomes("recovering") /\ Goto("running")
     \/ pc = "running" /\ RunBecomes("running") /\ Goto("start_first")
  /\ UNCHANGED <<gate, run, turn, calls, active, steps, log>>

StartFirst ==
  /\ pc = "start_first"
  /\ StepBecomes("executing")
  /\ Goto("append_user")
  /\ UNCHANGED <<gate, run, turn, calls, active, status, log>>

AppendUser ==
  /\ pc = "append_user"
  /\ log' = Append(log, "user")
  /\ turn' = 1
  /\ Goto("model")
  /\ UNCHANGED <<gate, run, calls, active, status, steps>>

-----------------------------------------------------------------------------
\* The response is appended first.  Any response that is neither tool calls
\* nor a text that ends the turn raises then.
Respond ==
  /\ pc = "model"
  /\ \/ /\ log' = Append(log, "tool_use")
        /\ calls' \in 1 .. MaxTools
        /\ Goto("succeed")
        /\ UNCHANGED <<gate, run, turn>>
     \/ /\ log' = Append(log, "text")
        /\ Goto("finish_step")
        /\ UNCHANGED <<gate, run, turn, calls>>
     \/ /\ log' = Append(log, "text")
        /\ Leave
  /\ UNCHANGED <<active, status, steps>>

\* The Step of the model call has succeeded: its tools are next.
SucceedStep ==
  /\ pc = "succeed"
  /\ StepBecomes("succeeded")
  /\ Goto("create_tool")
  /\ UNCHANGED <<gate, run, turn, calls, active, status, log>>

\* One tool call: its Step is created, started, and finished with the result,
\* for ToolExecutor turns every exception of a tool into a failed result.
CreateTool ==
  /\ pc = "create_tool"
  /\ StepCreated
  /\ Goto("start_tool")
  /\ UNCHANGED <<gate, run, turn, calls, active, status, log>>

StartTool ==
  /\ pc = "start_tool"
  /\ StepBecomes("executing")
  /\ Goto("finish_tool")
  /\ UNCHANGED <<gate, run, turn, calls, active, status, log>>

FinishTool ==
  /\ pc = "finish_tool"
  /\ \E s \in StepTerminal : StepBecomes(s)
  /\ calls' = calls - 1
  /\ Goto(IF calls = 1 THEN "append_results" ELSE "create_tool")
  /\ UNCHANGED <<gate, run, turn, active, status, log>>

\* Mutant: the next Step is created before the limit is looked at.
AppendResultsEarly ==
  /\ pc = "append_results"
  /\ log' = Append(log, "results")
  /\ StepCreated
  /\ Goto(IF turn = MaxTurns THEN "exhaust" ELSE "start_next")
  /\ UNCHANGED <<gate, run, turn, calls, active, status>>

\* Mutant: the limit is one turn late.
AppendResultsLate ==
  /\ pc = "append_results"
  /\ log' = Append(log, "results")
  /\ Goto(IF turn > MaxTurns THEN "exhaust" ELSE "create_next")
  /\ UNCHANGED <<gate, run, turn, calls, active, status, steps>>

\* The results are appended, then the limit is looked at.
AppendResults ==
  /\ pc = "append_results"
  /\ log' = Append(log, "results")
  /\ Goto(IF turn = MaxTurns THEN "exhaust" ELSE "create_next")
  /\ UNCHANGED <<gate, run, turn, calls, active, status, steps>>

NextTurn ==
  /\ \/ pc = "create_next" /\ StepCreated /\ Goto("start_next") /\ UNCHANGED turn
     \/ pc = "start_next" /\ StepBecomes("executing") /\ Goto("model")
        /\ turn' = turn + 1
  /\ UNCHANGED <<gate, run, calls, active, status, log>>

-----------------------------------------------------------------------------
FinishStep ==
  /\ pc = "finish_step"
  /\ StepBecomes("succeeded")
  /\ Goto("complete")
  /\ UNCHANGED <<gate, run, turn, calls, active, status, log>>

\* The Run is saved first, then the session without it.
EndRun ==
  /\ \/ pc = "complete" /\ RunBecomes("completed")
     \/ pc = "exhaust" /\ RunBecomes("exhausted")
  /\ Goto("free")
  /\ UNCHANGED <<gate, run, turn, calls, active, steps, log>>

\* execute returns, or raises AgentLoopExhaustedError.
FreeSession ==
  /\ pc = "free"
  /\ active' = None
  /\ Leave
  /\ UNCHANGED <<status, steps, log>>

\* Mutant: whatever happens, the session is freed on the way out.
RaiseFreeing ==
  /\ pc # "idle"
  /\ active' = None
  /\ Leave
  /\ UNCHANGED <<status, steps, log>>

\* Mutant: the gate is not released on the way out of an exception.
RaiseHolding ==
  /\ pc # "idle"
  /\ Goto("idle")
  /\ UNCHANGED <<gate, run, turn, calls, files>>

\* Any call raises, or the process dies: the files stay as they are.
Raise ==
  /\ pc # "idle"
  /\ Leave
  /\ UNCHANGED files

Advance ==
  \/ HandleGet \/ HandleSaveRun \/ HandleSaveStep \/ HandleSaveSession
  \/ StartRun \/ StartFirst \/ AppendUser
  \/ Respond \/ SucceedStep \/ CreateTool \/ StartTool \/ FinishTool
  \/ AppendResults \/ NextTurn \/ FinishStep \/ EndRun \/ FreeSession

Next == Advance \/ Raise \/ \E t \in Threads : Prompt(t)

Spec == Init /\ [][Next]_vars

\* A call of the model or of a file returns or raises.
FairSpec == Spec /\ WF_vars(Advance \/ Raise)

-----------------------------------------------------------------------------
\* Every variable has the shape its code gives it.
TypeOK ==
  /\ gate \in Threads \cup {None}
  /\ pc \in Places
  /\ run \in Runs \cup {None}
  /\ turn \in 0 .. MaxTurns
  /\ calls \in 0 .. MaxTools
  /\ active \in Runs \cup {None}
  /\ status \in [Runs -> RunStatuses \cup {None}]
  /\ steps \in [Runs -> Seq(StepStatuses)]
  /\ log \in Seq(Messages)

\* The session never names a Run whose file, or whose first Step's file, is
\* missing, wherever handle is cut off.
ActiveRunIsSaved == active # None => status[active] # None /\ steps[active] # <<>>

\* The session does not forget a Run that has begun: until the Run's file says
\* how it ended, the session's file names it, wherever execute is cut off.
BegunRunIsActive ==
  \A r \in Runs : status[r] \in {"recovering", "running"} => active = r

\* A Run that ended left no Step open.
EndedRunHasNoOpenStep ==
  \A r \in Runs : status[r] \in RunTerminal =>
    \A n \in 1 .. Len(steps[r]) : steps[r][n] \in StepTerminal

\* The conversation a model is given is well formed: tool calls are answered by
\* the next message.  Where a failure left tool calls unanswered, the session
\* still names the Run, which keeps every later prompt from using it.
ToolCallsAreAnswered ==
  \A n \in 1 .. Len(log) :
    log[n] = "tool_use" =>
      IF n < Len(log) THEN log[n + 1] = "results" ELSE active # None

\* Every prompt ends and gives the gate back to the other threads.
PromptEnds == gate # None ~> gate = None
=============================================================================
