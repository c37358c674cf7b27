------------------------------ MODULE ToolCalls ------------------------------
(***************************************************************************)
(* The tool calls of Runs (tools/, hooks/, permissions/, subagents/,        *)
(* todos/): a call is looked up in the pool of its loop, its arguments are  *)
(* checked, the permission hook lets it through, asking the user where its  *)
(* policies say so, and it runs.  The tool "task" runs a subagent: a Run of *)
(* a session of its own on the same thread, with a smaller pool.  Whatever  *)
(* happens, the call has one result.  A loop adds a reminder to a request   *)
(* after some turns without a new todo list.                               *)
(*                                                                          *)
(* The lead and each member run on a thread of their own.  There are two    *)
(* loops: one for the prompts of the user and of cron, one for the Runs the *)
(* team runners start, the lead's own among them.  What a call says is one  *)
(* of four kinds of arguments; what the user answers, whether a tool raises *)
(* and what the model asks for next are open.                              *)
(***************************************************************************)
EXTENDS Naturals, Sequences, FiniteSets

CONSTANTS Threads,     \* the lead's thread and those of the members
          Leads,       \* the lead's
          Wanted,      \* Wanted[t]: the calls the model may ask for on thread t
          ChildTurns,  \* turns of a subagent
          TodoTurns,   \* turns without a new todo list before a reminder
          NoCall       \* not a call

Tools     == {"edit", "bash", "connect", "external", "task", "todo", "unknown"}
Arguments == {"plain", "invalid", "risky", "denied"}

(* Risky and denied are what the rules of the first policy name: files and  *)
(* commands it asks about, commands it refuses.                            *)
Calls ==
    {call \in [tool: Tools, args: Arguments] :
       /\ call.args = "risky" => call.tool \in {"edit", "bash"}
       /\ call.args = "denied" => call.tool = "bash"}

(* The limits of the program are 10 and 3.  The Runs of the lead's session, *)
(* the foreground's, those of cron and those of its team runner, exclude    *)
(* one another by the gate: they count as one thread, which changes loops.  *)
ASSUME ToolCallsAssumption ==
    /\ IsFiniteSet(Threads)
    /\ Leads \subseteq Threads
    /\ \A s, t \in Leads : s = t
    /\ Wanted \in [Threads -> SUBSET Calls]
    /\ ChildTurns \in Nat \ {0} /\ TodoTurns \in Nat \ {0}
    /\ NoCall \notin Calls

VARIABLES
  frames,     \* frames[t]: the call thread t executes, and that of its subagent
  told,       \* told[t]: the result of its last call
  child,      \* child[t]: the Run of the subagent of the call, on file
  connected,  \* the tools of a server are in the lead's pool
  todoList,   \* on file: who wrote the todo list, no one if there is none
  on,         \* on[t]: the loop of the Run of t
  requested,  \* requested[t]: a request of the Run of t waits for its answer
  updated,    \* updated[t]: a call of this turn has written it
  counter,    \* counter[l]: what loop l counts to remind
  since       \* history: turns of loop l since a new list or a reminder

toolVars == <<frames, told, child, connected, todoList, on, requested,
             updated, counter, since>>

turnVars == <<on, requested, updated, counter, since>>

-----------------------------------------------------------------------------
(* A call on the stack: how far it is, and the questions answered with yes. *)
Questions == {"rule", "server"}
Places    == {"asking", "running", "delegated", "closing"}
Frame     == [call: Calls, at: Places, yes: SUBSET Questions]

NoChild == [run |-> "none", held |-> FALSE, turn |-> 0]
Child   == [run: {"none", "running", "completed", "exhausted"},
            held: BOOLEAN, turn: 0..ChildTurns]

(* The list on file is one whole list, or none.                            *)
TodoLists == {{}} \cup {{t} : t \in Threads}

NoResult == [call |-> NoCall, ok |-> FALSE, ran |-> FALSE, yes |-> {},
             child |-> NoChild]
Result   == [call: Calls, ok: BOOLEAN, ran: BOOLEAN, yes: SUBSET Questions,
             child: Child]

(* The loops that may run the Runs of a thread.  All team runners have the  *)
(* same one, that of the lead with the lead's session.                     *)
AgentLoops == {"lead", "team"}

LoopsOf(t) == IF t \in Leads THEN AgentLoops ELSE {"team"}

Sharing(l) == {t \in Threads : l \in LoopsOf(t)}

ToolCallsTypeOK ==
    /\ frames \in [Threads -> Seq(Frame)]
    /\ \A t \in Threads : Len(frames[t]) <= 2
    /\ told \in [Threads -> Result \cup {NoResult}]
    /\ child \in [Threads -> Child]
    /\ connected \in BOOLEAN
    /\ todoList \in TodoLists
    /\ on \in [Threads -> AgentLoops]
    /\ \A t \in Threads : on[t] \in LoopsOf(t)
    /\ requested \in [Threads -> BOOLEAN] /\ updated \in [Threads -> BOOLEAN]
    /\ counter \in [AgentLoops -> Nat] /\ since \in [AgentLoops -> Nat]

ToolCallsInit ==
    /\ frames = [t \in Threads |-> <<>>]
    /\ told = [t \in Threads |-> NoResult]
    /\ child = [t \in Threads |-> NoChild]
    /\ connected = FALSE /\ todoList = {}
    /\ on = [t \in Threads |-> IF t \in Leads THEN "lead" ELSE "team"]
    /\ requested = [t \in Threads |-> FALSE]
    /\ updated = [t \in Threads |-> FALSE]
    /\ counter = [l \in AgentLoops |-> 0]
    /\ since = [l \in AgentLoops |-> 0]

-----------------------------------------------------------------------------
Top(t)   == frames[t][Len(frames[t])]
Below(t) == SubSeq(frames[t], 1, Len(frames[t]) - 1)

(* The pool of a Run: that of the lead's loop has the tools of connected    *)
(* servers, the team's is a copy without any, a subagent's has the file     *)
(* tools only.                                                             *)
OwnPool(t) ==
    {"edit", "bash", "task", "todo"}
      \cup (IF on[t] = "lead" THEN {"connect"} ELSE {})
      \cup (IF on[t] = "lead" /\ connected THEN {"external"} ELSE {})

ChildPool == {"edit"}

Pool(t, depth) == IF depth = 1 THEN OwnPool(t) ELSE ChildPool

(* The first policy refuses some commands and asks about risky ones; the    *)
(* second asks about servers and their tools, if the first let them through.*)
Denied(call) == call.tool = "bash" /\ call.args = "denied"

Asked(call) ==
    (IF call.tool \in {"edit", "bash"} /\ call.args = "risky"
       THEN <<"rule">> ELSE <<>>)
    \o (IF call.tool \in {"connect", "external"} THEN <<"server">> ELSE <<>>)

Rejected(t, call, depth) ==
    call.tool \notin Pool(t, depth) \/ call.args = "invalid" \/ Denied(call)

(* The result of the call on top of the stack.  A subagent goes on after    *)
(* the result of its call, or has no turn left.                            *)
GiveResult(t, call, ok, ran, yes, run) ==
    /\ frames' = [frames EXCEPT ![t] = <<>>]
    /\ child' = [child EXCEPT ![t] = run]
    /\ told' = [told EXCEPT ![t] = [call |-> call, ok |-> ok, ran |-> ran,
                                    yes |-> yes, child |-> run]]
    /\ updated' = [updated EXCEPT ![t] = @ \/ (ok /\ call.tool = "todo")]

ChildReturns(t, rest) ==
    LET last == child[t].turn + 1 = ChildTurns
    IN  /\ frames' = [frames EXCEPT ![t] =
                        IF last THEN [rest EXCEPT ![1].at = "closing"] ELSE rest]
        /\ child' = [child EXCEPT ![t].turn = @ + 1,
                                  ![t].run = IF last THEN "exhausted" ELSE @]
        /\ UNCHANGED <<told, updated>>

End(t, call, ok, ran, yes, rest) ==
    /\ IF rest = <<>>
         THEN GiveResult(t, call, ok, ran, yes, child[t])
         ELSE ChildReturns(t, rest)
    /\ UNCHANGED <<on, requested, counter, since>>

FailCall(t, ran) ==
    /\ End(t, Top(t).call, FALSE, ran, Top(t).yes, Below(t))
    /\ UNCHANGED <<connected, todoList>>

-----------------------------------------------------------------------------
(* The model asks for a call: it is refused, or asked about, or runs.       *)
Enter(t, call, rest) ==
    IF Rejected(t, call, Len(rest) + 1)
      THEN End(t, call, FALSE, FALSE, {}, rest)
      ELSE /\ frames' = [frames EXCEPT ![t] =
                Append(rest, [call |-> call, yes |-> {},
                              at |-> IF Asked(call) = <<>> THEN "running"
                                     ELSE "asking"])]
           /\ UNCHANGED <<told, child, turnVars>>

AskForCall(t, call) ==
    /\ requested[t] /\ frames[t] = <<>> /\ told[t] = NoResult
    /\ Enter(t, call, <<>>)
    /\ UNCHANGED <<connected, todoList>>

(* The user answers, for this call only; anything but yes refuses it.       *)
Decided(t, yes) ==
    IF Len(Asked(Top(t).call)) = Cardinality(yes)
      THEN [Top(t) EXCEPT !.yes = yes, !.at = "running"]
      ELSE [Top(t) EXCEPT !.yes = yes]

SayYes(t) ==
    /\ frames[t] # <<>> /\ Top(t).at = "asking"
    /\ LET asked == Asked(Top(t).call)
           yes   == Top(t).yes \cup {asked[Cardinality(Top(t).yes) + 1]}
       IN  frames' = [frames EXCEPT ![t] = Append(Below(t), Decided(t, yes))]
    /\ UNCHANGED <<told, child, connected, todoList, turnVars>>

SayNo(t) ==
    /\ frames[t] # <<>> /\ Top(t).at = "asking"
    /\ FailCall(t, FALSE)

\* Mutant: a hook that raises does not hold the call up.
HookIgnored(t) ==
    /\ frames' = [frames EXCEPT ![t] =
                    Append(Below(t), [Top(t) EXCEPT !.at = "running"])]
    /\ UNCHANGED <<told, child, connected, todoList, turnVars>>

(* A hook that raises, as when the terminal is closed, is a failed call.    *)
HookRaised(t) == FailCall(t, FALSE)

HookRaises(t) ==
    /\ frames[t] # <<>> /\ Top(t).at = "asking"
    /\ HookRaised(t)

-----------------------------------------------------------------------------
(* todo_write replaces the list on file, whoever wrote it.                 *)
WriteTodos(t) == todoList' = {t}

(* The tool runs: it raises, or it does what it is for.                    *)
Runs(t) == frames[t] # <<>> /\ Top(t).at = "running"

ToolRaises(t) == Runs(t) /\ FailCall(t, TRUE)

ToolSucceeds(t) ==
    /\ Runs(t) /\ Top(t).call.tool # "task"
    /\ connected' = (connected \/ Top(t).call.tool = "connect")
    /\ IF Top(t).call.tool = "todo" THEN WriteTodos(t) ELSE UNCHANGED todoList
    /\ End(t, Top(t).call, TRUE, TRUE, Top(t).yes, Below(t))

(* A subagent: its session and its Run are created and saved.              *)
Delegate(t) ==
    /\ Runs(t) /\ Top(t).call.tool = "task"
    /\ frames' = [frames EXCEPT ![t][1].at = "delegated"]
    /\ child' = [child EXCEPT ![t] = [run |-> "running", held |-> TRUE, turn |-> 0]]
    /\ UNCHANGED <<told, connected, todoList, turnVars>>

Delegated(t) == frames[t] # <<>> /\ Top(t).at = "delegated"

ChildCalls(t, call) ==
    /\ Delegated(t)
    /\ Enter(t, call, frames[t])
    /\ UNCHANGED <<connected, todoList>>

(* It answers with a text, which ends its Run; the session is freed next.   *)
ChildAnswers(t) ==
    /\ Delegated(t)
    /\ child' = [child EXCEPT ![t].run = "completed"]
    /\ frames' = [frames EXCEPT ![t][1].at = "closing"]
    /\ UNCHANGED <<told, connected, todoList, turnVars>>

(* The session is freed and the result made.  A subagent without turns left *)
(* is a result like any other; a blank answer makes none and fails the call *)
(* although the Run is completed.                                          *)
CloseChild(t) ==
    /\ frames[t] # <<>> /\ Top(t).at = "closing"
    /\ \E ok \in BOOLEAN :
          /\ ok \/ child[t].run = "completed"
          /\ GiveResult(t, Top(t).call, ok, TRUE, Top(t).yes,
                        [child[t] EXCEPT !.held = FALSE])
    /\ UNCHANGED <<connected, todoList, on, requested, counter, since>>

(* A failure before that fails the call; nothing is undone.                *)
ChildRaises(t) ==
    /\ frames[t] # <<>> /\ Top(t).at \in {"delegated", "closing"}
    /\ FailCall(t, TRUE)

-----------------------------------------------------------------------------
(* The result is with the others; the turn may have another call.          *)
TakeResult(t) ==
    /\ frames[t] = <<>> /\ told[t] # NoResult
    /\ told' = [told EXCEPT ![t] = NoResult]
    /\ child' = [child EXCEPT ![t] = NoChild]
    /\ UNCHANGED <<frames, connected, todoList, turnVars>>

\* Mutant: a call that failed counts as a new list.
CountedAny(t, n) == IF updated[t] \/ told[t].call.tool = "todo" THEN 0 ELSE n + 1

(* The turn is counted unless a call of it wrote the list.                  *)
Counted(t, n) == IF updated[t] THEN 0 ELSE n + 1

EndTurn(t) ==
    /\ frames[t] = <<>> /\ told[t] # NoResult
    /\ counter' = [counter EXCEPT ![on[t]] = Counted(t, @)]
    /\ since' = [since EXCEPT ![on[t]] = IF updated[t] THEN 0 ELSE @ + 1]
    /\ requested' = [requested EXCEPT ![t] = FALSE]
    /\ updated' = [updated EXCEPT ![t] = FALSE]
    /\ told' = [told EXCEPT ![t] = NoResult]
    /\ child' = [child EXCEPT ![t] = NoChild]
    /\ UNCHANGED <<frames, connected, todoList, on>>

(* A request, of this Run or, after a text, the last turn or an exception,  *)
(* of the next one; it takes the reminder if one is due on its loop.       *)
SendRequest(t, l) ==
    /\ frames[t] = <<>> /\ told[t] = NoResult
    /\ on' = [on EXCEPT ![t] = l]
    /\ requested' = [requested EXCEPT ![t] = TRUE]
    /\ updated' = [updated EXCEPT ![t] = FALSE]
    /\ IF counter[l] >= TodoTurns
         THEN /\ counter' = [counter EXCEPT ![l] = 0]
              /\ since' = [since EXCEPT ![l] = 0]
         ELSE UNCHANGED <<counter, since>>
    /\ UNCHANGED <<frames, told, child, connected, todoList>>

-----------------------------------------------------------------------------
ModelStep(t) ==
    \E call \in Wanted[t] : AskForCall(t, call) \/ ChildCalls(t, call)

UserStep(t) == SayYes(t) \/ SayNo(t) \/ HookRaises(t)

ToolStep(t) == ToolRaises(t) \/ ToolSucceeds(t) \/ Delegate(t)

SubagentStep(t) == ChildAnswers(t) \/ CloseChild(t) \/ ChildRaises(t)

TurnStep(t) ==
    TakeResult(t) \/ EndTurn(t) \/ \E l \in LoopsOf(t) : SendRequest(t, l)

ToolCallsNext ==
    \E t \in Threads :
        ModelStep(t) \/ UserStep(t) \/ ToolStep(t) \/ SubagentStep(t) \/ TurnStep(t)

ToolCallsSpec == ToolCallsInit /\ [][ToolCallsNext]_toolVars

-----------------------------------------------------------------------------
(* What a call of a thread needs to run, as the policies are meant.         *)
LetThrough(t, depth, call, yes) ==
    /\ call.args \notin {"invalid", "denied"}
    /\ depth = 2 => call.tool = "edit"
    /\ call.tool \in {"connect", "external"} =>
          t \in Leads /\ on[t] = "lead" /\ "server" \in yes
    /\ call.tool = "external" => connected
    /\ call.args = "risky" => "rule" \in yes

(* A tool runs only if its Run may use it, its arguments are as declared and*)
(* every question the policies have about this call was answered with yes,  *)
(* whatever raises on the way (tools/executor.py:40,                        *)
(* permissions/mcp_policy.py:34); a call told to have succeeded ran.  One   *)
(* that delegated and succeeded tells of a Run that ended and left its      *)
(* session free (subagents/runner.py:79); one that delegated and failed     *)
(* leaves the session held for ever, unless the Run was completed and only  *)
(* its answer made no result (subagents/runner.py:91).                     *)
ToldAsHappened ==
    \A t \in Threads :
        /\ \A i \in DOMAIN frames[t] :
              frames[t][i].at # "asking" =>
                  LetThrough(t, i, frames[t][i].call, frames[t][i].yes)
        /\ LET r == told[t] IN
              /\ r.ran => LetThrough(t, 1, r.call, r.yes)
              /\ r.ok => r.ran
              /\ r.ok /\ r.call.tool = "task" =>
                    r.child.run \in {"completed", "exhausted"} /\ ~r.child.held
              /\ ~r.ok /\ r.child # NoChild =>
                    r.child.held \/ r.child.run = "completed"

(* No request of a loop is made after TodoTurns of its turns without a new  *)
(* todo list and without a reminder, whoever's turns they were: a call that *)
(* failed is no new list (runtime/loop.py:834, todos/reminder.py:22).  More *)
(* turns than that are only those whose requests were under way when the    *)
(* limit was reached, at most one of each other thread of the loop.        *)
RemindedInTime ==
    \A l \in AgentLoops :
        since[l] + Cardinality({t \in Threads : requested[t] /\ on[t] = l})
          < TodoTurns + Cardinality(Sharing(l))
=============================================================================
