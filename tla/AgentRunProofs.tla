---------------------------- MODULE AgentRunProofs ----------------------------
(***************************************************************************)
(* The safety properties of AgentRun, for any threads, any number of turns *)
(* and tool calls and any number of Runs.  None of them is inductive: what *)
(* a file says of a Run is tied to where its thread is (Phases for the     *)
(* Run, Stepping for its Steps, Talking for the conversation), and what    *)
(* the files of all Runs have in common has to hold when no thread is      *)
(* there to tell (AtRest).                                                 *)
(***************************************************************************)
EXTENDS AgentRun, TLAPS

-----------------------------------------------------------------------------
Saving == {"save_run", "save_step", "save_session"}

Executing == Places \ ({"idle", "get"} \cup Saving)

\* Where the newest Step may be open, and where all of them are closed.
OneOpen == {"save_session", "recovering", "running", "start_first",
            "append_user", "model", "succeed", "start_tool", "finish_tool",
            "start_next", "finish_step"}

AllClosed == {"create_tool", "append_results", "create_next", "complete",
              "exhaust", "free"}

\* Where the last message is a tool call that still has to be answered.
Answering == {"succeed", "create_tool", "start_tool", "finish_tool", "append_results"}

Closed(r) == \A n \in 1 .. Len(steps[r]) : steps[r][n] \in StepTerminal

ClosedBefore(r) ==
  \A n \in 1 .. Len(steps[r]) : n < Len(steps[r]) => steps[r][n] \in StepTerminal

\* The thread with the gate, its Run, and what the files say of that Run.
Phases ==
  /\ gate = None <=> pc = "idle"
  /\ run = None <=> pc \in {"idle", "get"}
  /\ pc = "get" => \E r \in Runs : status[r] = None
  /\ pc \in Saving => active = None
  /\ pc \in Executing => active = run
  /\ pc = "save_run" => status[run] = None
  /\ pc \in {"save_step", "save_session", "recovering"} => status[run] = "queued"
  /\ pc = "running" => status[run] = "recovering"
  /\ pc \in Executing \ {"recovering", "running", "free"} => status[run] = "running"
  /\ pc = "free" => status[run] \in RunTerminal

\* The Steps of that Run, and the counters that say which comes next.
Stepping ==
  /\ pc = "save_step" => steps[run] = <<>>
  /\ pc \in OneOpen => steps[run] # <<>> /\ ClosedBefore(run)
  /\ pc \in AllClosed => steps[run] # <<>> /\ Closed(run)
  /\ pc \in Answering \ {"append_results"} => calls > 0
  /\ pc \in {"create_next", "start_next"} => turn < MaxTurns

\* Only the last message may be a tool call without results.
Talking ==
  /\ \A n \in 1 .. Len(log) :
       n < Len(log) /\ log[n] = "tool_use" => log[n + 1] = "results"
  /\ log # <<>> /\ log[Len(log)] = "tool_use" =>
       pc \in Answering \/ (pc \in {"idle", "get"} /\ active # None)

\* What the files say whoever wrote them.
AtRest ==
  /\ ActiveRunIsSaved
  /\ BegunRunIsActive
  /\ EndedRunHasNoOpenStep
  /\ \A r \in Runs : status[r] = None => steps[r] = <<>>

IInv == TypeOK /\ Phases /\ Stepping /\ Talking /\ AtRest

-----------------------------------------------------------------------------
\* A Step's save changes the newest Step of the Run and nothing else.
LEMMA StepSaved ==
  ASSUME steps \in [Runs -> Seq(StepStatuses)], run \in Runs, steps[run] # <<>>,
         NEW s \in StepStatuses, StepBecomes(s)
  PROVE  /\ steps' \in [Runs -> Seq(StepStatuses)]
         /\ \A r \in Runs : r # run => steps'[r] = steps[r]
         /\ Len(steps'[run]) = Len(steps[run])
         /\ \A n \in 1 .. Len(steps[run]) :
              steps'[run][n] = IF n = Len(steps[run]) THEN s ELSE steps[run][n]
         /\ steps'[run] # <<>>
<1>1. steps[run] \in Seq(StepStatuses) /\ Len(steps[run]) \in Nat \ {0}
  OBVIOUS
<1>2. [steps[run] EXCEPT ![Len(steps[run])] = s] \in Seq(StepStatuses)
  BY <1>1
<1>3. steps'[run] = [steps[run] EXCEPT ![Len(steps[run])] = s]
  BY DEF StepBecomes
<1>4. \A r \in Runs : r # run => steps'[r] = steps[r]
  BY DEF StepBecomes
<1>5. Len(steps'[run]) = Len(steps[run])
  BY <1>1, <1>3
<1>6. steps' \in [Runs -> Seq(StepStatuses)]
  BY <1>2 DEF StepBecomes
<1> QED BY <1>1, <1>3, <1>4, <1>5, <1>6

\* A Step's creation adds an open Step to the Run and nothing else.
LEMMA StepAdded ==
  ASSUME steps \in [Runs -> Seq(StepStatuses)], run \in Runs, StepCreated
  PROVE  /\ steps' \in [Runs -> Seq(StepStatuses)]
         /\ \A r \in Runs : r # run => steps'[r] = steps[r]
         /\ Len(steps[run]) \in Nat /\ Len(steps'[run]) = Len(steps[run]) + 1
         /\ \A n \in 1 .. Len(steps[run]) : steps'[run][n] = steps[run][n]
         /\ steps'[run] # <<>>
<1>1. steps[run] \in Seq(StepStatuses) /\ "pending" \in StepStatuses
  BY DEF StepStatuses
<1>2. steps'[run] = Append(steps[run], "pending")
  BY DEF StepCreated
<1>3. steps' \in [Runs -> Seq(StepStatuses)]
  BY <1>1 DEF StepCreated
<1>4. \A r \in Runs : r # run => steps'[r] = steps[r]
  BY DEF StepCreated
<1> QED BY <1>1, <1>2, <1>3, <1>4

\* Appending a message keeps the answers there are.
LEMMA Said ==
  ASSUME log \in Seq(Messages), NEW m \in Messages, log' = Append(log, m)
  PROVE  /\ log' \in Seq(Messages)
         /\ Len(log') = Len(log) + 1
         /\ log'[Len(log')] = m
         /\ \A n \in 1 .. Len(log) : log'[n] = log[n]
OBVIOUS

\* A thread past start_run has a Run.
LEMMA Mine == TypeOK /\ Phases /\ pc \notin {"idle", "get"} => run \in Runs
BY DEF TypeOK, Phases

-----------------------------------------------------------------------------
\* Before any prompt the files are empty.
LEMMA InitHolds == Init => IInv
<1> SUFFICES ASSUME Init PROVE IInv
  OBVIOUS
<1> USE NoneIsNothing, SomeTurns, Bounds DEF Init, RunStatuses
<1>1. TypeOK
  BY DEF TypeOK, Places
<1>2. Phases /\ Stepping /\ Talking
  BY
     DEF Phases, Stepping, Talking, Saving, Executing, OneOpen, AllClosed,
         Answering
<1>3. AtRest
  BY
     DEF AtRest, ActiveRunIsSaved, BegunRunIsActive, EndedRunHasNoOpenStep,
         RunTerminal
<1> QED BY <1>1, <1>2, <1>3 DEF IInv

\* Every step keeps the invariant, whichever save it is or is cut off at.
LEMMA StepHolds == IInv /\ [Next]_vars => IInv'
<1> SUFFICES ASSUME IInv, [Next]_vars
             PROVE  IInv'
  OBVIOUS
<1> USE NoneIsNothing, SomeTurns, Bounds
        DEF IInv, TypeOK, RunStatuses, RunTerminal, Goto, Leave, RunBecomes,
            files, Phases, Places, Saving, Executing, AtRest
<1>1. CASE HandleGet
  <2>1. TypeOK'
    BY <1>1
       DEF HandleGet, StepStatuses, StepTerminal, Messages, Stepping, Answering
  <2>2. Phases'
    BY <1>1 DEF HandleGet
  <2>3. Stepping'
    BY <1>1
       DEF HandleGet, Stepping, OneOpen, AllClosed, Answering, Closed,
           ClosedBefore, StepTerminal
  <2>4. Talking'
    BY <1>1 DEF HandleGet, Talking, Answering, Messages
  <2>5. AtRest'
    BY <1>1
       DEF HandleGet, Stepping, OneOpen, AllClosed, Closed, ActiveRunIsSaved,
           BegunRunIsActive, EndedRunHasNoOpenStep
  <2> QED BY <2>1, <2>2, <2>3, <2>4, <2>5
<1>2. CASE HandleSaveRun
  <2>1. TypeOK'
    BY <1>2, Mine
       DEF HandleSaveRun, StepStatuses, StepTerminal, Messages, Stepping,
           Answering
  <2>2. Phases'
    BY <1>2, Mine DEF HandleSaveRun
  <2>3. Stepping'
    BY <1>2, Mine
       DEF HandleSaveRun, Stepping, OneOpen, AllClosed, Answering, Closed,
           ClosedBefore, StepTerminal
  <2>4. Talking'
    BY <1>2, Mine DEF HandleSaveRun, Talking, Answering, Messages
  <2>5. AtRest'
    BY <1>2, Mine
       DEF HandleSaveRun, Stepping, OneOpen, AllClosed, Closed,
           ActiveRunIsSaved, BegunRunIsActive, EndedRunHasNoOpenStep
  <2> QED BY <2>1, <2>2, <2>3, <2>4, <2>5
<1>3. CASE HandleSaveStep
  <2>1. run \in Runs
    BY <1>3, Mine DEF HandleSaveStep
  <2>2. /\ steps' \in [Runs -> Seq(StepStatuses)]
        /\ \A r \in Runs : r # run => steps'[r] = steps[r]
        /\ Len(steps[run]) \in Nat /\ Len(steps'[run]) = Len(steps[run]) + 1
        /\ \A n \in 1 .. Len(steps[run]) : steps'[run][n] = steps[run][n]
        /\ steps'[run] # <<>>
    BY <1>3, <2>1, StepAdded DEF HandleSaveStep
  <2>3. Closed(run)
    BY <1>3 DEF HandleSaveStep, Stepping, AllClosed, Closed
  <2>4. ClosedBefore(run)'
    BY <1>3, <2>2, <2>3 DEF HandleSaveStep, Closed, ClosedBefore
  <2>5. TypeOK'
    BY <1>3, <2>1, <2>2
       DEF HandleSaveStep, StepStatuses, StepTerminal, Messages, Stepping,
           Answering
  <2>6. Phases'
    BY <1>3, <2>1, <2>2 DEF HandleSaveStep
  <2>7. Stepping'
    BY <1>3, <2>1, <2>2, <2>4
       DEF HandleSaveStep, Stepping, OneOpen, AllClosed, Answering
  <2>8. Talking'
    BY <1>3, <2>1, <2>2 DEF HandleSaveStep, Talking, Answering, Messages
  <2>9. AtRest'
    BY <1>3, <2>1, <2>2
       DEF HandleSaveStep, Stepping, OneOpen, AllClosed, Closed,
           ActiveRunIsSaved, BegunRunIsActive, EndedRunHasNoOpenStep
  <2> QED BY <2>5, <2>6, <2>7, <2>8, <2>9
<1>4. CASE HandleSaveSession
  <2>1. TypeOK'
    BY <1>4, Mine
       DEF HandleSaveSession, StepStatuses, StepTerminal, Messages, Stepping,
           Answering
  <2>2. Phases'
    BY <1>4, Mine DEF HandleSaveSession
  <2>3. Stepping'
    BY <1>4, Mine
       DEF HandleSaveSession, Stepping, OneOpen, AllClosed, Answering, Closed,
           ClosedBefore, StepTerminal
  <2>4. Talking'
    BY <1>4, Mine DEF HandleSaveSession, Talking, Answering, Messages
  <2>5. AtRest'
    BY <1>4, Mine
       DEF HandleSaveSession, Stepping, OneOpen, AllClosed, Closed,
           ActiveRunIsSaved, BegunRunIsActive, EndedRunHasNoOpenStep
  <2> QED BY <2>1, <2>2, <2>3, <2>4, <2>5
<1>5. CASE StartRun
  <2>1. TypeOK'
    BY <1>5, Mine
       DEF StartRun, StepStatuses, StepTerminal, Messages, Stepping, Answering
  <2>2. Phases'
    BY <1>5, Mine DEF StartRun
  <2>3. Stepping'
    BY <1>5, Mine
       DEF StartRun, Stepping, OneOpen, AllClosed, Answering, Closed,
           ClosedBefore, StepTerminal
  <2>4. Talking'
    BY <1>5, Mine DEF StartRun, Talking, Answering, Messages
  <2>5. ActiveRunIsSaved'
    BY <1>5, Mine DEF StartRun, Stepping, OneOpen, AllClosed, ActiveRunIsSaved
  <2>6. BegunRunIsActive'
    BY <1>5, Mine DEF StartRun, BegunRunIsActive
  <2>7. EndedRunHasNoOpenStep'
    BY <1>5, Mine
       DEF StartRun, Stepping, AllClosed, Closed, EndedRunHasNoOpenStep
  <2>8. (\A r \in Runs : status[r] = None => steps[r] = <<>>)'
    BY <1>5, Mine DEF StartRun
  <2> QED BY <2>1, <2>2, <2>3, <2>4, <2>5, <2>6, <2>7, <2>8
<1>6. CASE StartFirst
  <2>1. run \in Runs /\ steps[run] # <<>>
    BY <1>6, Mine DEF StartFirst, Stepping, OneOpen, AllClosed
  <2>2. /\ steps' \in [Runs -> Seq(StepStatuses)]
        /\ \A r \in Runs : r # run => steps'[r] = steps[r]
        /\ Len(steps'[run]) = Len(steps[run])
        /\ \A n \in 1 .. Len(steps[run]) :
             steps'[run][n] = IF n = Len(steps[run]) THEN "executing" ELSE steps[run][n]
        /\ steps'[run] # <<>>
    BY <1>6, <2>1, StepSaved DEF StartFirst, StepStatuses, StepTerminal
  <2>3. TypeOK'
    BY <1>6, <2>1, <2>2
       DEF StartFirst, StepStatuses, StepTerminal, Messages, Stepping, Answering
  <2>4. Phases'
    BY <1>6, <2>1, <2>2 DEF StartFirst
  <2>5. Stepping'
    BY <1>6, <2>1, <2>2
       DEF StartFirst, Stepping, OneOpen, AllClosed, Answering, Closed,
           ClosedBefore, StepTerminal
  <2>6. Talking'
    BY <1>6, <2>1, <2>2 DEF StartFirst, Talking, Answering, Messages
  <2>7. AtRest'
    BY <1>6, <2>1, <2>2
       DEF StartFirst, Stepping, OneOpen, AllClosed, Closed, ActiveRunIsSaved,
           BegunRunIsActive, EndedRunHasNoOpenStep
  <2> QED BY <2>3, <2>4, <2>5, <2>6, <2>7
<1>7. CASE AppendUser
  <2>1. TypeOK'
    BY <1>7, Said
       DEF AppendUser, StepStatuses, StepTerminal, Messages, Stepping, Answering
  <2>2. Phases'
    BY <1>7, Said DEF AppendUser
  <2>3. Stepping'
    BY <1>7, Said
       DEF AppendUser, Stepping, OneOpen, AllClosed, Answering, Closed,
           ClosedBefore, StepTerminal
  <2>4. Talking'
    BY <1>7, Said DEF AppendUser, Talking, Answering, Messages
  <2>5. AtRest'
    BY <1>7, Said
       DEF AppendUser, Stepping, OneOpen, AllClosed, Closed, ActiveRunIsSaved,
           BegunRunIsActive, EndedRunHasNoOpenStep
  <2> QED BY <2>1, <2>2, <2>3, <2>4, <2>5
<1>8. CASE Respond
  <2>1. PICK m \in {"tool_use", "text"} : log' = Append(log, m)
    BY <1>8 DEF Respond
  <2>2. /\ log' \in Seq(Messages)
        /\ Len(log') = Len(log) + 1
        /\ log'[Len(log')] = m
        /\ \A k \in 1 .. Len(log) : log'[k] = log[k]
    BY <2>1, Said DEF Messages
  <2>3. TypeOK'
    BY <1>8, Mine, <2>1, <2>2
       DEF Respond, StepStatuses, StepTerminal, Messages, Stepping, Answering
  <2>4. Phases'
    BY <1>8, Mine, <2>1, <2>2 DEF Respond
  <2>5. Stepping'
    BY <1>8, Mine, <2>1, <2>2
       DEF Respond, Stepping, OneOpen, AllClosed, Answering, Closed,
           ClosedBefore, StepTerminal
  <2>6. Talking'
    BY <1>8, Mine, <2>1, <2>2 DEF Respond, Talking, Answering, Messages
  <2>7. AtRest'
    BY <1>8, Mine, <2>1, <2>2
       DEF Respond, Stepping, OneOpen, AllClosed, Closed, ActiveRunIsSaved,
           BegunRunIsActive, EndedRunHasNoOpenStep
  <2> QED BY <2>3, <2>4, <2>5, <2>6, <2>7
<1>9. CASE SucceedStep
  <2>1. run \in Runs /\ steps[run] # <<>>
    BY <1>9, Mine DEF SucceedStep, Stepping, OneOpen, AllClosed
  <2>2. /\ steps' \in [Runs -> Seq(StepStatuses)]
        /\ \A r \in Runs : r # run => steps'[r] = steps[r]
        /\ Len(steps'[run]) = Len(steps[run])
        /\ \A n \in 1 .. Len(steps[run]) :
             steps'[run][n] = IF n = Len(steps[run]) THEN "succeeded" ELSE steps[run][n]
        /\ steps'[run] # <<>>
    BY <1>9, <2>1, StepSaved DEF SucceedStep, StepStatuses, StepTerminal
  <2>3. TypeOK'
    BY <1>9, <2>1, <2>2
       DEF SucceedStep, StepStatuses, StepTerminal, Messages, Stepping,
           Answering
  <2>4. Phases'
    BY <1>9, <2>1, <2>2 DEF SucceedStep
  <2>5. Stepping'
    BY <1>9, <2>1, <2>2
       DEF SucceedStep, Stepping, OneOpen, AllClosed, Answering, Closed,
           ClosedBefore, StepTerminal
  <2>6. Talking'
    BY <1>9, <2>1, <2>2 DEF SucceedStep, Talking, Answering, Messages
  <2>7. AtRest'
    BY <1>9, <2>1, <2>2
       DEF SucceedStep, Stepping, OneOpen, AllClosed, Closed, ActiveRunIsSaved,
           BegunRunIsActive, EndedRunHasNoOpenStep
  <2> QED BY <2>3, <2>4, <2>5, <2>6, <2>7
<1>10. CASE CreateTool
  <2>1. run \in Runs
    BY <1>10, Mine DEF CreateTool
  <2>2. /\ steps' \in [Runs -> Seq(StepStatuses)]
        /\ \A r \in Runs : r # run => steps'[r] = steps[r]
        /\ Len(steps[run]) \in Nat /\ Len(steps'[run]) = Len(steps[run]) + 1
        /\ \A n \in 1 .. Len(steps[run]) : steps'[run][n] = steps[run][n]
        /\ steps'[run] # <<>>
    BY <1>10, <2>1, StepAdded DEF CreateTool
  <2>3. Closed(run)
    BY <1>10 DEF CreateTool, Stepping, AllClosed, Closed
  <2>4. ClosedBefore(run)'
    BY <1>10, <2>2, <2>3 DEF CreateTool, Closed, ClosedBefore
  <2>5. TypeOK'
    BY <1>10, <2>1, <2>2
       DEF CreateTool, StepStatuses, StepTerminal, Messages, Stepping, Answering
  <2>6. Phases'
    BY <1>10, <2>1, <2>2 DEF CreateTool
  <2>7. Stepping'
    BY <1>10, <2>1, <2>2, <2>4
       DEF CreateTool, Stepping, OneOpen, AllClosed, Answering
  <2>8. Talking'
    BY <1>10, <2>1, <2>2 DEF CreateTool, Talking, Answering, Messages
  <2>9. AtRest'
    BY <1>10, <2>1, <2>2
       DEF CreateTool, Stepping, OneOpen, AllClosed, Closed, ActiveRunIsSaved,
           BegunRunIsActive, EndedRunHasNoOpenStep
  <2> QED BY <2>5, <2>6, <2>7, <2>8, <2>9
<1>11. CASE StartTool
  <2>1. run \in Runs /\ steps[run] # <<>>
    BY <1>11, Mine DEF StartTool, Stepping, OneOpen, AllClosed
  <2>2. /\ steps' \in [Runs -> Seq(StepStatuses)]
        /\ \A r \in Runs : r # run => steps'[r] = steps[r]
        /\ Len(steps'[run]) = Len(steps[run])
        /\ \A n \in 1 .. Len(steps[run]) :
             steps'[run][n] = IF n = Len(steps[run]) THEN "executing" ELSE steps[run][n]
        /\ steps'[run] # <<>>
    BY <1>11, <2>1, StepSaved DEF StartTool, StepStatuses, StepTerminal
  <2>3. TypeOK'
    BY <1>11, <2>1, <2>2
       DEF StartTool, StepStatuses, StepTerminal, Messages, Stepping, Answering
  <2>4. Phases'
    BY <1>11, <2>1, <2>2 DEF StartTool
  <2>5. Stepping'
    BY <1>11, <2>1, <2>2
       DEF StartTool, Stepping, OneOpen, AllClosed, Answering, Closed,
           ClosedBefore, StepTerminal
  <2>6. Talking'
    BY <1>11, <2>1, <2>2 DEF StartTool, Talking, Answering, Messages
  <2>7. AtRest'
    BY <1>11, <2>1, <2>2
       DEF StartTool, Stepping, OneOpen, AllClosed, Closed, ActiveRunIsSaved,
           BegunRunIsActive, EndedRunHasNoOpenStep
  <2> QED BY <2>3, <2>4, <2>5, <2>6, <2>7
<1>12. CASE FinishTool
  <2>1. PICK s \in StepTerminal : StepBecomes(s)
    BY <1>12 DEF FinishTool
  <2>2. IInv'
    <3>1. run \in Runs /\ steps[run] # <<>>
      BY <1>12, <2>1, Mine DEF FinishTool, Stepping, OneOpen, AllClosed
    <3>2. /\ steps' \in [Runs -> Seq(StepStatuses)]
          /\ \A r \in Runs : r # run => steps'[r] = steps[r]
          /\ Len(steps'[run]) = Len(steps[run])
          /\ \A n \in 1 .. Len(steps[run]) :
               steps'[run][n] = IF n = Len(steps[run]) THEN s ELSE steps[run][n]
          /\ steps'[run] # <<>>
      BY <1>12, <2>1, <3>1, StepSaved DEF FinishTool, StepStatuses, StepTerminal
    <3>3. TypeOK'
      BY <1>12, <2>1, <3>1, <3>2
         DEF FinishTool, StepStatuses, StepTerminal, Messages, Stepping,
             Answering
    <3>4. Phases'
      BY <1>12, <2>1, <3>1, <3>2 DEF FinishTool
    <3>5. Stepping'
      BY <1>12, <2>1, <3>1, <3>2
         DEF FinishTool, Stepping, OneOpen, AllClosed, Answering, Closed,
             ClosedBefore, StepTerminal
    <3>6. Talking'
      BY <1>12, <2>1, <3>1, <3>2 DEF FinishTool, Talking, Answering, Messages
    <3>7. AtRest'
      BY <1>12, <2>1, <3>1, <3>2
         DEF FinishTool, Stepping, OneOpen, AllClosed, Closed, ActiveRunIsSaved,
             BegunRunIsActive, EndedRunHasNoOpenStep
    <3> QED BY <3>3, <3>4, <3>5, <3>6, <3>7
  <2> QED BY <2>2
<1>13. CASE AppendResults
  <2>1. TypeOK'
    BY <1>13, Said
       DEF AppendResults, StepStatuses, StepTerminal, Messages, Stepping,
           Answering
  <2>2. Phases'
    BY <1>13, Said DEF AppendResults
  <2>3. Stepping'
    BY <1>13, Said
       DEF AppendResults, Stepping, OneOpen, AllClosed, Answering, Closed,
           ClosedBefore, StepTerminal
  <2>4. Talking'
    BY <1>13, Said DEF AppendResults, Talking, Answering, Messages
  <2>5. AtRest'
    BY <1>13, Said
       DEF AppendResults, Stepping, OneOpen, AllClosed, Closed,
           ActiveRunIsSaved, BegunRunIsActive, EndedRunHasNoOpenStep
  <2> QED BY <2>1, <2>2, <2>3, <2>4, <2>5
<1>14. CASE NextTurn
  <2>1. CASE pc = "create_next"
    <3>1. run \in Runs
      BY <1>14, <2>1, Mine DEF NextTurn
    <3>2. /\ steps' \in [Runs -> Seq(StepStatuses)]
          /\ \A r \in Runs : r # run => steps'[r] = steps[r]
          /\ Len(steps[run]) \in Nat /\ Len(steps'[run]) = Len(steps[run]) + 1
          /\ \A n \in 1 .. Len(steps[run]) : steps'[run][n] = steps[run][n]
          /\ steps'[run] # <<>>
      BY <1>14, <2>1, <3>1, StepAdded DEF NextTurn
    <3>3. Closed(run)
      BY <1>14, <2>1 DEF NextTurn, Stepping, AllClosed, Closed
    <3>4. ClosedBefore(run)'
      BY <1>14, <2>1, <3>2, <3>3 DEF NextTurn, Closed, ClosedBefore
    <3>5. TypeOK'
      BY <1>14, <2>1, <3>1, <3>2
         DEF NextTurn, StepStatuses, StepTerminal, Messages, Stepping, Answering
    <3>6. Phases'
      BY <1>14, <2>1, <3>1, <3>2 DEF NextTurn
    <3>7. Stepping'
      BY <1>14, <2>1, <3>1, <3>2, <3>4
         DEF NextTurn, Stepping, OneOpen, AllClosed, Answering
    <3>8. Talking'
      BY <1>14, <2>1, <3>1, <3>2 DEF NextTurn, Talking, Answering, Messages
    <3>9. AtRest'
      BY <1>14, <2>1, <3>1, <3>2
         DEF NextTurn, Stepping, OneOpen, AllClosed, Closed, ActiveRunIsSaved,
             BegunRunIsActive, EndedRunHasNoOpenStep
    <3> QED BY <3>5, <3>6, <3>7, <3>8, <3>9
  <2>2. CASE pc = "start_next"
    <3>1. run \in Runs /\ steps[run] # <<>>
      BY <1>14, <2>2, Mine DEF NextTurn, Stepping, OneOpen, AllClosed
    <3>2. /\ steps' \in [Runs -> Seq(StepStatuses)]
          /\ \A r \in Runs : r # run => steps'[r] = steps[r]
          /\ Len(steps'[run]) = Len(steps[run])
          /\ \A n \in 1 .. Len(steps[run]) :
               steps'[run][n] = IF n = Len(steps[run]) THEN "executing" ELSE steps[run][n]
          /\ steps'[run] # <<>>
      BY <1>14, <2>2, <3>1, StepSaved DEF NextTurn, StepStatuses, StepTerminal
    <3>3. TypeOK'
      BY <1>14, <2>2, <3>1, <3>2
         DEF NextTurn, StepStatuses, StepTerminal, Messages, Stepping, Answering
    <3>4. Phases'
      BY <1>14, <2>2, <3>1, <3>2 DEF NextTurn
    <3>5. Stepping'
      BY <1>14, <2>2, <3>1, <3>2
         DEF NextTurn, Stepping, OneOpen, AllClosed, Answering, Closed,
             ClosedBefore, StepTerminal
    <3>6. Talking'
      BY <1>14, <2>2, <3>1, <3>2 DEF NextTurn, Talking, Answering, Messages
    <3>7. AtRest'
      BY <1>14, <2>2, <3>1, <3>2
         DEF NextTurn, Stepping, OneOpen, AllClosed, Closed, ActiveRunIsSaved,
             BegunRunIsActive, EndedRunHasNoOpenStep
    <3> QED BY <3>3, <3>4, <3>5, <3>6, <3>7
  <2> QED BY <1>14, <2>1, <2>2 DEF NextTurn
<1>15. CASE FinishStep
  <2>1. run \in Runs /\ steps[run] # <<>>
    BY <1>15, Mine DEF FinishStep, Stepping, OneOpen, AllClosed
  <2>2. /\ steps' \in [Runs -> Seq(StepStatuses)]
        /\ \A r \in Runs : r # run => steps'[r] = steps[r]
        /\ Len(steps'[run]) = Len(steps[run])
        /\ \A n \in 1 .. Len(steps[run]) :
             steps'[run][n] = IF n = Len(steps[run]) THEN "succeeded" ELSE steps[run][n]
        /\ steps'[run] # <<>>
    BY <1>15, <2>1, StepSaved DEF FinishStep, StepStatuses, StepTerminal
  <2>3. TypeOK'
    BY <1>15, <2>1, <2>2
       DEF FinishStep, StepStatuses, StepTerminal, Messages, Stepping, Answering
  <2>4. Phases'
    BY <1>15, <2>1, <2>2 DEF FinishStep
  <2>5. Stepping'
    BY <1>15, <2>1, <2>2
       DEF FinishStep, Stepping, OneOpen, AllClosed, Answering, Closed,
           ClosedBefore, StepTerminal
  <2>6. Talking'
    BY <1>15, <2>1, <2>2 DEF FinishStep, Talking, Answering, Messages
  <2>7. AtRest'
    BY <1>15, <2>1, <2>2
       DEF FinishStep, Stepping, OneOpen, AllClosed, Closed, ActiveRunIsSaved,
           BegunRunIsActive, EndedRunHasNoOpenStep
  <2> QED BY <2>3, <2>4, <2>5, <2>6, <2>7
<1>16. CASE EndRun
  <2>1. TypeOK'
    BY <1>16, Mine
       DEF EndRun, StepStatuses, StepTerminal, Messages, Stepping, Answering
  <2>2. Phases'
    BY <1>16, Mine DEF EndRun
  <2>3. Stepping'
    BY <1>16, Mine
       DEF EndRun, Stepping, OneOpen, AllClosed, Answering, Closed,
           ClosedBefore, StepTerminal
  <2>4. Talking'
    BY <1>16, Mine DEF EndRun, Talking, Answering, Messages
  <2>5. AtRest'
    BY <1>16, Mine
       DEF EndRun, Stepping, OneOpen, AllClosed, Closed, ActiveRunIsSaved,
           BegunRunIsActive, EndedRunHasNoOpenStep
  <2> QED BY <2>1, <2>2, <2>3, <2>4, <2>5
<1>17. CASE FreeSession
  <2>1. TypeOK'
    BY <1>17, Mine
       DEF FreeSession, StepStatuses, StepTerminal, Messages, Stepping,
           Answering
  <2>2. Phases'
    BY <1>17, Mine DEF FreeSession
  <2>3. Stepping'
    BY <1>17, Mine
       DEF FreeSession, Stepping, OneOpen, AllClosed, Answering, Closed,
           ClosedBefore, StepTerminal
  <2>4. Talking'
    BY <1>17, Mine DEF FreeSession, Talking, Answering, Messages
  <2>5. AtRest'
    BY <1>17, Mine
       DEF FreeSession, Stepping, OneOpen, AllClosed, Closed, ActiveRunIsSaved,
           BegunRunIsActive, EndedRunHasNoOpenStep
  <2> QED BY <2>1, <2>2, <2>3, <2>4, <2>5
<1>18. CASE Raise
  <2>1. TypeOK'
    BY <1>18, Mine
       DEF Raise, StepStatuses, StepTerminal, Messages, Stepping, Answering
  <2>2. Phases'
    BY <1>18, Mine DEF Raise
  <2>3. Stepping'
    BY <1>18, Mine
       DEF Raise, Stepping, OneOpen, AllClosed, Answering, Closed, ClosedBefore,
           StepTerminal
  <2>4. Talking'
    BY <1>18, Mine DEF Raise, Talking, Answering, Messages
  <2>5. AtRest'
    BY <1>18, Mine
       DEF Raise, Stepping, OneOpen, AllClosed, Closed, ActiveRunIsSaved,
           BegunRunIsActive, EndedRunHasNoOpenStep
  <2> QED BY <2>1, <2>2, <2>3, <2>4, <2>5
<1>19. ASSUME NEW t \in Threads, Prompt(t)
      PROVE  IInv'
  <2>1. TypeOK'
    BY <1>19
       DEF Prompt, StepStatuses, StepTerminal, Messages, Stepping, Answering
  <2>2. Phases'
    BY <1>19 DEF Prompt
  <2>3. Stepping'
    BY <1>19
       DEF Prompt, Stepping, OneOpen, AllClosed, Answering, Closed,
           ClosedBefore, StepTerminal
  <2>4. Talking'
    BY <1>19 DEF Prompt, Talking, Answering, Messages
  <2>5. AtRest'
    BY <1>19
       DEF Prompt, Stepping, OneOpen, AllClosed, Closed, ActiveRunIsSaved,
           BegunRunIsActive, EndedRunHasNoOpenStep
  <2> QED BY <2>1, <2>2, <2>3, <2>4, <2>5
<1>20. CASE UNCHANGED vars
  BY <1>20 DEF vars, locals, files, Phases, Stepping, Talking, AtRest, Closed,
     ClosedBefore, ActiveRunIsSaved, BegunRunIsActive, EndedRunHasNoOpenStep
<1> QED
  BY <1>1, <1>2, <1>3, <1>4, <1>5, <1>6, <1>7, <1>8, <1>9, <1>10, <1>11, <1>12,
     <1>13, <1>14, <1>15, <1>16, <1>17, <1>18, <1>19, <1>20
     DEF Next, Advance

-----------------------------------------------------------------------------
\* The invariant holds throughout.
LEMMA Inductive == Spec => []IInv
BY InitHolds, StepHolds, PTL DEF Spec

\* Every variable keeps the shape the loop and its files give it: in particular
\* no Run takes more than max_turns turns.
THEOREM RunTypeCorrect == Spec => []TypeOK
<1>1. IInv => TypeOK
  BY DEF IInv
<1> QED BY <1>1, Inductive, PTL

\* handle saves what the session refers to before the session: whatever save it
\* is cut off at, the Run and the Step that active_run_id leads to are there.
THEOREM SessionNamesSavedRun == Spec => []ActiveRunIsSaved
<1>1. IInv => ActiveRunIsSaved
  BY DEF IInv, AtRest
<1> QED BY <1>1, Inductive, PTL

\* execute saves a Run's end before it frees the session: no Run is running that
\* its session has forgotten.
THEOREM SessionKeepsBegunRun == Spec => []BegunRunIsActive
<1>1. IInv => BegunRunIsActive
  BY DEF IInv, AtRest
<1> QED BY <1>1, Inductive, PTL

\* A Run is completed or exhausted only with every Step succeeded or failed.
THEOREM EndedRunIsClosed == Spec => []EndedRunHasNoOpenStep
<1>1. IInv => EndedRunHasNoOpenStep
  BY DEF IInv, AtRest
<1> QED BY <1>1, Inductive, PTL

\* The conversation the model is given never has a tool call without results,
\* although any call between the two may raise: start_run refuses the session
\* that was left with one.
THEOREM ConversationWellFormed == Spec => []ToolCallsAreAnswered
<1>1. IInv => ToolCallsAreAnswered
  <2> SUFFICES ASSUME IInv, NEW n \in 1 .. Len(log), log[n] = "tool_use"
               PROVE  IF n < Len(log) THEN log[n + 1] = "results" ELSE active # None
    BY DEF ToolCallsAreAnswered
  <2>1. log \in Seq(Messages) /\ Len(log) \in Nat
    BY DEF IInv, TypeOK
  <2>2. CASE n < Len(log)
    BY <2>2 DEF IInv, Talking
  <2>3. CASE n = Len(log)
    BY <2>1, <2>3, NoneIsNothing
       DEF IInv, TypeOK, Phases, Talking, Answering, Executing, Places, Saving
  <2> QED BY <2>1, <2>2, <2>3
<1> QED BY <1>1, Inductive, PTL
=============================================================================
