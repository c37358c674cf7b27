------------------------------ MODULE ToolProofs ------------------------------
(***************************************************************************)
(* Proofs about the tools a model calls, for any threads, calls, servers    *)
(* and limits: first the calls themselves (ToolCalls), then the servers     *)
(* that offer tools of their own (McpClient).                               *)
(*                                                                         *)
(* Calls.  The invariant says what the stack of a thread, the result of    *)
(* its last call and the Run of its subagent have to do with each other    *)
(* (Thread), and that a loop counts exactly its turns, each of a request   *)
(* that waits for its answer (Counting).                                   *)
(*                                                                         *)
(* Servers.  The invariant says whose client is open while a connection is *)
(* being made (Clients), that the registry has the tools of the            *)
(* connections and one name for each (Registered), and that no message on  *)
(* its way has the number of a request still to be made (Numbered).        *)
(***************************************************************************)
EXTENDS ToolCalls, McpClient, TLAPS, SequenceTheorems, FiniteSetTheorems

-----------------------------------------------------------------------------
(* Calls. *)

\* What a call of a Run of loop l needs beside the answers of the user, and those
\* it needs.
Allowed(l, depth, wish, conn) ==
  /\ wish.args \notin {"invalid", "denied"}
  /\ depth = 2 => wish.tool = "edit"
  /\ wish.tool \in {"connect", "external"} => l = "lead"
  /\ wish.tool = "external" => conn

Consented(wish, yes) ==
  /\ wish.tool \in {"connect", "external"} => "server" \in yes
  /\ wish.args = "risky" => "rule" \in yes

\* A frame of the stack: it is asked about once, then it has the answer.
OnStack(l, depth, f, conn) ==
  /\ Allowed(l, depth, f.call, conn)
  /\ f.at = "asking" => f.yes = {} /\ Asked(f.call) # <<>>
  /\ f.at # "asking" => Consented(f.call, f.yes)

\* No call is on the stack: there is no result, or that of the last call.
Between(l, r, ch, conn) ==
  \/ r = NoResult /\ ch = NoChild
  \/ /\ r \in Result /\ r.child = ch
     /\ r.ran => Allowed(l, 1, r.call, conn) /\ Consented(r.call, r.yes)
     /\ r.ok => r.ran
     /\ r.ok /\ r.call.tool = "task" =>
          ch.run \in {"completed", "exhausted"} /\ ~ch.held
     /\ ~r.ok /\ ch # NoChild => ch.held \/ ch.run = "completed"

\* The call of the Run, and the Run of its subagent if it has one.
OwnCall(l, f, ch, conn) ==
  /\ OnStack(l, 1, f, conn)
  /\ f.at \in {"asking", "running"} => ch = NoChild
  /\ f.at \in {"delegated", "closing"} => f.call.tool = "task" /\ ch.held
  /\ f.at = "delegated" => ch.run = "running" /\ ch.turn < ChildTurns
  /\ f.at = "closing" => ch.run \in {"completed", "exhausted"}

\* The call of the subagent above it.
ChildCall(l, f, g, ch, conn) ==
  /\ OwnCall(l, f, ch, conn) /\ f.at = "delegated"
  /\ OnStack(l, 2, g, conn) /\ g.at \in {"asking", "running"}

Thread(l, fs, r, ch, conn) ==
  \/ fs = <<>> /\ Between(l, r, ch, conn)
  \/ /\ r = NoResult
     /\ \/ \E f \in Frame : fs = <<f>> /\ OwnCall(l, f, ch, conn)
        \/ \E f, g \in Frame : fs = <<f, g>> /\ ChildCall(l, f, g, ch, conn)

Stacks == \A t \in Threads : Thread(on[t], frames[t], told[t], child[t], connected)

\* A loop counts its turns, and a turn is that of a request.
Counting ==
  /\ since = counter
  /\ \A t \in Threads : frames[t] # <<>> \/ told[t] # NoResult => requested[t]

CallsInv == ToolCallsTypeOK /\ Stacks /\ Counting /\ RemindedInTime

-----------------------------------------------------------------------------
(* The policies. *)

\* At most one question is asked about a call, and its answer is what the call
\* needs.
LEMMA OneQuestion ==
  ASSUME NEW wish \in Calls, Asked(wish) # <<>>
  PROVE  \E q \in Questions : Asked(wish) = <<q>> /\ Consented(wish, {q})
<1>1. CASE wish.tool \in {"edit", "bash"} /\ wish.args = "risky"
  <2>1. wish.tool \notin {"connect", "external"}
    BY <1>1
  <2>2. Asked(wish) = <<"rule">> \o <<>>
    BY <1>1, <2>1 DEF Asked
  <2>3. Asked(wish) = <<"rule">>
    BY <2>2
  <2> QED BY <2>1, <2>3 DEF Questions, Consented
<1>2. CASE wish.tool \in {"connect", "external"}
  <2>1. wish.tool \notin {"edit", "bash"}
    BY <1>2
  <2>2. wish.args # "risky"
    BY <2>1 DEF Calls
  <2>3. Asked(wish) = <<>> \o <<"server">>
    BY <1>2, <2>1 DEF Asked
  <2>4. Asked(wish) = <<"server">>
    BY <2>3
  <2> QED BY <2>2, <2>4 DEF Questions, Consented
<1>3. CASE /\ ~(wish.tool \in {"edit", "bash"} /\ wish.args = "risky")
           /\ wish.tool \notin {"connect", "external"}
  <2>1. Asked(wish) = <<>> \o <<>>
    BY <1>3 DEF Asked
  <2> QED BY <2>1
<1> QED BY <1>1, <1>2, <1>3

LEMMA NoQuestion ==
  ASSUME NEW wish \in Calls, Asked(wish) = <<>>
  PROVE  Consented(wish, {})
<1>1. CASE wish.tool \in {"edit", "bash"} /\ wish.args = "risky"
  <2>1. Asked(wish) = <<"rule">> \o <<>>
    BY <1>1 DEF Asked
  <2>2. Asked(wish) = <<"rule">>
    BY <2>1
  <2>3. <<"rule">> # <<>>
    OBVIOUS
  <2> QED BY <2>2, <2>3
<1>2. CASE wish.tool \in {"connect", "external"}
  <2>1. Asked(wish) = <<>> \o <<"server">>
    BY <1>2 DEF Asked
  <2>2. Asked(wish) = <<"server">>
    BY <2>1
  <2>3. <<"server">> # <<>>
    OBVIOUS
  <2> QED BY <2>2, <2>3
<1>3. CASE /\ ~(wish.tool \in {"edit", "bash"} /\ wish.args = "risky")
           /\ wish.tool \notin {"connect", "external"}
  BY <1>3 DEF Calls, Consented
<1> QED BY <1>1, <1>2, <1>3

\* A call that is not rejected is allowed.
LEMMA NotRejected ==
  ASSUME NEW t, NEW wish \in Calls, NEW depth \in {1, 2}, ~Rejected(t, wish, depth)
  PROVE  Allowed(on[t], depth, wish, connected)
<1>1. wish.args # "invalid" /\ wish.args # "denied"
  BY DEF Rejected, Denied, Calls
<1>2. CASE depth = 1
  BY <1>1, <1>2 DEF Rejected, Pool, OwnPool, Allowed
<1>3. CASE depth = 2
  BY <1>1, <1>3 DEF Rejected, Pool, ChildPool, Allowed
<1> QED BY <1>2, <1>3

-----------------------------------------------------------------------------
(* The stack. *)

LEMMA PushFrame ==
  ASSUME NEW f \in Frame, NEW g \in Frame
  PROVE  Append(<<f>>, g) = <<f, g>>
<1>1. <<f>> \in Seq(Frame) /\ <<f, g>> \in Seq(Frame)
      /\ Len(<<f>>) = 1 /\ Len(<<f, g>>) = 2
      /\ <<f>>[1] = f /\ <<f, g>>[1] = f /\ <<f, g>>[2] = g
  OBVIOUS
<1> DEFINE s == Append(<<f>>, g)
<1>2. s \in Seq(Frame) /\ Len(s) = 2 /\ s[1] = f /\ s[2] = g
  BY <1>1, AppendProperties
<1>3. \A i \in 1 .. Len(s) : s[i] = <<f, g>>[i]
  BY <1>1, <1>2
<1> QED BY <1>1, <1>2, <1>3, SeqEqual

LEMMA OneFrame ==
  ASSUME NEW t \in Threads, NEW f \in Frame, frames[t] = <<f>>
  PROVE  frames[t] # <<>> /\ Top(t) = f /\ Below(t) = <<>>
<1>1. Len(<<f>>) = 1 /\ <<f>>[1] = f /\ <<f>> # <<>> /\ SubSeq(<<f>>, 1, 0) = <<>>
  OBVIOUS
<1> QED BY <1>1 DEF Top, Below

LEMMA TwoFrames ==
  ASSUME NEW t \in Threads, NEW f \in Frame, NEW g \in Frame, frames[t] = <<f, g>>
  PROVE  frames[t] # <<>> /\ Top(t) = g /\ Below(t) = <<f>>
<1>1. Len(<<f, g>>) = 2 /\ <<f, g>>[2] = g /\ <<f, g>> # <<>>
  OBVIOUS
<1>2. SubSeq(<<f, g>>, 1, 1) = <<f>>
  <2>1. <<f, g>> \in Seq(Frame) /\ <<f, g>>[1] = f /\ <<f>> \in Seq(Frame)
        /\ Len(<<f>>) = 1 /\ <<f>>[1] = f
    OBVIOUS
  <2>2. /\ SubSeq(<<f, g>>, 1, 1) \in Seq(Frame)
        /\ Len(SubSeq(<<f, g>>, 1, 1)) = 1
        /\ SubSeq(<<f, g>>, 1, 1)[1] = f
    BY <2>1, SubSeqProperties
  <2>3. \A i \in 1 .. Len(<<f>>) : SubSeq(<<f, g>>, 1, 1)[i] = <<f>>[i]
    BY <2>1, <2>2
  <2> QED BY <2>1, <2>2, <2>3, SeqEqual
<1> QED BY <1>1, <1>2 DEF Top, Below

\* The stacks there are.
LEMMA ThreadStacks ==
  ASSUME NEW t \in Threads, Stacks
  PROVE  \/ /\ frames[t] = <<>>
            /\ Between(on[t], told[t], child[t], connected)
         \/ /\ told[t] = NoResult /\ frames[t] # <<>>
            /\ Top(t) \in Frame /\ frames[t] = <<Top(t)>> /\ Below(t) = <<>>
            /\ OwnCall(on[t], Top(t), child[t], connected)
         \/ /\ told[t] = NoResult /\ frames[t] # <<>>
            /\ Top(t) \in Frame
            /\ \E f \in Frame :
                  /\ frames[t] = <<f, Top(t)>> /\ Below(t) = <<f>>
                  /\ ChildCall(on[t], f, Top(t), child[t], connected)
<1>1. Thread(on[t], frames[t], told[t], child[t], connected)
  BY DEF Stacks
<1>2. CASE \E f \in Frame : frames[t] = <<f>> /\ OwnCall(on[t], f, child[t], connected)
  BY <1>1, <1>2, OneFrame DEF Thread
<1>3. CASE \E f, g \in Frame : /\ frames[t] = <<f, g>>
                              /\ ChildCall(on[t], f, g, child[t], connected)
  <2>1. PICK f \in Frame, g \in Frame :
             frames[t] = <<f, g>> /\ ChildCall(on[t], f, g, child[t], connected)
    BY <1>3
  <2>2. frames[t] # <<>> /\ Top(t) = g /\ Below(t) = <<f>>
    BY <2>1, TwoFrames
  <2>3. told[t] = NoResult
    BY <1>1, <2>2 DEF Thread
  <2> QED BY <2>1, <2>2, <2>3
<1> QED BY <1>1, <1>2, <1>3 DEF Thread

\* A server that is connected stays so.
LEMMA ThreadKept ==
  ASSUME NEW l, NEW fs, NEW r, NEW ch, NEW old \in BOOLEAN, NEW new \in BOOLEAN, old => new,
         Thread(l, fs, r, ch, old)
  PROVE  Thread(l, fs, r, ch, new)
BY DEF Thread, Between, ChildCall, OwnCall, OnStack, Allowed

\* A step of thread t changes its own entries only, to those of a thread.
Moves(t, fs, r, ch) ==
  /\ frames' = [frames EXCEPT ![t] = fs]
  /\ told' = [told EXCEPT ![t] = r]
  /\ child' = [child EXCEPT ![t] = ch]
  /\ connected' \in BOOLEAN
  /\ connected => connected'
  /\ on' \in [Threads -> AgentLoops]
  /\ \A u \in Threads \ {t} : on'[u] = on[u]
  /\ fs \in Seq(Frame) /\ Len(fs) <= 2
  /\ r \in Result \cup {NoResult} /\ ch \in Child
  /\ Thread(on'[t], fs, r, ch, connected')

LEMMA MovesKeep ==
  ASSUME ToolCallsTypeOK, Stacks, NEW t \in Threads, NEW fs, NEW r, NEW ch,
         Moves(t, fs, r, ch)
  PROVE  /\ frames' \in [Threads -> Seq(Frame)]
         /\ \A u \in Threads : Len(frames'[u]) <= 2
         /\ told' \in [Threads -> Result \cup {NoResult}]
         /\ child' \in [Threads -> Child]
         /\ connected' \in BOOLEAN
         /\ Stacks'
<1>1. /\ frames' \in [Threads -> Seq(Frame)]
      /\ told' \in [Threads -> Result \cup {NoResult}]
      /\ child' \in [Threads -> Child]
      /\ connected' \in BOOLEAN /\ connected \in BOOLEAN
  BY DEF ToolCallsTypeOK, Moves
<1>2. /\ frames'[t] = fs /\ told'[t] = r /\ child'[t] = ch
      /\ \A u \in Threads \ {t} :
            frames'[u] = frames[u] /\ told'[u] = told[u] /\ child'[u] = child[u]
  BY DEF ToolCallsTypeOK, Moves
<1>3. \A u \in Threads : Len(frames'[u]) <= 2
  BY <1>2 DEF ToolCallsTypeOK, Moves
<1>4. ASSUME NEW u \in Threads
      PROVE  Thread(on'[u], frames'[u], told'[u], child'[u], connected')
  <2>1. CASE u = t
    BY <1>2, <2>1 DEF Moves
  <2>2. CASE u # t
    <3>1. Thread(on[u], frames[u], told[u], child[u], connected)
      BY DEF Stacks
    <3>2. connected => connected'
      BY DEF Moves
    <3>3. Thread(on[u], frames[u], told[u], child[u], connected')
      BY <1>1, <3>1, <3>2, ThreadKept
    <3>4. on'[u] = on[u]
      BY <2>2 DEF Moves
    <3> QED BY <1>2, <2>2, <3>3, <3>4
  <2> QED BY <2>1, <2>2
<1> QED BY <1>1, <1>3, <1>4 DEF Stacks

-----------------------------------------------------------------------------
(* What the operators that actions share come to. *)

\* Only the end of a turn and a request touch the counts, and only a request the
\* loop of a Run.
LEMMA CountsKept ==
  ASSUME ToolCallsTypeOK, NEW t \in Threads,
         \/ ModelStep(t) \/ UserStep(t) \/ ToolStep(t) \/ SubagentStep(t) \/ TakeResult(t)
  PROVE  /\ UNCHANGED <<on, requested, counter, since>>
         /\ todoList' \in {todoList, {t}}
         /\ updated' \in [Threads -> BOOLEAN]
<1>1. ASSUME NEW wish, NEW ok \in BOOLEAN, NEW ran, NEW yes, NEW rest,
             End(t, wish, ok, ran, yes, rest)
      PROVE  UNCHANGED <<on, requested, counter, since>> /\ updated' \in [Threads -> BOOLEAN]
  BY <1>1 DEF End, GiveResult, ChildReturns, ToolCallsTypeOK
<1>2. ASSUME NEW ran, FailCall(t, ran)
      PROVE  UNCHANGED <<on, requested, counter, since, todoList>>
             /\ updated' \in [Threads -> BOOLEAN]
  BY <1>1, <1>2 DEF FailCall
<1>3. ASSUME NEW wish, NEW rest, Enter(t, wish, rest)
      PROVE  UNCHANGED <<on, requested, counter, since>> /\ updated' \in [Threads -> BOOLEAN]
  BY <1>1, <1>3 DEF Enter, turnVars, ToolCallsTypeOK
<1>4. CASE ModelStep(t)
  BY <1>3, <1>4 DEF ModelStep, AskForCall, ChildCalls
<1>5. CASE UserStep(t)
  BY <1>2, <1>5 DEF UserStep, SayYes, SayNo, HookRaises, HookRaised, turnVars, ToolCallsTypeOK
<1>6. CASE ToolStep(t)
  <2>1. CASE ToolSucceeds(t)
    BY <1>1, <2>1 DEF ToolSucceeds, WriteTodos
  <2>2. CASE ToolRaises(t)
    BY <1>2, <2>2 DEF ToolRaises
  <2>3. CASE Delegate(t)
    BY <2>3 DEF Delegate, turnVars, ToolCallsTypeOK
  <2> QED BY <1>6, <2>1, <2>2, <2>3 DEF ToolStep
<1>7. CASE SubagentStep(t)
  <2>1. CASE CloseChild(t)
    BY <2>1 DEF CloseChild, GiveResult, ToolCallsTypeOK
  <2>2. CASE ChildRaises(t)
    BY <1>2, <2>2 DEF ChildRaises
  <2>3. CASE ChildAnswers(t)
    BY <2>3 DEF ChildAnswers, turnVars, ToolCallsTypeOK
  <2> QED BY <1>7, <2>1, <2>2, <2>3 DEF SubagentStep
<1>8. CASE TakeResult(t)
  BY <1>8 DEF TakeResult, turnVars, ToolCallsTypeOK
<1> QED BY <1>4, <1>5, <1>6, <1>7, <1>8

\* The call of the Run ends.
LEMMA OwnCallEnds ==
  ASSUME ToolCallsTypeOK, Stacks, NEW t \in Threads,
         NEW wish \in Calls, NEW ok \in BOOLEAN, NEW ran \in BOOLEAN,
         NEW yes \in SUBSET Questions, NEW run \in Child,
         GiveResult(t, wish, ok, ran, yes, run),
         UNCHANGED on, connected' \in BOOLEAN, connected => connected',
         Between(on[t], [call |-> wish, ok |-> ok, ran |-> ran, yes |-> yes, child |-> run],
                 run, connected')
  PROVE  \E r : Moves(t, <<>>, r, run)
<1> DEFINE r == [call |-> wish, ok |-> ok, ran |-> ran, yes |-> yes, child |-> run]
<1>1. r \in Result
  BY DEF Result
<1>2. <<>> \in Seq(Frame) /\ Len(<<>>) <= 2
  OBVIOUS
<1>3. Moves(t, <<>>, r, run)
  BY <1>1, <1>2 DEF Moves, GiveResult, Thread, ToolCallsTypeOK
<1> QED BY <1>3

LEMMA ChildFields ==
  ASSUME NEW c \in Child, NEW n, NEW run
  PROVE  [c EXCEPT !.turn = n, !.run = run] = [run |-> run, held |-> c.held, turn |-> n]
<1>1. c = [run |-> c.run, held |-> c.held, turn |-> c.turn]
  BY DEF Child
<1>2. [c EXCEPT !.turn = n] = [run |-> c.run, held |-> c.held, turn |-> n]
  BY <1>1
<1>3. [[run |-> c.run, held |-> c.held, turn |-> n] EXCEPT !.run = run]
        = [run |-> run, held |-> c.held, turn |-> n]
  OBVIOUS
<1> QED BY <1>2, <1>3

\* A call of the subagent ends: it goes on, or has no turn left.
LEMMA ChildCallEnds ==
  ASSUME ToolCallsTypeOK, Stacks, NEW t \in Threads, NEW f \in Frame,
         told[t] = NoResult, OwnCall(on[t], f, child[t], connected), f.at = "delegated",
         ChildReturns(t, <<f>>), UNCHANGED <<on, connected>>
  PROVE  \E fs, ch : Moves(t, fs, NoResult, ch)
<1> DEFINE last == child[t].turn + 1 = ChildTurns
           g  == [f EXCEPT !.at = "closing"]
           fs == IF last THEN <<g>> ELSE <<f>>
           ch == [child[t] EXCEPT !.turn = @ + 1, !.run = IF last THEN "exhausted" ELSE @]
<1>1. child \in [Threads -> Child] /\ frames \in [Threads -> Seq(Frame)]
      /\ told \in [Threads -> Result \cup {NoResult}] /\ connected \in BOOLEAN
      /\ on \in [Threads -> AgentLoops]
  BY DEF ToolCallsTypeOK
<1>2. g \in Frame /\ g.call = f.call /\ g.yes = f.yes /\ g.at = "closing"
  BY DEF Frame, Places
<1>3. [<<f>> EXCEPT ![1].at = "closing"] = <<g>>
  OBVIOUS
<1>4. ch \in Child /\ ch.held = child[t].held
      /\ ch.run = (IF last THEN "exhausted" ELSE child[t].run)
      /\ ch.turn = child[t].turn + 1
  <2>1. child[t] \in Child /\ child[t].turn < ChildTurns
    BY <1>1 DEF OwnCall
  <2>2. child[t].turn + 1 \in 0 .. ChildTurns
    BY <2>1, ToolCallsAssumption DEF Child
  <2>3. ch = [run |-> IF last THEN "exhausted" ELSE child[t].run,
              held |-> child[t].held, turn |-> child[t].turn + 1]
    <3> DEFINE n == child[t].turn + 1
               run == IF last THEN "exhausted" ELSE child[t].run
    <3>1. [child[t] EXCEPT !.turn = n, !.run = run] = [run |-> run, held |-> child[t].held, turn |-> n]
      <4> HIDE DEF n, run
      <4> QED BY <2>1, ChildFields
    <3> QED BY <3>1
  <2> QED BY <2>1, <2>2, <2>3 DEF Child
<1>5. frames' = [frames EXCEPT ![t] = fs] /\ child' = [child EXCEPT ![t] = ch]
      /\ told' = [told EXCEPT ![t] = NoResult]
  BY <1>1, <1>3 DEF ChildReturns
<1>6. fs \in Seq(Frame) /\ Len(fs) <= 2
  BY <1>2
<1>7. Thread(on[t], fs, NoResult, ch, connected)
  <2>1. CASE last
    <3>1. OwnCall(on[t], g, ch, connected)
      BY <1>2, <1>4, <2>1 DEF OwnCall, OnStack
    <3> QED BY <1>2, <2>1, <3>1 DEF Thread
  <2>2. CASE ~last
    <3>1. OwnCall(on[t], f, ch, connected)
      BY <1>1, <1>4, <2>2, ToolCallsAssumption DEF OwnCall, OnStack, Child
    <3> QED BY <2>2, <3>1 DEF Thread
  <2> QED BY <2>1, <2>2
<1>8. Moves(t, fs, NoResult, ch)
  BY <1>1, <1>4, <1>5, <1>6, <1>7 DEF Moves
<1> QED BY <1>8

\* What a thread has while no call of it is on its stack.
LEMMA NothingYet ==
  ASSUME NEW t \in Threads, Stacks, frames[t] = <<>>, told[t] = NoResult
  PROVE  child[t] = NoChild
<1>1. NoResult \notin Result
  BY ToolCallsAssumption DEF NoResult, Result
<1>2. Between(on[t], told[t], child[t], connected)
  BY ThreadStacks
<1> QED BY <1>1, <1>2 DEF Between

LEMMA NoChildIsChild == NoChild \in Child
BY ToolCallsAssumption DEF NoChild, Child

\* The call on top of the stack fails.
LEMMA CallFails ==
  ASSUME ToolCallsTypeOK, Stacks, NEW t \in Threads, frames[t] # <<>>,
         NEW ran \in BOOLEAN, ran <=> Top(t).at # "asking", FailCall(t, ran)
  PROVE  \E fs, r, ch : Moves(t, fs, r, ch)
<1>1. UNCHANGED <<on, connected>> /\ connected \in BOOLEAN
  BY DEF FailCall, End, ToolCallsTypeOK
<1>2. child[t] \in Child
  BY DEF ToolCallsTypeOK
<1>3. End(t, Top(t).call, FALSE, ran, Top(t).yes, Below(t))
  BY DEF FailCall
<1>4. CASE /\ told[t] = NoResult /\ Top(t) \in Frame /\ Below(t) = <<>>
           /\ OwnCall(on[t], Top(t), child[t], connected)
  <2>1. Top(t).call \in Calls /\ Top(t).yes \in SUBSET Questions /\ Top(t).at \in Places
    BY <1>4 DEF Frame
  <2>2. GiveResult(t, Top(t).call, FALSE, ran, Top(t).yes, child[t])
    BY <1>3, <1>4 DEF End
  <2> DEFINE r == [call |-> Top(t).call, ok |-> FALSE, ran |-> ran,
                   yes |-> Top(t).yes, child |-> child[t]]
  <2>3. Between(on[t], r, child[t], connected)
    <3>1. r \in Result
      BY <1>2, <2>1 DEF Result
    <3>2. ran => Allowed(on[t], 1, Top(t).call, connected) /\ Consented(Top(t).call, Top(t).yes)
      BY <1>4 DEF OwnCall, OnStack
    <3>3. child[t] # NoChild => child[t].held
      BY <1>4, <2>1 DEF OwnCall, Places
    <3> QED BY <3>1, <3>2, <3>3 DEF Between
  <2>4. \E q : Moves(t, <<>>, q, child[t])
    BY <1>1, <1>2, <2>1, <2>2, <2>3, OwnCallEnds
  <2> QED BY <2>4
<1>5. CASE \E f \in Frame :
             /\ told[t] = NoResult /\ Below(t) = <<f>>
             /\ ChildCall(on[t], f, Top(t), child[t], connected)
  <2>1. PICK f \in Frame : /\ told[t] = NoResult /\ Below(t) = <<f>>
                           /\ ChildCall(on[t], f, Top(t), child[t], connected)
    BY <1>5
  <2>2. <<f>> # <<>>
    OBVIOUS
  <2>3. ChildReturns(t, <<f>>)
    BY <1>3, <2>1, <2>2 DEF End
  <2>4. \E fs, ch : Moves(t, fs, NoResult, ch)
    BY <1>1, <2>1, <2>3, ChildCallEnds DEF ChildCall
  <2> QED BY <2>4
<1> QED BY <1>4, <1>5, ThreadStacks

\* A call of the Run is entered.
LEMMA OwnCallEntered ==
  ASSUME ToolCallsTypeOK, Stacks, NEW t \in Threads, NEW wish \in Calls,
         frames[t] = <<>>, told[t] = NoResult, Enter(t, wish, <<>>), UNCHANGED <<on, connected>>
  PROVE  \E fs, r, ch : Moves(t, fs, r, ch)
<1>1. child[t] = NoChild /\ child[t] \in Child /\ connected \in BOOLEAN
  BY NothingYet, NoChildIsChild DEF ToolCallsTypeOK
<1>2. Len(<<>>) + 1 = 1
  OBVIOUS
<1>3. CASE Rejected(t, wish, 1)
  <2>1. GiveResult(t, wish, FALSE, FALSE, {}, child[t])
    BY <1>2, <1>3 DEF Enter, End
  <2>2. Between(on[t], [call |-> wish, ok |-> FALSE, ran |-> FALSE, yes |-> {},
                    child |-> child[t]], child[t], connected)
    BY <1>1 DEF Between, Result
  <2>3. \E r : Moves(t, <<>>, r, child[t])
    BY <1>1, <2>1, <2>2, OwnCallEnds
  <2> QED BY <2>3
<1>4. CASE ~Rejected(t, wish, 1)
  <2> DEFINE f == [call |-> wish, yes |-> {},
                   at |-> IF Asked(wish) = <<>> THEN "running" ELSE "asking"]
  <2>1. Append(<<>>, f) = <<f>>
    OBVIOUS
  <2>2. frames' = [frames EXCEPT ![t] = <<f>>] /\ UNCHANGED <<told, child>>
    BY <1>2, <1>4, <2>1 DEF Enter
  <2>3. f \in Frame
    BY DEF Frame, Places
  <2>4. Allowed(on[t], 1, wish, connected)
    BY <1>4, NotRejected
  <2>5. OnStack(on[t], 1, f, connected)
    BY <2>4, NoQuestion DEF OnStack
  <2>6. OwnCall(on[t], f, NoChild, connected)
    BY <2>5 DEF OwnCall
  <2>7. Thread(on[t], <<f>>, NoResult, NoChild, connected)
    BY <2>3, <2>6 DEF Thread
  <2>8. <<f>> \in Seq(Frame) /\ Len(<<f>>) <= 2
    BY <2>3
  <2>9. Moves(t, <<f>>, NoResult, NoChild)
    <3> HIDE DEF f
    <3> QED BY <1>1, <2>2, <2>7, <2>8 DEF Moves, ToolCallsTypeOK
  <2> QED BY <2>9
<1> QED BY <1>3, <1>4

\* A call of the subagent is entered.
LEMMA ChildCallEntered ==
  ASSUME ToolCallsTypeOK, Stacks, NEW t \in Threads, NEW wish \in Calls, NEW f \in Frame,
         frames[t] = <<f>>, told[t] = NoResult, f.at = "delegated",
         OwnCall(on[t], f, child[t], connected), Enter(t, wish, <<f>>),
         UNCHANGED <<on, connected>>
  PROVE  \E fs, r, ch : Moves(t, fs, r, ch)
<1>1. child[t] \in Child /\ connected \in BOOLEAN
  BY DEF ToolCallsTypeOK
<1>2. Len(<<f>>) + 1 = 2 /\ <<f>> # <<>>
  OBVIOUS
<1>3. CASE Rejected(t, wish, 2)
  <2>1. ChildReturns(t, <<f>>)
    BY <1>2, <1>3 DEF Enter, End
  <2> QED BY <2>1, ChildCallEnds
<1>4. CASE ~Rejected(t, wish, 2)
  <2> DEFINE g == [call |-> wish, yes |-> {},
                   at |-> IF Asked(wish) = <<>> THEN "running" ELSE "asking"]
  <2>0. g \in Frame
    BY DEF Frame, Places
  <2>1. Append(<<f>>, g) = <<f, g>>
    BY <2>0, PushFrame
  <2>2. frames' = [frames EXCEPT ![t] = <<f, g>>] /\ UNCHANGED <<told, child>>
    BY <1>2, <1>4, <2>1 DEF Enter
  <2>3. g \in Frame
    BY <2>0
  <2>4. Allowed(on[t], 2, wish, connected)
    BY <1>4, NotRejected
  <2>5. OnStack(on[t], 2, g, connected) /\ g.at \in {"asking", "running"}
    BY <2>4, NoQuestion DEF OnStack
  <2>6. ChildCall(on[t], f, g, child[t], connected)
    BY <2>5 DEF ChildCall
  <2>7. Thread(on[t], <<f, g>>, NoResult, child[t], connected)
    BY <2>3, <2>6 DEF Thread
  <2>8. <<f, g>> \in Seq(Frame) /\ Len(<<f, g>>) <= 2
    BY <2>3
  <2>9. Moves(t, <<f, g>>, NoResult, child[t])
    <3> HIDE DEF g
    <3> QED BY <1>1, <2>2, <2>7, <2>8 DEF Moves, ToolCallsTypeOK
  <2> QED BY <2>9
<1> QED BY <1>3, <1>4

-----------------------------------------------------------------------------
(* The actions that change a stack, a result or a subagent. *)

LEMMA ModelMoves ==
  ASSUME ToolCallsTypeOK, Stacks, NEW t \in Threads, ModelStep(t)
  PROVE  \E fs, r, ch : Moves(t, fs, r, ch)
<1>1. PICK wish \in Wanted[t] : AskForCall(t, wish) \/ ChildCalls(t, wish)
  BY DEF ModelStep
<1>2. wish \in Calls
  BY <1>1, ToolCallsAssumption
<1> UNCHANGED on
  BY CountsKept
<1>3. CASE AskForCall(t, wish)
  BY <1>2, <1>3, OwnCallEntered DEF AskForCall
<1>4. CASE ChildCalls(t, wish)
  <2>1. frames[t] # <<>> /\ Top(t).at = "delegated" /\ Enter(t, wish, frames[t])
        /\ UNCHANGED connected
    BY <1>4 DEF ChildCalls, Delegated
  <2>2. told[t] = NoResult /\ Top(t) \in Frame /\ frames[t] = <<Top(t)>>
        /\ OwnCall(on[t], Top(t), child[t], connected)
    BY <2>1, ThreadStacks DEF ChildCall
  <2> QED BY <1>2, <2>1, <2>2, ChildCallEntered
<1> QED BY <1>1, <1>3, <1>4

LEMMA CallAnswered ==
  ASSUME NEW f \in Frame, NEW yes
  PROVE  [f EXCEPT !.yes = yes, !.at = "running"]
           = [call |-> f.call, at |-> "running", yes |-> yes]
<1>1. f = [call |-> f.call, at |-> f.at, yes |-> f.yes]
  BY DEF Frame
<1>2. [f EXCEPT !.yes = yes] = [call |-> f.call, at |-> f.at, yes |-> yes]
  BY <1>1
<1>3. [[call |-> f.call, at |-> f.at, yes |-> yes] EXCEPT !.at = "running"]
        = [call |-> f.call, at |-> "running", yes |-> yes]
  OBVIOUS
<1> QED BY <1>2, <1>3

LEMMA SayYesMoves ==
  ASSUME ToolCallsTypeOK, Stacks, NEW t \in Threads, SayYes(t)
  PROVE  \E fs, r, ch : Moves(t, fs, r, ch)
<1>1. frames[t] # <<>> /\ Top(t).at = "asking" /\ UNCHANGED <<told, child, on, connected>>
  BY DEF SayYes, turnVars
<1>2. connected \in BOOLEAN /\ told[t] \in Result \cup {NoResult} /\ child[t] \in Child
  BY DEF ToolCallsTypeOK
<1>3. Top(t) \in Frame /\ told[t] = NoResult
  BY <1>1, ThreadStacks
<1>4. Top(t).call \in Calls
  BY <1>3 DEF Frame
<1>5. Top(t).yes = {} /\ Asked(Top(t).call) # <<>>
  BY <1>1, ThreadStacks DEF OwnCall, ChildCall, OnStack
<1>6. PICK q \in Questions : Asked(Top(t).call) = <<q>> /\ Consented(Top(t).call, {q})
  BY <1>4, <1>5, OneQuestion
<1>7. Cardinality({}) = 0 /\ Cardinality({q}) = 1
  BY FS_EmptySet, FS_Singleton
<1>8. <<q>>[1] = q /\ Len(<<q>>) = 1
  OBVIOUS
<1> DEFINE g == [Top(t) EXCEPT !.yes = {q}, !.at = "running"]
<1>9. Decided(t, {q}) = g
  BY <1>6, <1>7, <1>8 DEF Decided
<1>10. frames' = [frames EXCEPT ![t] = Append(Below(t), g)]
  <2>1. Top(t).yes \cup {Asked(Top(t).call)[Cardinality(Top(t).yes) + 1]} = {q}
    BY <1>5, <1>6, <1>7, <1>8
  <2> QED BY <1>9, <2>1 DEF SayYes
<1>11. g \in Frame /\ g.call = Top(t).call /\ g.yes = {q} /\ g.at = "running"
  <2>1. g = [call |-> Top(t).call, at |-> "running", yes |-> {q}]
    BY <1>3, CallAnswered
  <2> QED BY <1>4, <2>1 DEF Frame, Places
<1> HIDE DEF g
<1>12. ASSUME NEW depth, OnStack(on[t], depth, Top(t), connected)
       PROVE  OnStack(on[t], depth, g, connected)
  BY <1>6, <1>11, <1>12 DEF OnStack
<1>13. CASE Below(t) = <<>> /\ OwnCall(on[t], Top(t), child[t], connected)
  <2>1. Append(<<>>, g) = <<g>>
    OBVIOUS
  <2>2. OwnCall(on[t], g, child[t], connected)
    BY <1>1, <1>11, <1>12, <1>13 DEF OwnCall
  <2>3. <<g>> \in Seq(Frame) /\ Len(<<g>>) <= 2
    BY <1>11
  <2>4. Moves(t, <<g>>, NoResult, child[t])
    BY <1>1, <1>2, <1>3, <1>10, <1>11, <1>13, <2>1, <2>2, <2>3
    DEF Moves, Thread, ToolCallsTypeOK
  <2> QED BY <2>4
<1>14. CASE \E f \in Frame : /\ Below(t) = <<f>>
                             /\ ChildCall(on[t], f, Top(t), child[t], connected)
  <2>1. PICK f \in Frame : /\ Below(t) = <<f>>
                           /\ ChildCall(on[t], f, Top(t), child[t], connected)
    BY <1>14
  <2>2. Append(<<f>>, g) = <<f, g>>
    BY <1>11, PushFrame
  <2>3. ChildCall(on[t], f, g, child[t], connected)
    BY <1>11, <1>12, <2>1 DEF ChildCall
  <2>4. <<f, g>> \in Seq(Frame) /\ Len(<<f, g>>) <= 2
    BY <1>11
  <2>5. Moves(t, <<f, g>>, NoResult, child[t])
    BY <1>1, <1>2, <1>3, <1>10, <1>11, <2>1, <2>2, <2>3, <2>4
    DEF Moves, Thread, ToolCallsTypeOK
  <2> QED BY <2>5
<1> QED BY <1>1, <1>13, <1>14, ThreadStacks

LEMMA UserMoves ==
  ASSUME ToolCallsTypeOK, Stacks, NEW t \in Threads, UserStep(t)
  PROVE  \E fs, r, ch : Moves(t, fs, r, ch)
BY SayYesMoves, CallFails DEF UserStep, SayNo, HookRaises, HookRaised

LEMMA ToolMoves ==
  ASSUME ToolCallsTypeOK, Stacks, NEW t \in Threads, ToolStep(t)
  PROVE  \E fs, r, ch : Moves(t, fs, r, ch)
<1> UNCHANGED on
  BY CountsKept
<1>1. frames[t] # <<>> /\ Top(t).at = "running"
  BY DEF ToolStep, ToolRaises, ToolSucceeds, Delegate, Runs
<1>2. connected \in BOOLEAN /\ child[t] \in Child
  BY DEF ToolCallsTypeOK
<1>3. told[t] = NoResult /\ Top(t) \in Frame
  BY <1>1, ThreadStacks
<1>4. Top(t).call \in Calls /\ Top(t).yes \in SUBSET Questions
  BY <1>3 DEF Frame
<1>5. CASE ToolRaises(t)
  BY <1>1, <1>5, CallFails DEF ToolRaises
<1>6. CASE ToolSucceeds(t)
  <2>1. /\ End(t, Top(t).call, TRUE, TRUE, Top(t).yes, Below(t))
        /\ connected' = (connected \/ Top(t).call.tool = "connect")
        /\ Top(t).call.tool # "task"
    BY <1>6 DEF ToolSucceeds
  <2>2. CASE Below(t) = <<>> /\ OwnCall(on[t], Top(t), child[t], connected)
    <3>1. GiveResult(t, Top(t).call, TRUE, TRUE, Top(t).yes, child[t])
      BY <2>1, <2>2 DEF End
    <3>2. Allowed(on[t], 1, Top(t).call, connected') /\ Consented(Top(t).call, Top(t).yes)
      BY <1>1, <2>1, <2>2 DEF OwnCall, OnStack, Allowed
    <3>3. Between(on[t], [call |-> Top(t).call, ok |-> TRUE, ran |-> TRUE,
                      yes |-> Top(t).yes, child |-> child[t]], child[t], connected')
      BY <1>2, <1>4, <2>1, <3>2 DEF Between, Result
    <3>4. \E r : Moves(t, <<>>, r, child[t])
      BY <1>2, <1>4, <2>1, <3>1, <3>3, OwnCallEnds
    <3> QED BY <3>4
  <2>3. CASE \E f \in Frame : /\ Below(t) = <<f>>
                              /\ ChildCall(on[t], f, Top(t), child[t], connected)
    <3>1. PICK f \in Frame : /\ Below(t) = <<f>>
                             /\ ChildCall(on[t], f, Top(t), child[t], connected)
      BY <2>3
    <3>2. <<f>> # <<>>
      OBVIOUS
    <3>3. ChildReturns(t, <<f>>)
      BY <2>1, <3>1, <3>2 DEF End
    <3>4. UNCHANGED connected
      BY <1>2, <2>1, <3>1 DEF ChildCall, OnStack, Allowed
    <3>5. \E fs, ch : Moves(t, fs, NoResult, ch)
      BY <1>3, <3>1, <3>3, <3>4, ChildCallEnds DEF ChildCall
    <3> QED BY <3>5
  <2> QED BY <1>1, <2>2, <2>3, ThreadStacks
<1>7. CASE Delegate(t)
  <2> DEFINE ch == [run |-> "running", held |-> TRUE, turn |-> 0]
             g  == [Top(t) EXCEPT !.at = "delegated"]
  <2>1. Top(t).call.tool = "task"
    BY <1>7 DEF Delegate
  <2>2. frames[t] = <<Top(t)>> /\ OwnCall(on[t], Top(t), child[t], connected)
    BY <1>1, <2>1, ThreadStacks DEF ChildCall, OnStack, Allowed
  <2>3. g = [call |-> Top(t).call, at |-> "delegated", yes |-> Top(t).yes]
    BY <1>3 DEF Frame
  <2>4. g \in Frame /\ ch \in Child
    BY <1>4, <2>3, ToolCallsAssumption DEF Frame, Places, Child
  <2>5. OwnCall(on[t], g, ch, connected)
    BY <1>1, <2>1, <2>2, <2>3, ToolCallsAssumption DEF OwnCall, OnStack
  <2>6. frames' = [frames EXCEPT ![t] = <<g>>]
    <3>1. [frames[t] EXCEPT ![1] = [frames[t][1] EXCEPT !.at = "delegated"]] = <<g>>
      BY <2>2
    <3> QED BY <1>7, <3>1 DEF Delegate
  <2>7. <<g>> \in Seq(Frame) /\ Len(<<g>>) <= 2
    BY <2>4
  <2>8. Moves(t, <<g>>, NoResult, ch)
    <3> HIDE DEF g, ch
    <3>1. UNCHANGED <<told, connected>> /\ child' = [child EXCEPT ![t] = ch]
      BY <1>7 DEF Delegate, ch
    <3> QED BY <1>2, <1>3, <2>4, <2>5, <2>6, <2>7, <3>1 DEF Moves, Thread, ToolCallsTypeOK
  <2> QED BY <2>8
<1> QED BY <1>5, <1>6, <1>7 DEF ToolStep

LEMMA SubagentMoves ==
  ASSUME ToolCallsTypeOK, Stacks, NEW t \in Threads, SubagentStep(t)
  PROVE  \E fs, r, ch : Moves(t, fs, r, ch)
<1> UNCHANGED on
  BY CountsKept
<1>1. frames[t] # <<>> /\ Top(t).at \in {"delegated", "closing"}
  BY DEF SubagentStep, ChildAnswers, CloseChild, ChildRaises, Delegated
<1>2. connected \in BOOLEAN /\ child[t] \in Child
  BY DEF ToolCallsTypeOK
<1>3. /\ told[t] = NoResult /\ Top(t) \in Frame
      /\ frames[t] = <<Top(t)>> /\ Below(t) = <<>>
      /\ OwnCall(on[t], Top(t), child[t], connected)
  BY <1>1, ThreadStacks DEF ChildCall
<1>4. Top(t).call \in Calls /\ Top(t).yes \in SUBSET Questions
  BY <1>3 DEF Frame
<1>5. CASE ChildAnswers(t)
  <2> DEFINE ch == [child[t] EXCEPT !.run = "completed"]
             g  == [Top(t) EXCEPT !.at = "closing"]
  <2>1. g = [call |-> Top(t).call, at |-> "closing", yes |-> Top(t).yes]
    BY <1>3 DEF Frame
  <2>2. ch = [run |-> "completed", held |-> child[t].held, turn |-> child[t].turn]
    BY <1>2 DEF Child
  <2>3. g \in Frame /\ ch \in Child
    BY <1>2, <1>4, <2>1, <2>2 DEF Frame, Places, Child
  <2>4. OwnCall(on[t], g, ch, connected)
    BY <1>1, <1>3, <2>1, <2>2 DEF OwnCall, OnStack
  <2>5. frames' = [frames EXCEPT ![t] = <<g>>]
    <3>1. [frames[t] EXCEPT ![1] = [frames[t][1] EXCEPT !.at = "closing"]] = <<g>>
      BY <1>3
    <3> QED BY <1>5, <3>1 DEF ChildAnswers
  <2>6. <<g>> \in Seq(Frame) /\ Len(<<g>>) <= 2
    BY <2>3
  <2>7. Moves(t, <<g>>, NoResult, ch)
    <3>1. UNCHANGED <<told, connected>> /\ child' = [child EXCEPT ![t] = ch]
      BY <1>5 DEF ChildAnswers
    <3> HIDE DEF g, ch
    <3> QED BY <1>2, <1>3, <2>3, <2>4, <2>5, <2>6, <3>1 DEF Moves, Thread, ToolCallsTypeOK
  <2> QED BY <2>7
<1>6. CASE CloseChild(t)
  <2> DEFINE ch == [child[t] EXCEPT !.held = FALSE]
  <2>1. PICK ok \in BOOLEAN :
          /\ Top(t).at = "closing" /\ UNCHANGED connected
          /\ ok \/ child[t].run = "completed"
          /\ GiveResult(t, Top(t).call, ok, TRUE, Top(t).yes, ch)
    BY <1>6 DEF CloseChild
  <2>2. ch.run = child[t].run /\ ~ch.held
    BY <1>2 DEF Child
  <2>3. ch \in Child
    BY <1>2 DEF Child
  <2>4. Between(on[t], [call |-> Top(t).call, ok |-> ok, ran |-> TRUE,
                    yes |-> Top(t).yes, child |-> ch], ch, connected')
    <3>1. /\ Allowed(on[t], 1, Top(t).call, connected') /\ Consented(Top(t).call, Top(t).yes)
          /\ ch.run \in {"completed", "exhausted"} /\ ~ch.held
          /\ ok \/ ch.run = "completed"
      BY <1>3, <2>1, <2>2 DEF OwnCall, OnStack
    <3> HIDE DEF ch
    <3> QED BY <1>4, <2>3, <3>1 DEF Between, Result
  <2>5. \E r : Moves(t, <<>>, r, ch)
    <3> HIDE DEF ch
    <3> QED BY <1>2, <1>4, <2>1, <2>3, <2>4, OwnCallEnds
  <2> QED BY <2>5
<1>7. CASE ChildRaises(t)
  BY <1>1, <1>7, CallFails DEF ChildRaises
<1> QED BY <1>5, <1>6, <1>7 DEF SubagentStep

LEMMA TurnMoves ==
  ASSUME ToolCallsTypeOK, Stacks, NEW t \in Threads, TurnStep(t)
  PROVE  \E fs, r, ch : Moves(t, fs, r, ch)
<1>1. frames[t] = <<>> /\ UNCHANGED <<frames, connected>>
  BY DEF TurnStep, TakeResult, EndTurn, SendRequest
<1>2. /\ connected \in BOOLEAN /\ <<>> \in Seq(Frame) /\ Len(<<>>) <= 2
      /\ on' \in [Threads -> AgentLoops]
      /\ \A u \in Threads \ {t} : on'[u] = on[u]
  <2>1. connected \in BOOLEAN /\ <<>> \in Seq(Frame) /\ Len(<<>>) <= 2
        /\ on \in [Threads -> AgentLoops]
    BY DEF ToolCallsTypeOK
  <2>2. CASE TakeResult(t) \/ EndTurn(t)
    BY <2>1, <2>2 DEF TakeResult, EndTurn, turnVars
  <2>3. CASE \E l \in LoopsOf(t) : SendRequest(t, l)
    <3>1. PICK l \in LoopsOf(t) : SendRequest(t, l)
      BY <2>3
    <3>2. l \in AgentLoops /\ on' = [on EXCEPT ![t] = l]
      BY <3>1 DEF SendRequest, LoopsOf, AgentLoops
    <3> QED BY <2>1, <3>2
  <2> QED BY <2>1, <2>2, <2>3 DEF TurnStep
<1>3. CASE /\ told' = [told EXCEPT ![t] = NoResult]
           /\ child' = [child EXCEPT ![t] = NoChild]
  <2>1. Moves(t, <<>>, NoResult, NoChild)
    BY <1>1, <1>2, <1>3, NoChildIsChild DEF Moves, Thread, Between, ToolCallsTypeOK
  <2> QED BY <2>1
<1>4. CASE told[t] = NoResult /\ UNCHANGED <<told, child>>
  <2>1. child[t] = NoChild
    BY <1>1, <1>4, NothingYet
  <2>2. Moves(t, <<>>, NoResult, NoChild)
    BY <1>1, <1>2, <1>4, <2>1, NoChildIsChild DEF Moves, Thread, Between, ToolCallsTypeOK
  <2> QED BY <2>2
<1> QED BY <1>3, <1>4 DEF TurnStep, TakeResult, EndTurn, SendRequest

-----------------------------------------------------------------------------
(* The turns and their count. *)

\* The requests of loop l that wait for an answer.
Waiting(l) == {t \in Threads : requested[t] /\ on[t] = l}

\* Threads, and so requests that wait, are finitely many.
LEMMA WaitingBounded ==
  ASSUME NEW S \in SUBSET Threads
  PROVE  IsFiniteSet(S) /\ Cardinality(S) \in Nat
BY ToolCallsAssumption, FS_Subset, FS_CardinalityType

LEMMA FewerWaiting ==
  ASSUME NEW S \in SUBSET Threads, NEW T \in SUBSET S
  PROVE  Cardinality(T) <= Cardinality(S)
BY WaitingBounded, FS_Subset

\* The end of a turn adds it to the count and takes its request away, or starts the
\* count again; the other loop keeps its own.
LEMMA EndTurnCounts ==
  ASSUME ToolCallsTypeOK, Counting, RemindedInTime, NEW t \in Threads, EndTurn(t)
  PROVE  /\ requested' \in [Threads -> BOOLEAN] /\ updated' \in [Threads -> BOOLEAN]
         /\ counter' \in [AgentLoops -> Nat] /\ since' \in [AgentLoops -> Nat]
         /\ Counting' /\ RemindedInTime'
<1>1. /\ on[t] \in AgentLoops /\ requested[t] /\ since = counter
      /\ frames[t] = <<>> /\ UNCHANGED <<on, frames>>
  BY DEF EndTurn, Counting, ToolCallsTypeOK
<1> DEFINE n == IF updated[t] THEN 0 ELSE since[on[t]] + 1
<1>2. /\ counter' = [counter EXCEPT ![on[t]] = n]
      /\ since' = [since EXCEPT ![on[t]] = n]
      /\ requested' = [requested EXCEPT ![t] = FALSE]
      /\ updated' = [updated EXCEPT ![t] = FALSE]
      /\ told' = [told EXCEPT ![t] = NoResult]
  BY <1>1 DEF EndTurn, Counted
<1>3. n \in Nat
  BY <1>1 DEF ToolCallsTypeOK
<1>4. /\ requested' \in [Threads -> BOOLEAN] /\ updated' \in [Threads -> BOOLEAN]
      /\ counter' \in [AgentLoops -> Nat] /\ since' \in [AgentLoops -> Nat]
  <2> HIDE DEF n
  <2> QED BY <1>2, <1>3 DEF ToolCallsTypeOK
<1>5. Counting'
  <2> HIDE DEF n
  <2> QED BY <1>1, <1>2 DEF Counting, ToolCallsTypeOK
<1>6. ASSUME NEW l \in AgentLoops
      PROVE  since'[l] + Cardinality(Waiting(l)') < TodoTurns + Cardinality(Sharing(l))
  <2>1. Waiting(l)' = Waiting(l) \ {t} /\ Waiting(l) \in SUBSET Sharing(l)
        /\ Sharing(l) \in SUBSET Threads
    BY <1>1, <1>2 DEF Waiting, Sharing, ToolCallsTypeOK
  <2>2. /\ Cardinality(Waiting(l)) \in Nat /\ Cardinality(Waiting(l)') \in Nat
        /\ Cardinality(Sharing(l)) \in Nat
        /\ Cardinality(Waiting(l)') <= Cardinality(Sharing(l))
        /\ Cardinality(Waiting(l)') <= Cardinality(Waiting(l))
    BY <2>1, WaitingBounded, FewerWaiting
  <2>3. since[l] \in Nat
        /\ since[l] + Cardinality(Waiting(l)) < TodoTurns + Cardinality(Sharing(l))
    BY DEF RemindedInTime, Waiting, ToolCallsTypeOK
  <2>4. CASE l = on[t]
    <3>1. since'[l] = n
      <4> HIDE DEF n
      <4> QED BY <1>2, <2>4 DEF ToolCallsTypeOK
    <3>2. t \in Waiting(l)
      BY <1>1, <2>4 DEF Waiting
    <3>3. Cardinality(Waiting(l)') = Cardinality(Waiting(l)) - 1
      BY <2>1, <3>2, WaitingBounded, FS_RemoveElement
    <3>4. CASE updated[t]
      BY <2>2, <3>1, <3>4, ToolCallsAssumption
    <3>5. CASE ~updated[t]
      <4>1. since'[l] = since[l] + 1
        BY <2>4, <3>1, <3>5
      <4> QED BY <2>2, <2>3, <3>3, <4>1, ToolCallsAssumption
    <3> QED BY <3>4, <3>5
  <2>5. CASE l # on[t]
    <3>1. since'[l] = since[l]
      <4> HIDE DEF n
      <4> QED BY <1>2, <2>5 DEF ToolCallsTypeOK
    <3> QED BY <2>2, <2>3, <3>1, ToolCallsAssumption
  <2> QED BY <2>4, <2>5
<1>7. RemindedInTime'
  BY <1>6 DEF RemindedInTime, Waiting, Sharing
<1> QED BY <1>4, <1>5, <1>7

\* A request is made with a count below the limit; the other loop at most loses one.
LEMMA SendRequestCounts ==
  ASSUME ToolCallsTypeOK, Counting, RemindedInTime,
         NEW t \in Threads, NEW loop \in LoopsOf(t), SendRequest(t, loop)
  PROVE  /\ requested' \in [Threads -> BOOLEAN] /\ updated' \in [Threads -> BOOLEAN]
         /\ counter' \in [AgentLoops -> Nat] /\ since' \in [AgentLoops -> Nat]
         /\ \A u \in Threads : on'[u] \in LoopsOf(u)
         /\ Counting' /\ RemindedInTime'
<1>1. loop \in AgentLoops /\ since = counter
  BY DEF LoopsOf, AgentLoops, Counting
<1> DEFINE due == since[loop] >= TodoTurns
<1>2. /\ requested' = [requested EXCEPT ![t] = TRUE]
      /\ updated' = [updated EXCEPT ![t] = FALSE]
      /\ on' = [on EXCEPT ![t] = loop]
      /\ due => /\ counter' = [counter EXCEPT ![loop] = 0]
                /\ since' = [since EXCEPT ![loop] = 0]
      /\ ~due => counter' = counter /\ since' = since
      /\ UNCHANGED <<frames, told>>
  BY <1>1 DEF SendRequest
<1>3. /\ requested' \in [Threads -> BOOLEAN] /\ updated' \in [Threads -> BOOLEAN]
      /\ counter' \in [AgentLoops -> Nat] /\ since' \in [AgentLoops -> Nat]
      /\ \A u \in Threads : on'[u] \in LoopsOf(u)
  <2>1. requested' \in [Threads -> BOOLEAN] /\ updated' \in [Threads -> BOOLEAN]
    BY <1>2 DEF ToolCallsTypeOK
  <2>2. \A u \in Threads : on'[u] \in LoopsOf(u)
    BY <1>2 DEF ToolCallsTypeOK
  <2>3. counter \in [AgentLoops -> Nat] /\ since \in [AgentLoops -> Nat]
    BY DEF ToolCallsTypeOK
  <2>4. CASE due
    <3>1. /\ counter' = [counter EXCEPT ![loop] = 0]
          /\ since' = [since EXCEPT ![loop] = 0]
      BY <1>2, <2>4
    <3>2. counter' \in [AgentLoops -> Nat] /\ since' \in [AgentLoops -> Nat]
      BY <2>3, <3>1
    <3> QED BY <2>1, <2>2, <3>2
  <2>5. CASE ~due
    BY <1>2, <2>1, <2>2, <2>3, <2>5
  <2> QED BY <2>4, <2>5
<1>4. Counting'
  BY <1>1, <1>2 DEF Counting, ToolCallsTypeOK
<1>5. ASSUME NEW l \in AgentLoops
      PROVE  since'[l] + Cardinality(Waiting(l)') < TodoTurns + Cardinality(Sharing(l))
  <2>1. Waiting(l)' \in SUBSET Sharing(l) /\ Sharing(l) \in SUBSET Threads
        /\ Waiting(l) \in SUBSET Threads
    BY <1>3 DEF Waiting, Sharing
  <2>2. /\ Cardinality(Waiting(l)) \in Nat /\ Cardinality(Waiting(l)') \in Nat
        /\ Cardinality(Sharing(l)) \in Nat
        /\ Cardinality(Waiting(l)') <= Cardinality(Sharing(l))
    BY <2>1, WaitingBounded, FewerWaiting
  <2>3. since[l] \in Nat
        /\ since[l] + Cardinality(Waiting(l)) < TodoTurns + Cardinality(Sharing(l))
    BY DEF RemindedInTime, Waiting, ToolCallsTypeOK
  <2>4. CASE l = loop
    <3>1. since'[l] \in Nat /\ since'[l] < TodoTurns
      BY <1>1, <1>2, <1>3, <2>3, <2>4, ToolCallsAssumption DEF ToolCallsTypeOK
    <3> QED BY <2>2, <3>1, ToolCallsAssumption
  <2>5. CASE l # loop
    <3>1. since'[l] = since[l]
      BY <1>2, <2>5 DEF ToolCallsTypeOK
    <3>2. Waiting(l)' \in SUBSET Waiting(l)
      BY <1>2, <2>5 DEF Waiting, ToolCallsTypeOK
    <3>3. Cardinality(Waiting(l)') <= Cardinality(Waiting(l))
      BY <2>1, <3>2, FewerWaiting
    <3> QED BY <2>2, <2>3, <3>1, <3>3, ToolCallsAssumption
  <2> QED BY <2>4, <2>5
<1>6. RemindedInTime'
  BY <1>5 DEF RemindedInTime, Waiting, Sharing
<1> QED BY <1>3, <1>4, <1>6

\* A call is made in a turn of a request.
LEMMA CallsWanted ==
  ASSUME ToolCallsTypeOK, Counting, NEW t \in Threads,
         \/ ModelStep(t) \/ UserStep(t) \/ ToolStep(t) \/ SubagentStep(t) \/ TakeResult(t)
  PROVE  requested[t]
<1>1. CASE ModelStep(t)
  BY <1>1 DEF Counting, ModelStep, AskForCall, ChildCalls, Delegated
<1>2. CASE UserStep(t)
  BY <1>2 DEF Counting, UserStep, SayYes, SayNo, HookRaises
<1>3. CASE ToolStep(t)
  BY <1>3 DEF Counting, ToolStep, ToolRaises, ToolSucceeds, Runs, Delegate
<1>4. CASE SubagentStep(t)
  BY <1>4 DEF Counting, SubagentStep, ChildAnswers, CloseChild, ChildRaises, Delegated
<1>5. CASE TakeResult(t)
  BY <1>5 DEF Counting, TakeResult
<1> QED BY <1>1, <1>2, <1>3, <1>4, <1>5

-----------------------------------------------------------------------------
(* The invariant. *)

LEMMA InitCallsInv == ToolCallsInit => CallsInv
<1> SUFFICES ASSUME ToolCallsInit PROVE CallsInv
  OBVIOUS
<1>1. <<>> \in Seq(Frame) /\ Len(<<>>) <= 2
  OBVIOUS
<1>2. ToolCallsTypeOK
  <2>1. frames \in [Threads -> Seq(Frame)] /\ \A t \in Threads : Len(frames[t]) <= 2
    BY <1>1 DEF ToolCallsInit
  <2>2. told \in [Threads -> Result \cup {NoResult}] /\ child \in [Threads -> Child]
    BY NoChildIsChild DEF ToolCallsInit
  <2>3. /\ connected \in BOOLEAN /\ todoList \in TodoLists
        /\ requested \in [Threads -> BOOLEAN] /\ updated \in [Threads -> BOOLEAN]
    BY DEF ToolCallsInit, TodoLists
  <2>4. counter \in [AgentLoops -> Nat] /\ since \in [AgentLoops -> Nat]
        /\ on \in [Threads -> AgentLoops] /\ \A t \in Threads : on[t] \in LoopsOf(t)
    BY DEF ToolCallsInit, AgentLoops, LoopsOf
  <2> QED BY <2>1, <2>2, <2>3, <2>4 DEF ToolCallsTypeOK
<1>3. Stacks
  BY DEF ToolCallsInit, Stacks, Thread, Between
<1>4. Counting
  BY DEF ToolCallsInit, Counting
<1>5. ASSUME NEW l \in AgentLoops
      PROVE  since[l] + Cardinality(Waiting(l)) < TodoTurns + Cardinality(Sharing(l))
  <2>1. since[l] = 0 /\ Waiting(l) = {} /\ Sharing(l) \in SUBSET Threads
    BY DEF ToolCallsInit, Waiting, Sharing
  <2>2. Cardinality(Waiting(l)) = 0 /\ Cardinality(Sharing(l)) \in Nat
    BY <2>1, FS_EmptySet, WaitingBounded
  <2> QED BY <2>1, <2>2, ToolCallsAssumption
<1>6. RemindedInTime
  BY <1>5 DEF RemindedInTime, Waiting
<1> QED BY <1>2, <1>3, <1>4, <1>6 DEF CallsInv

LEMMA NextCallsInv == CallsInv /\ [ToolCallsNext]_toolVars => CallsInv'
<1> SUFFICES ASSUME CallsInv, [ToolCallsNext]_toolVars PROVE CallsInv'
  OBVIOUS
<1>1. ToolCallsTypeOK /\ Stacks /\ Counting /\ RemindedInTime
  BY DEF CallsInv
<1>2. ASSUME NEW t \in Threads,
             \/ ModelStep(t) \/ UserStep(t) \/ ToolStep(t) \/ SubagentStep(t)
             \/ TurnStep(t)
      PROVE  CallsInv'
  <2>1. \E fs, r, ch : Moves(t, fs, r, ch)
    BY <1>1, <1>2, ModelMoves, UserMoves, ToolMoves, SubagentMoves, TurnMoves
  <2>2. /\ frames' \in [Threads -> Seq(Frame)]
        /\ \A u \in Threads : Len(frames'[u]) <= 2
        /\ told' \in [Threads -> Result \cup {NoResult}]
        /\ child' \in [Threads -> Child]
        /\ connected' \in BOOLEAN
        /\ Stacks'
    BY <1>1, <2>1, MovesKeep
  <2>3. \A u \in Threads \ {t} : frames'[u] = frames[u] /\ told'[u] = told[u]
    BY <1>1, <2>1 DEF Moves, ToolCallsTypeOK
  <2>4. /\ requested' \in [Threads -> BOOLEAN] /\ updated' \in [Threads -> BOOLEAN]
        /\ counter' \in [AgentLoops -> Nat] /\ since' \in [AgentLoops -> Nat]
        /\ on' \in [Threads -> AgentLoops] /\ \A u \in Threads : on'[u] \in LoopsOf(u)
        /\ todoList' \in {todoList, {t}}
        /\ Counting' /\ RemindedInTime'
    <3>1. CASE EndTurn(t)
      BY <1>1, <3>1, EndTurnCounts DEF EndTurn, ToolCallsTypeOK
    <3>2. CASE \E l \in LoopsOf(t) : SendRequest(t, l)
      <4>1. PICK l \in LoopsOf(t) : SendRequest(t, l)
        BY <3>2
      <4>2. UNCHANGED todoList /\ on' \in [Threads -> AgentLoops]
        BY <1>1, <2>1, <4>1 DEF SendRequest, Moves
      <4> QED BY <1>1, <4>1, <4>2, SendRequestCounts
    <3>3. CASE \/ ModelStep(t) \/ UserStep(t) \/ ToolStep(t) \/ SubagentStep(t)
               \/ TakeResult(t)
      <4>1. /\ UNCHANGED <<on, requested, counter, since>>
            /\ todoList' \in {todoList, {t}}
            /\ updated' \in [Threads -> BOOLEAN]
        BY <1>1, <3>3, CountsKept
      <4>2. requested[t]
        BY <1>1, <3>3, CallsWanted
      <4>3. Counting'
        BY <1>1, <2>3, <4>1, <4>2 DEF Counting
      <4>4. RemindedInTime'
        BY <1>1, <4>1 DEF RemindedInTime, Sharing
      <4> QED BY <1>1, <4>1, <4>3, <4>4 DEF ToolCallsTypeOK
    <3> QED BY <1>2, <3>1, <3>2, <3>3 DEF TurnStep
  <2>5. todoList' \in TodoLists
    BY <1>1, <2>4 DEF ToolCallsTypeOK, TodoLists
  <2> QED BY <2>2, <2>4, <2>5 DEF CallsInv, ToolCallsTypeOK
<1>3. CASE UNCHANGED toolVars
  <2>1. ToolCallsTypeOK'
    BY <1>1, <1>3 DEF toolVars, ToolCallsTypeOK
  <2>2. Stacks' /\ Counting'
    BY <1>1, <1>3 DEF toolVars, Stacks, Counting
  <2>3. RemindedInTime'
    BY <1>1, <1>3 DEF toolVars, RemindedInTime, Sharing
  <2> QED BY <2>1, <2>2, <2>3 DEF CallsInv
<1> QED BY <1>2, <1>3 DEF ToolCallsNext

LEMMA Invariance == ToolCallsSpec => []CallsInv
BY InitCallsInv, NextCallsInv, PTL DEF ToolCallsSpec

-----------------------------------------------------------------------------
\* Every variable has its type: a thread has at most its own call and that of
\* its subagent on its stack, and a subagent never takes more turns than it has.
THEOREM ToolCallsTypeCorrect == ToolCallsSpec => []ToolCallsTypeOK
BY Invariance, PTL DEF CallsInv

\* Only the lead runs on its loop.
LEMMA LeadsLoop ==
  ASSUME CallsInv, NEW t \in Threads, on[t] = "lead"
  PROVE  t \in Leads
BY DEF CallsInv, ToolCallsTypeOK, LoopsOf

LEMMA FramesLetThrough ==
  ASSUME CallsInv, NEW t \in Threads, NEW i \in DOMAIN frames[t], frames[t][i].at # "asking"
  PROVE  LetThrough(t, i, frames[t][i].call, frames[t][i].yes)
<1>1. Stacks
  BY DEF CallsInv
<1>2. CASE frames[t] = <<>>
  BY <1>2
<1>3. CASE frames[t] = <<Top(t)>> /\ OwnCall(on[t], Top(t), child[t], connected)
  <2>1. i = 1 /\ frames[t][1] = Top(t)
    BY <1>3
  <2> QED BY <1>3, <2>1, LeadsLoop DEF OwnCall, OnStack, Allowed, Consented, LetThrough
<1>4. CASE \E f \in Frame : /\ frames[t] = <<f, Top(t)>>
                            /\ ChildCall(on[t], f, Top(t), child[t], connected)
  <2>1. PICK f \in Frame : /\ frames[t] = <<f, Top(t)>>
                           /\ ChildCall(on[t], f, Top(t), child[t], connected)
    BY <1>4
  <2>2. \/ i = 1 /\ frames[t][i] = f
        \/ i = 2 /\ frames[t][i] = Top(t)
    BY <2>1
  <2> QED BY <2>1, <2>2, LeadsLoop
    DEF ChildCall, OwnCall, OnStack, Allowed, Consented, LetThrough
<1> QED BY <1>1, <1>2, <1>3, <1>4, ThreadStacks

LEMMA ResultsTold ==
  ASSUME CallsInv, NEW t \in Threads
  PROVE  LET r == told[t] IN
           /\ r.ran => LetThrough(t, 1, r.call, r.yes)
           /\ r.ok => r.ran
           /\ r.ok /\ r.call.tool = "task" =>
                 r.child.run \in {"completed", "exhausted"} /\ ~r.child.held
           /\ ~r.ok /\ r.child # NoChild =>
                 r.child.held \/ r.child.run = "completed"
<1>1. CASE told[t] = NoResult
  BY <1>1 DEF NoResult
<1>2. CASE told[t] # NoResult
  <2>1. Between(on[t], told[t], child[t], connected)
    BY <1>2, ThreadStacks DEF CallsInv
  <2> QED BY <1>2, <2>1, LeadsLoop DEF Between, Allowed, Consented, LetThrough
<1> QED BY <1>1, <1>2

\* A tool runs only if its Run may use it, its arguments are as declared and the
\* user answered yes where the policies ask, and the result of a call says what
\* happened to it and to the Run of its subagent.
THEOREM CallsToldAsHappened == ToolCallsSpec => []ToldAsHappened
<1>1. CallsInv => ToldAsHappened
  BY FramesLetThrough, ResultsTold DEF ToldAsHappened
<1> QED BY <1>1, Invariance, PTL

\* No request of a loop is made after TodoTurns of its turns without a new todo list
\* and without a reminder, but for those that were under way, one of each thread.
THEOREM LoopsRemindInTime == ToolCallsSpec => []RemindedInTime
BY Invariance, PTL DEF CallsInv

-----------------------------------------------------------------------------
(* Servers. *)

Connecting == call.step \in {"initialize", "list"}

\* A call in progress is one of a server there is.
CallShape ==
  /\ call.step = "none" => call = NoCall_
  /\ call.step # "none" => call.server \in Servers /\ calls # 0

\* What is on its way to a server or back from it.
Elements(seq) == {seq[i] : i \in DOMAIN seq}

InFlight(s) == asked[s] \cup Elements(queue[s])

\* Every message is of a request made before the next one, and an answer to the
\* request of the call in progress is an answer to this call.
Numbered ==
  /\ \A s \in Servers : \A m \in InFlight(s) : m.id < nextId[s]
  /\ call.step # "none" =>
       \A m \in InFlight(call.server) : m.id = call.id => m.of = calls
  /\ call.step # "none" => call.id # 0

\* A client is open for a recorded connection, or for the one being made, whose
\* name no other connection has.
Clients ==
  /\ \A s \in Servers :
       /\ client[s] = "open" <=>
            (\E c \in connections : c.server = s) \/ (Connecting /\ call.server = s)
       /\ alive[s] => client[s] = "open"
  /\ Connecting => ConnectionsNamed(NormalName[call.server]) = {}
  /\ \A c, d \in connections :
       NormalName[c.server] = NormalName[d.server] => c = d

\* The tools of a connection, as the registry has them.
ToolsOf(c) == {Entry(c.server, t) : t \in c.tools}

Registered ==
  /\ registry = UNION {ToolsOf(c) : c \in connections}
  /\ IsFiniteSet(registry)
  /\ \A e, f \in registry : e.name = f.name => e = f

McpInv ==
  /\ McpTypeOK /\ CallShape
  /\ Numbered /\ OwnAnswer
  /\ Clients /\ Registered

-----------------------------------------------------------------------------
(* The registration. *)

\* The names of the entries are different exactly if there are as many as tools.
LEMMA EntriesDiffer ==
  ASSUME NEW s \in Servers, NEW found \in Seq(Offered),
         Cardinality(NamesOf(Entries(s, found))) = Len(found)
  PROVE  /\ IsFiniteSet(Entries(s, found))
         /\ \A e, f \in Entries(s, found) : e.name = f.name => e = f
<1> DEFINE n == Len(found)
           pub(i) == PublicName[<<s, found[i]>>]
           E == Entries(s, found)
           N == NamesOf(E)
           entry == [i \in 1 .. n |-> Entry(s, found[i])]
           name == [i \in 1 .. n |-> pub(i)]
<1>1. n \in Nat /\ DOMAIN found = 1 .. n
  OBVIOUS
<1>2. IsFiniteSet(1 .. n) /\ Cardinality(1 .. n) = n
  <2> HIDE DEF n
  <2> QED BY <1>1, FS_Interval
<1>3. E = {entry[i] : i \in 1 .. n}
  BY <1>1 DEF Entries
<1>4. \A i \in 1 .. n : entry[i].name = name[i]
  BY DEF Entry
<1>5. N = {name[i] : i \in 1 .. n}
  <2> HIDE DEF entry, name, n
  <2> QED BY <1>3, <1>4 DEF NamesOf
<1>6. entry \in Surjection(1 .. n, E) /\ name \in Surjection(1 .. n, N)
  <2>1. DOMAIN entry = 1 .. n /\ DOMAIN name = 1 .. n
        /\ entry = [i \in 1 .. n |-> entry[i]] /\ name = [i \in 1 .. n |-> name[i]]
    OBVIOUS
  <2> HIDE DEF entry, name, n, E, N
  <2> QED BY <1>3, <1>5, <2>1 DEF Surjection
<1>7. IsFiniteSet(E) /\ name \in Injection(1 .. n, N)
  <2>1. Cardinality(N) = n
    OBVIOUS
  <2> HIDE DEF entry, name, n, E, N
  <2> QED BY <1>2, <1>6, <2>1, FS_Surjection
<1>8. \A e, f \in E : e.name = f.name => e = f
  <2>1. \A i, j \in 1 .. n : name[i] = name[j] => i = j
    <3>1. DOMAIN name = 1 .. n
      OBVIOUS
    <3> HIDE DEF entry, name, n, E, N
    <3> QED BY <1>7, <3>1 DEF Injection, IsInjective
  <2> HIDE DEF entry, name, n, E, N
  <2> QED BY <1>3, <1>4, <2>1
<1> QED BY <1>7, <1>8

\* Tools that differ whenever their names do not have as many names.
LEMMA AsManyNames ==
  ASSUME NEW S, IsFiniteSet(S), \A e, f \in S : e.name = f.name => e = f
  PROVE  Cardinality(NamesOf(S)) = Cardinality(S)
<1> DEFINE name == [e \in S |-> e.name]
<1>1. name \in Bijection(S, NamesOf(S))
  BY DEF Bijection, Injection, Surjection, IsInjective, NamesOf
<1>2. ExistsBijection(S, NamesOf(S))
  BY <1>1 DEF ExistsBijection
<1> QED BY <1>2, FS_Bijection

-----------------------------------------------------------------------------
(* What is on its way. *)

Wire == Request \cup {Note}

LEMMA ElementsEmpty == Elements(<<>>) = {}
BY DEF Elements

LEMMA ElementsAppend ==
  ASSUME NEW S, NEW seq \in Seq(S), NEW e \in S
  PROVE  Append(seq, e) \in Seq(S) /\ Elements(Append(seq, e)) = Elements(seq) \cup {e}
<1>1. /\ Append(seq, e) \in Seq(S)
      /\ Len(Append(seq, e)) = Len(seq) + 1
      /\ \A i \in 1 .. Len(seq) : Append(seq, e)[i] = seq[i]
      /\ Append(seq, e)[Len(seq) + 1] = e
  BY AppendProperties
<1>2. /\ DOMAIN seq = 1 .. Len(seq) /\ Len(seq) \in Nat
      /\ DOMAIN Append(seq, e) = 1 .. (Len(seq) + 1)
  BY <1>1, LenProperties
<1> QED BY <1>1, <1>2 DEF Elements

LEMMA ElementsTail ==
  ASSUME NEW S, NEW seq \in Seq(S), seq # <<>>
  PROVE  /\ Tail(seq) \in Seq(S) /\ Elements(Tail(seq)) \subseteq Elements(seq)
         /\ Head(seq) \in Elements(seq) /\ Head(seq) \in S
<1>1. /\ Head(seq) \in S /\ Tail(seq) \in Seq(S) /\ Len(Tail(seq)) = Len(seq) - 1
      /\ \A i \in 1 .. Len(Tail(seq)) : Tail(seq)[i] = seq[i + 1]
  BY HeadTailProperties
<1>2. /\ DOMAIN seq = 1 .. Len(seq) /\ Len(seq) \in Nat \ {0}
      /\ DOMAIN Tail(seq) = 1 .. (Len(seq) - 1)
  BY <1>1, LenProperties, EmptySeq
<1>3. Head(seq) = seq[1]
  OBVIOUS
<1> QED BY <1>1, <1>2, <1>3 DEF Elements

\* The types of a step that touches one server.
LEMMA MessageTypes ==
  ASSUME McpTypeOK, NEW s \in Servers
  PROVE  /\ asked[s] \subseteq Request /\ queue[s] \in Seq(Wire)
         /\ nextId[s] \in Nat \ {0} /\ call.id \in Nat /\ calls \in Nat
         /\ Elements(queue[s]) \subseteq Wire
<1>1. asked[s] \subseteq Request /\ queue[s] \in Seq(Wire)
  BY DEF McpTypeOK, Wire
<1>2. nextId[s] \in Nat \ {0} /\ call.id \in Nat /\ calls \in Nat
  BY McpAssumption DEF McpTypeOK, Progress
<1>3. Elements(queue[s]) \subseteq Wire
  BY <1>1, LenProperties, ElementOfSeq DEF Elements
<1> QED BY <1>1, <1>2, <1>3

\* With no request sent, what is in flight may only become less, but for
\* notifications, and the call in progress goes on or ends.
LEMMA FewerInFlight ==
  ASSUME McpTypeOK, CallShape, Numbered, UNCHANGED nextId,
         \A s \in Servers : InFlight(s)' \subseteq InFlight(s) \cup {Note},
         call' = NoCall_ \/ (call' = call /\ calls' = calls)
  PROVE  Numbered' /\ CallShape'
<1>1. \A s \in Servers : \A m \in InFlight(s)' : m.id < nextId'[s]
  <2>1. ASSUME NEW s \in Servers, NEW m \in InFlight(s)'
        PROVE  m.id < nextId'[s]
    <3>1. CASE m \in InFlight(s)
      BY <3>1 DEF Numbered
    <3>2. CASE m = Note
      BY <3>2, MessageTypes DEF Note
    <3> QED BY <2>1, <3>1, <3>2
  <2> QED BY <2>1
<1>2. CASE call' = NoCall_
  <2>1. call'.step = "none"
    BY <1>2 DEF NoCall_
  <2> QED BY <1>1, <1>2, <2>1 DEF Numbered, CallShape
<1>3. CASE call' = call /\ calls' = calls
  <2>1. ASSUME call.step # "none", NEW m \in InFlight(call.server)', m.id = call.id
        PROVE  m.of = calls
    <3>1. call.server \in Servers /\ call.id # 0
      BY <2>1 DEF CallShape, Numbered
    <3>2. m # Note
      BY <2>1, <3>1 DEF Note
    <3>3. m \in InFlight(call.server)
      BY <1>3, <2>1, <3>1, <3>2 DEF InFlight
    <3> QED BY <2>1, <3>3 DEF Numbered
  <2>2. (call.step # "none")' => \A m \in InFlight(call.server)' : m.id = call.id => m.of = calls
    BY <1>3, <2>1
  <2> QED BY <1>1, <1>3, <2>2 DEF Numbered, CallShape
<1> QED BY <1>2, <1>3

\* A request gets a number no message in flight has.
LEMMA RequestInFlight ==
  ASSUME McpTypeOK, Numbered, NEW s \in Servers, NEW of, NEW step, NEW found, NEW seen,
         Send(s, of, step, found, seen), calls' = of, step # "none", of # 0,
         \A u \in Servers : Elements(queue'[u]) \subseteq Elements(queue[u]),
         of \in 1 .. MaxCalls
  PROVE  Numbered' /\ CallShape' /\ nextId' \in [Servers -> Nat \ {0}]
         /\ asked' \in [Servers -> SUBSET Request]
<1> DEFINE r == [id |-> nextId[s], of |-> of]
<1>1. /\ call' = [step |-> step, server |-> s, id |-> nextId[s], found |-> found, seen |-> seen]
      /\ nextId' = [nextId EXCEPT ![s] = nextId[s] + 1]
      /\ asked' = IF s \in Http THEN asked ELSE [asked EXCEPT ![s] = asked[s] \cup {r}]
  BY DEF Send, NextId
<1>2. call'.step = step /\ call'.server = s /\ call'.id = nextId[s]
  BY <1>1
<1>3. nextId \in [Servers -> Nat \ {0}] /\ asked \in [Servers -> SUBSET Request]
  BY DEF McpTypeOK
<1>4. r \in Request
  BY <1>3 DEF Request
<1>5. asked[s] \cup {r} \in SUBSET Request
  <2> HIDE DEF r
  <2> QED BY <1>3, <1>4
<1>6. asked' \in [Servers -> SUBSET Request] /\ nextId' \in [Servers -> Nat \ {0}]
  <2> HIDE DEF r
  <2> QED BY <1>1, <1>3, <1>5
<1>7. \A u \in Servers : asked'[u] \subseteq asked[u] \cup (IF u = s THEN {r} ELSE {})
  <2> HIDE DEF r
  <2> QED BY <1>1, <1>3, <1>5
<1>8. \A u \in Servers : InFlight(u)' \subseteq InFlight(u) \cup (IF u = s THEN {r} ELSE {})
  <2> HIDE DEF r
  <2> QED BY <1>7 DEF InFlight
<1>9. \A u \in Servers : nextId'[u] = IF u = s THEN nextId[s] + 1 ELSE nextId[u]
  BY <1>1, <1>3
<1>10. ASSUME NEW u \in Servers, NEW m \in InFlight(u)' PROVE m.id < nextId'[u]
  <2>1. CASE m \in InFlight(u)
    <3>1. m.id < nextId[u]
      BY <2>1 DEF Numbered
    <3>2. m \in Request \cup {Note}
      BY <2>1, MessageTypes DEF InFlight, Wire
    <3>3. m.id \in Nat
      BY <3>2 DEF Request, Note
    <3>4. nextId[u] \in Nat /\ nextId[s] \in Nat /\ nextId[u] <= nextId'[u]
      BY <1>3, <1>9
    <3>5. nextId'[u] \in Nat
      BY <1>6
    <3> QED BY <3>1, <3>3, <3>4, <3>5
  <2>2. CASE m = r /\ u = s
    BY <1>3, <1>9, <2>2
  <2> QED BY <1>8, <1>10, <2>1, <2>2
<1>11. ASSUME NEW m \in InFlight(s)', m.id = nextId[s] PROVE m.of = of
  <2>1. CASE m \in InFlight(s)
    <3>1. m.id < nextId[s]
      BY <2>1 DEF Numbered
    <3> QED BY <1>3, <1>11, <3>1
  <2> QED BY <1>8, <1>11, <2>1
<1>12. Numbered'
  <2>1. nextId[s] # 0
    BY <1>3
  <2> QED BY <1>2, <1>10, <1>11, <2>1 DEF Numbered
<1>13. CallShape'
  BY <1>2 DEF CallShape
<1> QED BY <1>6, <1>12, <1>13

-----------------------------------------------------------------------------
(* Connections. *)

\* A step that neither connects, nor ends an attempt to.
LEMMA SameClients ==
  ASSUME Clients, Registered, UNCHANGED <<client, connections, registry>>,
         \A s \in Servers : alive'[s] => alive[s],
         Connecting' <=> Connecting, Connecting => call'.server = call.server
  PROVE  Clients' /\ Registered'
<1>1. Clients'
  BY DEF Clients, ConnectionsNamed
<1>2. Registered'
  BY DEF Registered, ToolsOf
<1> QED BY <1>1, <1>2

\* A call that fails closes the client it was connecting, which no connection has.
LEMMA FailKeeps ==
  ASSUME McpInv, call.step # "none", NEW rest \in Seq(Wire), Fail(rest),
         Elements(rest) \subseteq Elements(queue[call.server])
  PROVE  McpInv'
<1> DEFINE s == call.server
<1>1. s \in Servers /\ McpTypeOK /\ Numbered /\ CallShape /\ Clients /\ Registered
  BY DEF McpInv, CallShape
<1>2. call' = NoCall_ /\ UNCHANGED <<connections, registry, nextId, calls, answers>>
  BY DEF Fail
<1>3. <<>> \in Seq(Wire) /\ <<>> \in Seq(Offered)
  OBVIOUS
<1>4. NoCall_ \in Progress
  BY <1>3 DEF NoCall_, Progress
<1>5. ~Connecting'
  BY <1>2 DEF Connecting, NoCall_
<1>6. OwnAnswer'
  BY <1>2 DEF McpInv, OwnAnswer
<1>7. CASE call.step = "call"
  <2>1. queue' = [queue EXCEPT ![s] = rest] /\ UNCHANGED <<client, alive, asked>>
    BY <1>7 DEF Fail
  <2>2. McpTypeOK'
    <3>1. queue' \in [Servers -> Seq(Wire)]
      BY <1>1, <2>1 DEF McpTypeOK, Wire
    <3> QED BY <1>1, <1>2, <1>4, <2>1, <3>1 DEF McpTypeOK, Wire
  <2>3. \A u \in Servers : InFlight(u)' \subseteq InFlight(u) \cup {Note}
    BY <1>1, <2>1 DEF InFlight, McpTypeOK
  <2>4. Numbered' /\ CallShape'
    BY <1>1, <1>2, <2>3, FewerInFlight
  <2>5. ~Connecting
    BY <1>7 DEF Connecting
  <2>6. Clients' /\ Registered'
    BY <1>1, <1>2, <1>5, <2>1, <2>5, SameClients
  <2> QED BY <1>6, <2>2, <2>4, <2>6 DEF McpInv
<1>8. CASE call.step # "call"
  <2>1. /\ client' = [client EXCEPT ![s] = "closed"]
        /\ alive' = [alive EXCEPT ![s] = FALSE]
        /\ asked' = [asked EXCEPT ![s] = {}]
        /\ queue' = [queue EXCEPT ![s] = <<>>]
    BY <1>8 DEF Fail, CloseAfterFailure
  <2>2. McpTypeOK'
    <3>1. asked' \in [Servers -> SUBSET Request]
      BY <1>1, <1>3, <2>1 DEF McpTypeOK
    <3>3. queue' \in [Servers -> Seq(Wire)]
      BY <1>1, <1>3, <2>1 DEF McpTypeOK, Wire
    <3>2. client' \in [Servers -> {"none", "open", "closed"}] /\ alive' \in [Servers -> BOOLEAN]
      BY <1>1, <2>1 DEF McpTypeOK
    <3> QED BY <1>1, <1>2, <1>4, <3>1, <3>2, <3>3 DEF McpTypeOK, Wire
  <2>3. \A u \in Servers : InFlight(u)' \subseteq InFlight(u) \cup {Note}
    BY <1>1, <2>1, ElementsEmpty DEF InFlight, McpTypeOK
  <2>4. Numbered' /\ CallShape'
    BY <1>1, <1>2, <2>3, FewerInFlight
  <2>5. Connecting
    BY <1>1, <1>8 DEF Connecting, McpTypeOK, Progress
  <2>6. \A c \in connections : c.server # s
    BY <1>1, <2>5 DEF Clients, ConnectionsNamed
  <2>7. Clients'
    <3>1. ASSUME NEW u \in Servers
          PROVE  /\ client'[u] = "open" <=> \E c \in connections : c.server = u
                 /\ alive'[u] => client'[u] = "open"
      <4>1. CASE u = s
        BY <1>1, <2>1, <2>6, <4>1 DEF McpTypeOK
      <4>2. CASE u # s
        BY <1>1, <2>1, <4>2 DEF McpTypeOK, Clients
      <4> QED BY <4>1, <4>2
    <3> QED BY <1>1, <1>2, <1>5, <3>1 DEF Clients
  <2>8. Registered'
    BY <1>1, <1>2 DEF Registered, ToolsOf
  <2> QED BY <1>6, <2>2, <2>4, <2>7, <2>8 DEF McpInv
<1> QED BY <1>7, <1>8

\* The next request of the call in progress.
LEMMA SendKeeps ==
  ASSUME McpInv, Connecting, NEW s \in Servers, s = call.server,
         NEW found \in Seq(Offered), NEW seen \in SUBSET Cursors,
         Send(s, calls, "list", found, seen),
         NEW rest \in Seq(Wire), Elements(rest) \subseteq Elements(queue[s]),
         queue' = [queue EXCEPT ![s] = rest],
         UNCHANGED <<connections, registry, client, alive, calls, answers>>
  PROVE  McpInv'
<1>1. McpTypeOK /\ Numbered /\ CallShape /\ Clients /\ Registered /\ call.step # "none"
  BY DEF McpInv, Connecting
<1>2. calls # 0 /\ calls \in 1 .. MaxCalls
  BY <1>1, McpAssumption DEF CallShape, McpTypeOK
<1>3. \A u \in Servers : Elements(queue'[u]) \subseteq Elements(queue[u])
  BY <1>1 DEF McpTypeOK
<1>4. Numbered' /\ CallShape' /\ nextId' \in [Servers -> Nat \ {0}]
      /\ asked' \in [Servers -> SUBSET Request]
  BY <1>1, <1>2, <1>3, RequestInFlight
<1>5. call' = [step |-> "list", server |-> s, id |-> nextId[s], found |-> found, seen |-> seen]
  BY DEF Send
<1>6. McpTypeOK'
  <2>1. call' \in Progress
    BY <1>1, <1>5 DEF McpTypeOK, Progress
  <2>2. queue' \in [Servers -> Seq(Wire)]
    BY <1>1 DEF McpTypeOK, Wire
  <2> QED BY <1>1, <1>4, <2>1, <2>2 DEF McpTypeOK, Wire
<1>7. Connecting' /\ call'.server = s
  BY <1>5 DEF Connecting
<1>8. Clients' /\ Registered'
  BY <1>1, <1>7, SameClients
<1>9. OwnAnswer'
  BY DEF McpInv, OwnAnswer
<1> QED BY <1>4, <1>6, <1>8, <1>9 DEF McpInv

\* The tools of a server are entered, with their names.
LEMMA RegisterKeeps ==
  ASSUME McpInv, Connecting, NEW s \in Servers, s = call.server,
         NEW found \in Seq(Offered), Registrable(s, found), Register(s, found),
         NEW rest \in Seq(Wire), Elements(rest) \subseteq Elements(queue[s]),
         queue' = [queue EXCEPT ![s] = rest]
  PROVE  McpInv'
<1> DEFINE tools == {found[i] : i \in DOMAIN found}
           new   == [server |-> s, tools |-> tools]
<1>1. McpTypeOK /\ Numbered /\ CallShape /\ Clients /\ Registered /\ call.step # "none"
  BY DEF McpInv, Connecting
<1>2. /\ registry' = registry \cup Entries(s, found)
      /\ connections' = connections \cup {new}
      /\ call' = NoCall_
      /\ UNCHANGED <<client, alive, nextId, asked, calls, answers>>
  BY DEF Register
<1>3. tools \subseteq Offered
  BY LenProperties, ElementOfSeq
<1>4. new \in [server: Servers, tools: SUBSET Offered]
  BY <1>3
<1>5. Entries(s, found) = ToolsOf(new)
  BY DEF Entries, ToolsOf
<1>6. McpTypeOK'
  <2>1. NoCall_ \in Progress
    BY DEF NoCall_, Progress
  <2>2. Entries(s, found) \subseteq {Entry(u, t) : u \in Servers, t \in Offered}
    BY <1>3, <1>5 DEF ToolsOf
  <2>3. connections' \subseteq [server: Servers, tools: SUBSET Offered]
    <3> HIDE DEF new
    <3> QED BY <1>1, <1>2, <1>4 DEF McpTypeOK
  <2>4. queue' \in [Servers -> Seq(Wire)]
    BY <1>1 DEF McpTypeOK, Wire
  <2> HIDE DEF new
  <2> QED BY <1>1, <1>2, <2>1, <2>2, <2>3, <2>4 DEF McpTypeOK, Wire
<1>7. \A u \in Servers : InFlight(u)' \subseteq InFlight(u) \cup {Note}
  BY <1>1, <1>2 DEF InFlight, McpTypeOK
<1>8. Numbered' /\ CallShape'
  BY <1>1, <1>2, <1>7, FewerInFlight
<1>9. ~Connecting'
  BY <1>2 DEF Connecting, NoCall_
<1>10. Clients'
  <2>1. new.server = s
    OBVIOUS
  <2>2. \A c \in connections : NormalName[c.server] # NormalName[s]
    BY <1>1 DEF Clients, ConnectionsNamed
  <2>3. ASSUME NEW u \in Servers
        PROVE  client'[u] = "open" <=> \E c \in connections' : c.server = u
    <3> HIDE DEF new
    <3> QED BY <1>1, <1>2, <2>1 DEF Clients
  <2>4. \A c, d \in connections' : NormalName[c.server] = NormalName[d.server] => c = d
    <3> HIDE DEF new
    <3> QED BY <1>1, <1>2, <2>1, <2>2 DEF Clients
  <2> QED BY <1>1, <1>2, <1>9, <2>3, <2>4 DEF Clients
<1>11. Registered'
  <2>1. /\ IsFiniteSet(Entries(s, found))
        /\ \A e, f \in Entries(s, found) : e.name = f.name => e = f
    BY EntriesDiffer DEF Registrable
  <2>2. \A e \in Entries(s, found), f \in registry : e.name # f.name
    BY DEF Registrable, NamesOf
  <2>3. IsFiniteSet(registry')
    BY <1>1, <1>2, <2>1, FS_Union DEF Registered
  <2>4. \A e, f \in registry' : e.name = f.name => e = f
    BY <1>1, <1>2, <2>1, <2>2 DEF Registered
  <2>5. registry' = UNION {ToolsOf(c) : c \in connections'}
    <3> HIDE DEF new
    <3> QED BY <1>1, <1>2, <1>5 DEF Registered
  <2> QED BY <2>3, <2>4, <2>5 DEF Registered, ToolsOf
<1>12. OwnAnswer'
  BY <1>2 DEF McpInv, OwnAnswer
<1> QED BY <1>6, <1>8, <1>10, <1>11, <1>12 DEF McpInv

-----------------------------------------------------------------------------
(* The answers. *)

LEMMA ProceedKeeps ==
  ASSUME McpInv,
         NEW s \in Servers, s = call.server, NEW rest \in Seq(Wire),
         Elements(rest) \subseteq Elements(queue[s]), Proceed(s, rest)
  PROVE  McpInv'
<1>1. call.found \in Seq(Offered) /\ call.seen \in SUBSET Cursors
  BY DEF McpInv, McpTypeOK, Progress
<1>2. CASE call.step = "initialize"
  <2>1. Connecting /\ <<>> \in Seq(Offered) /\ {} \in SUBSET Cursors
    BY <1>2 DEF Connecting
  <2>2. /\ Send(s, calls, "list", <<>>, {})
        /\ queue' = [queue EXCEPT ![s] = rest]
        /\ UNCHANGED <<connections, registry, client, alive, calls, answers>>
    BY <1>2 DEF Proceed
  <2> QED BY <2>1, <2>2, SendKeeps
<1>3. CASE call.step = "list"
  <2>1. Connecting /\ call.step # "none"
    BY <1>3 DEF Connecting
  <2>2. PICK page \in Pages :
            LET found == call.found \o page.tools IN
            \/ /\ page.cursor = {}
               /\ Registrable(s, found)
               /\ Register(s, found)
               /\ queue' = [queue EXCEPT ![s] = rest]
            \/ /\ page.cursor = {} /\ ~Registrable(s, found)
               /\ Fail(rest)
            \/ /\ Cardinality(page.cursor) = 1
               /\ page.cursor \cap call.seen = {}
               /\ Send(s, calls, "list", found, call.seen \cup page.cursor)
               /\ queue' = [queue EXCEPT ![s] = rest]
               /\ UNCHANGED <<connections, registry, client, alive, calls, answers>>
            \/ /\ Cardinality(page.cursor) = 1
               /\ page.cursor \subseteq call.seen
               /\ Fail(rest)
    BY <1>3 DEF Proceed
  <2> DEFINE found == call.found \o page.tools
  <2>3. page.tools \in Seq(Offered) /\ page.cursor \in SUBSET Cursors
    <3>1. page.tools \in {<<>>} \cup {<<t>> : t \in Offered} /\ page.cursor \in SUBSET Cursors
      BY DEF Pages
    <3>2. <<>> \in Seq(Offered) /\ \A t \in Offered : <<t>> \in Seq(Offered)
      OBVIOUS
    <3> QED BY <3>1, <3>2
  <2>4. found \in Seq(Offered) /\ call.seen \cup page.cursor \in SUBSET Cursors
    BY <1>1, <2>3, ConcatProperties
  <2> HIDE DEF found
  <2>5. CASE Fail(rest)
    BY <2>1, <2>5, FailKeeps
  <2>6. CASE /\ Registrable(s, found) /\ Register(s, found)
             /\ queue' = [queue EXCEPT ![s] = rest]
    BY <2>1, <2>4, <2>6, RegisterKeeps
  <2>7. CASE /\ Send(s, calls, "list", found, call.seen \cup page.cursor)
             /\ queue' = [queue EXCEPT ![s] = rest]
             /\ UNCHANGED <<connections, registry, client, alive, calls, answers>>
    BY <2>1, <2>4, <2>7, SendKeeps
  <2> QED BY <2>2, <2>5, <2>6, <2>7 DEF found
<1> QED BY <1>2, <1>3 DEF Proceed

\* The answer a call returns is its own.
LEMMA ReturnKeeps ==
  ASSUME McpInv, NEW s \in Servers, s = call.server, NEW message, message.of = calls,
         NEW rest \in Seq(Wire), Elements(rest) \subseteq Elements(queue[s]),
         Return(s, message, rest)
  PROVE  McpInv'
<1>1. McpTypeOK /\ Numbered /\ CallShape /\ Clients /\ Registered
  BY DEF McpInv
<1>2. /\ call.step = "call" /\ call' = NoCall_
      /\ answers' = answers \cup {<<calls, calls>>}
      /\ queue' = [queue EXCEPT ![s] = rest]
      /\ UNCHANGED <<connections, registry, client, alive, nextId, asked, calls>>
  BY DEF Return
<1>3. McpTypeOK'
  <2>1. NoCall_ \in Progress
    BY DEF NoCall_, Progress
  <2>2. queue' \in [Servers -> Seq(Wire)]
    BY <1>1, <1>2 DEF McpTypeOK, Wire
  <2>3. calls \in 1 .. MaxCalls
    BY <1>1, <1>2, McpAssumption DEF CallShape, McpTypeOK
  <2>4. answers' \subseteq (1 .. MaxCalls) \X (1 .. MaxCalls)
    BY <1>1, <1>2, <2>3 DEF McpTypeOK
  <2> QED BY <1>1, <1>2, <2>1, <2>2, <2>4 DEF McpTypeOK, Wire
<1>4. \A u \in Servers : InFlight(u)' \subseteq InFlight(u) \cup {Note}
  BY <1>1, <1>2 DEF InFlight, McpTypeOK
<1>5. Numbered' /\ CallShape'
  BY <1>1, <1>2, <1>4, FewerInFlight
<1>6. ~Connecting /\ ~Connecting'
  BY <1>2 DEF Connecting, NoCall_
<1>7. Clients' /\ Registered'
  BY <1>1, <1>2, <1>6, SameClients
<1>8. OwnAnswer'
  BY <1>2 DEF McpInv, OwnAnswer
<1> QED BY <1>3, <1>5, <1>7, <1>8 DEF McpInv

LEMMA ReadKeeps ==
  ASSUME McpInv, NEW s \in Servers, Read(s)
  PROVE  McpInv'
<1> DEFINE message == Head(queue[s])
           rest == Tail(queue[s])
<1>1. McpTypeOK /\ Numbered /\ CallShape /\ Clients /\ Registered
  BY DEF McpInv
<1>2. queue[s] \in Seq(Wire) /\ call.step # "none" /\ call.server = s /\ queue[s] # <<>>
  BY <1>1, MessageTypes DEF Read
<1>3. /\ rest \in Seq(Wire) /\ Elements(rest) \subseteq Elements(queue[s])
      /\ message \in Elements(queue[s]) /\ message \in InFlight(s)
  BY <1>2, ElementsTail DEF InFlight
<1> HIDE DEF message, rest
<1>4. CASE /\ queue' = [queue EXCEPT ![s] = rest]
           /\ UNCHANGED <<connections, registry, client, alive, nextId, asked,
                          call, calls, answers>>
  <2>1. queue' \in [Servers -> Seq(Wire)]
    BY <1>1, <1>3, <1>4 DEF McpTypeOK, Wire
  <2>2. McpTypeOK'
    BY <1>1, <1>4, <2>1 DEF McpTypeOK, Wire
  <2>3. \A u \in Servers : InFlight(u)' \subseteq InFlight(u) \cup {Note}
    BY <1>1, <1>3, <1>4 DEF InFlight, McpTypeOK
  <2>4. Numbered' /\ CallShape'
    BY <1>1, <1>4, <2>3, FewerInFlight
  <2>5. Connecting' <=> Connecting
    BY <1>4 DEF Connecting
  <2>6. Clients' /\ Registered'
    BY <1>1, <1>4, <2>5, SameClients
  <2>7. OwnAnswer'
    BY <1>4 DEF McpInv, OwnAnswer
  <2> QED BY <2>2, <2>4, <2>6, <2>7 DEF McpInv
<1>5. CASE IsAnswer(message) /\ (Proceed(s, rest) \/ Return(s, message, rest))
  <2>1. message.of = calls
    BY <1>1, <1>2, <1>3, <1>5 DEF IsAnswer, Numbered
  <2>2. CASE Proceed(s, rest)
    BY <1>2, <1>3, <2>2, ProceedKeeps
  <2>3. CASE Return(s, message, rest)
    BY <1>2, <1>3, <2>1, <2>3, ReturnKeeps
  <2> QED BY <1>5, <2>2, <2>3
<1>6. CASE Fail(rest)
  BY <1>2, <1>3, <1>6, FailKeeps
<1> QED BY <1>4, <1>5, <1>6 DEF Read, message, rest

LEMMA GiveUpKeeps ==
  ASSUME McpInv, NEW s \in Servers, GiveUp(s)
  PROVE  McpInv'
<1>1. <<>> \in Seq(Wire) /\ Elements(<<>>) \subseteq Elements(queue[s])
  BY ElementsEmpty
<1>2. call.step # "none" /\ call.server = s /\ Fail(<<>>)
  BY DEF GiveUp
<1> QED BY <1>1, <1>2, FailKeeps

LEMMA ExchangeKeeps ==
  ASSUME McpInv, NEW s \in Servers, Exchange(s)
  PROVE  McpInv'
<1>1. <<>> \in Seq(Wire) /\ Elements(<<>>) \subseteq Elements(queue[s])
  BY ElementsEmpty
<1>2. call.step # "none" /\ call.server = s
  BY DEF Exchange
<1>3. CASE Proceed(s, <<>>)
  BY <1>1, <1>2, <1>3, ProceedKeeps
<1>4. CASE Return(s, [id |-> call.id, of |-> calls], <<>>)
  BY <1>1, <1>2, <1>4, ReturnKeeps
<1>5. CASE Fail(<<>>)
  BY <1>1, <1>2, <1>5, FailKeeps
<1> QED BY <1>3, <1>4, <1>5 DEF Exchange

-----------------------------------------------------------------------------
(* The calls. *)

LEMMA AlreadyConnectedKeeps ==
  ASSUME McpInv, NEW s \in Servers, AlreadyConnected(s)
  PROVE  McpInv'
<1>1. McpTypeOK /\ Numbered /\ CallShape /\ Clients /\ Registered
  BY DEF McpInv
<1>2. /\ call = NoCall_ /\ calls < MaxCalls /\ calls' = calls + 1
      /\ UNCHANGED <<connections, registry, client, alive, nextId, asked, queue,
                     call, answers>>
  BY DEF AlreadyConnected
<1>3. McpTypeOK'
  <2>1. calls' \in 0 .. MaxCalls
    BY <1>1, <1>2, McpAssumption DEF McpTypeOK
  <2> QED BY <1>1, <1>2, <2>1 DEF McpTypeOK
<1>4. \A u \in Servers : InFlight(u)' \subseteq InFlight(u) \cup {Note}
  BY <1>2 DEF InFlight
<1>5. Numbered' /\ CallShape'
  BY <1>1, <1>2, <1>4, FewerInFlight
<1>6. ~Connecting /\ ~Connecting'
  BY <1>2 DEF Connecting, NoCall_
<1>7. Clients' /\ Registered'
  BY <1>1, <1>2, <1>6, SameClients
<1>8. OwnAnswer'
  BY <1>2 DEF McpInv, OwnAnswer
<1> QED BY <1>3, <1>5, <1>7, <1>8 DEF McpInv

LEMMA ConnectKeeps ==
  ASSUME McpInv, NEW s \in Servers, Connect(s)
  PROVE  McpInv'
<1> DEFINE r == [id |-> 1, of |-> calls + 1]
           first == IF s \in Http THEN {} ELSE {r}
           begun == [step |-> "initialize", server |-> s, id |-> 1,
                     found |-> <<>>, seen |-> {}]
<1>1. McpTypeOK /\ Numbered /\ CallShape /\ Clients /\ Registered
  BY DEF McpInv
<1>2. /\ call = NoCall_ /\ calls < MaxCalls /\ calls' = calls + 1
      /\ ConnectionsNamed(NormalName[s]) = {}
      /\ UNCHANGED <<connections, registry, answers>>
  BY DEF Connect
<1>3. calls' \in 1 .. MaxCalls /\ calls' # 0
  BY <1>1, <1>2, McpAssumption DEF McpTypeOK
<1>4. ~Connecting
  BY <1>2 DEF Connecting, NoCall_
<1>5. OwnAnswer'
  BY <1>2 DEF McpInv, OwnAnswer
<1>6. Registered'
  BY <1>1, <1>2 DEF Registered, ToolsOf
<1>7. CASE UNCHANGED <<client, alive, nextId, asked, queue, call>>
  <2>1. McpTypeOK'
    BY <1>1, <1>2, <1>3, <1>7 DEF McpTypeOK
  <2>2. \A u \in Servers : InFlight(u)' \subseteq InFlight(u) \cup {Note}
    BY <1>7 DEF InFlight
  <2>3. Numbered' /\ CallShape'
    BY <1>1, <1>2, <1>7, <2>2, FewerInFlight
  <2>4. ~Connecting'
    BY <1>4, <1>7 DEF Connecting
  <2>5. Clients'
    BY <1>1, <1>2, <1>4, <1>7, <2>4, SameClients
  <2> QED BY <1>5, <1>6, <2>1, <2>3, <2>5 DEF McpInv
<1>8. CASE /\ client' = [client EXCEPT ![s] = "open"]
           /\ alive' = [alive EXCEPT ![s] = s \notin Http]
           /\ nextId' = [nextId EXCEPT ![s] = 2]
           /\ asked' = [asked EXCEPT ![s] = first]
           /\ queue' = [queue EXCEPT ![s] = <<>>]
           /\ call' = begun
  <2>1. begun \in Progress /\ begun.step = "initialize" /\ begun.server = s /\ begun.id = 1
    BY DEF Progress
  <2>2. r \in Request
    BY <1>2, <1>3 DEF Request
  <2>3. first \in SUBSET Request /\ first \subseteq {r}
    BY <2>2
  <2> HIDE DEF r, first, begun
  <2>4. McpTypeOK'
    <3>1. asked' \in [Servers -> SUBSET Request]
      BY <1>1, <1>8, <2>3 DEF McpTypeOK
    <3>2. queue' \in [Servers -> Seq(Wire)]
      BY <1>1, <1>8 DEF McpTypeOK, Wire
    <3>3. client' \in [Servers -> {"none", "open", "closed"}] /\ alive' \in [Servers -> BOOLEAN]
      BY <1>1, <1>8 DEF McpTypeOK
    <3>4. nextId' \in [Servers -> Nat \ {0}]
      BY <1>1, <1>8 DEF McpTypeOK
    <3>5. connections' \subseteq [server: Servers, tools: SUBSET Offered]
          /\ registry' \subseteq {Entry(u, t) : u \in Servers, t \in Offered}
          /\ answers' \subseteq (1 .. MaxCalls) \X (1 .. MaxCalls)
      BY <1>1, <1>2 DEF McpTypeOK
    <3> QED BY <1>3, <1>8, <2>1, <3>1, <3>2, <3>3, <3>4, <3>5 DEF McpTypeOK, Wire
  <2>5. InFlight(s)' \subseteq {r}
    BY <1>1, <1>8, <2>3, ElementsEmpty DEF InFlight, McpTypeOK
  <2>6. \A u \in Servers \ {s} : InFlight(u)' = InFlight(u) /\ nextId'[u] = nextId[u]
    BY <1>1, <1>8 DEF InFlight, McpTypeOK
  <2>7. nextId'[s] = 2 /\ r.id = 1 /\ r.of = calls'
    BY <1>1, <1>2, <1>8 DEF McpTypeOK, r
  <2>8. \A u \in Servers : \A m \in InFlight(u)' : m.id < nextId'[u]
    BY <1>1, <2>5, <2>6, <2>7 DEF Numbered
  <2>9. Numbered' /\ CallShape'
    BY <1>3, <1>8, <2>1, <2>5, <2>7, <2>8 DEF Numbered, CallShape
  <2>10. Connecting' /\ call'.server = s
    BY <1>8, <2>1 DEF Connecting
  <2>11. \A c \in connections : c.server # s
    BY <1>2 DEF ConnectionsNamed
  <2>12. Clients'
    <3>1. ASSUME NEW u \in Servers
          PROVE  /\ client'[u] = "open" <=> (\E c \in connections : c.server = u) \/ u = s
                 /\ alive'[u] => client'[u] = "open"
      <4>1. CASE u = s
        BY <1>1, <1>8, <4>1 DEF McpTypeOK
      <4>2. CASE u # s
        BY <1>1, <1>4, <1>8, <4>2 DEF McpTypeOK, Clients
      <4> QED BY <4>1, <4>2
    <3> QED BY <1>1, <1>2, <2>10, <3>1 DEF Clients, ConnectionsNamed
  <2> QED BY <1>5, <1>6, <2>4, <2>9, <2>12 DEF McpInv
<1> QED BY <1>7, <1>8 DEF Connect

LEMMA CallToolKeeps ==
  ASSUME McpInv, NEW name, CallTool(name)
  PROVE  McpInv'
<1>1. McpTypeOK /\ Numbered /\ CallShape /\ Clients /\ Registered
  BY DEF McpInv
<1>2. /\ call = NoCall_ /\ calls < MaxCalls /\ calls' = calls + 1
      /\ UNCHANGED <<connections, registry, client, alive, queue, answers>>
  BY DEF CallTool
<1>3. PICK e \in registry :
         IF client[e.server] = "open" /\ (e.server \in Http \/ alive[e.server])
           THEN Send(e.server, calls + 1, "call", <<>>, {})
           ELSE UNCHANGED <<call, nextId, asked>>
  BY DEF CallTool
<1> DEFINE s == e.server
<1>4. s \in Servers
  <2>1. PICK u \in Servers, t \in Offered : e = Entry(u, t)
    BY <1>1 DEF McpTypeOK
  <2> QED BY <2>1 DEF Entry
<1>5. calls' \in 1 .. MaxCalls /\ calls' # 0
  BY <1>1, <1>2, McpAssumption DEF McpTypeOK
<1>6. ~Connecting
  BY <1>2 DEF Connecting, NoCall_
<1>7. OwnAnswer'
  BY <1>2 DEF McpInv, OwnAnswer
<1>8. CASE UNCHANGED <<call, nextId, asked>>
  <2>1. McpTypeOK'
    BY <1>1, <1>2, <1>5, <1>8 DEF McpTypeOK
  <2>2. \A u \in Servers : InFlight(u)' \subseteq InFlight(u) \cup {Note}
    BY <1>2, <1>8 DEF InFlight
  <2>3. Numbered' /\ CallShape'
    BY <1>1, <1>2, <1>8, <2>2, FewerInFlight
  <2>4. ~Connecting'
    BY <1>6, <1>8 DEF Connecting
  <2>5. Clients' /\ Registered'
    BY <1>1, <1>2, <1>6, <2>4, SameClients
  <2> QED BY <1>7, <2>1, <2>3, <2>5 DEF McpInv
<1>9. CASE Send(s, calls + 1, "call", <<>>, {})
  <2>1. \A u \in Servers : Elements(queue'[u]) \subseteq Elements(queue[u])
    BY <1>2
  <2>2. Numbered' /\ CallShape' /\ nextId' \in [Servers -> Nat \ {0}]
        /\ asked' \in [Servers -> SUBSET Request]
    <3> HIDE DEF s
    <3> QED BY <1>1, <1>2, <1>4, <1>5, <1>9, <2>1, RequestInFlight
  <2>3. call' = [step |-> "call", server |-> s, id |-> nextId[s], found |-> <<>>, seen |-> {}]
    BY <1>9 DEF Send
  <2>4. call' \in Progress
    <3>1. nextId[s] \in Nat
      BY <1>1, <1>4 DEF McpTypeOK
    <3> HIDE DEF s
    <3> QED BY <1>4, <2>3, <3>1 DEF Progress
  <2>5. McpTypeOK'
    BY <1>1, <1>2, <1>5, <2>2, <2>4 DEF McpTypeOK
  <2>6. ~Connecting'
    BY <2>3 DEF Connecting
  <2>7. Clients' /\ Registered'
    BY <1>1, <1>2, <1>6, <2>6, SameClients
  <2> QED BY <1>7, <2>2, <2>5, <2>7 DEF McpInv
<1> QED BY <1>3, <1>8, <1>9

-----------------------------------------------------------------------------
(* The servers, and the end of the lead. *)

\* A step of a server answers a request it has had, adds a notification or ends its
\* process: what is in flight is what was, but for notifications.
LEMMA ServerKeeps ==
  ASSUME McpInv,
         UNCHANGED <<connections, registry, client, nextId, call, calls, answers>>,
         alive' \in [Servers -> BOOLEAN], asked' \in [Servers -> SUBSET Request],
         queue' \in [Servers -> Seq(Wire)],
         \A u \in Servers : alive'[u] => alive[u],
         \A u \in Servers : InFlight(u)' \subseteq InFlight(u) \cup {Note}
  PROVE  McpInv'
<1>1. McpTypeOK /\ Numbered /\ CallShape /\ Clients /\ Registered
  BY DEF McpInv
<1>2. McpTypeOK'
  BY <1>1 DEF McpTypeOK, Wire
<1>3. Numbered' /\ CallShape'
  BY <1>1, FewerInFlight
<1>4. Clients' /\ Registered'
  <2>1. Connecting' <=> Connecting
    BY DEF Connecting
  <2> QED BY <1>1, <2>1, SameClients
<1>5. OwnAnswer'
  BY DEF McpInv, OwnAnswer
<1> QED BY <1>2, <1>3, <1>4, <1>5 DEF McpInv

LEMMA ServerStepKeeps ==
  ASSUME McpInv, NEW s \in Servers,
         ServerAnswers(s) \/ ServerNotifies(s) \/ ServerExits(s)
  PROVE  McpInv'
<1>1. McpTypeOK /\ queue \in [Servers -> Seq(Wire)] /\ asked \in [Servers -> SUBSET Request]
      /\ alive \in [Servers -> BOOLEAN]
  BY DEF McpInv, McpTypeOK, Wire
<1>2. \A m \in Wire :
        /\ Append(queue[s], m) \in Seq(Wire)
        /\ Elements(Append(queue[s], m)) = Elements(queue[s]) \cup {m}
  BY <1>1, ElementsAppend
<1>3. CASE ServerAnswers(s)
  <2>1. PICK request \in asked[s] :
          /\ queue' = [queue EXCEPT ![s] = Append(queue[s], request)]
          /\ UNCHANGED <<connections, registry, client, alive, nextId, asked, call,
                         calls, answers>>
    BY <1>3 DEF ServerAnswers
  <2>2. request \in Wire
    BY <1>1 DEF Wire
  <2>3. queue' \in [Servers -> Seq(Wire)]
    BY <1>1, <1>2, <2>1, <2>2
  <2>4. \A u \in Servers : InFlight(u)' \subseteq InFlight(u)
    BY <1>1, <1>2, <2>1, <2>2 DEF InFlight
  <2> QED BY <1>1, <2>1, <2>3, <2>4, ServerKeeps
<1>4. CASE ServerNotifies(s)
  <2>1. /\ queue' = [queue EXCEPT ![s] = Append(queue[s], Note)]
        /\ UNCHANGED <<connections, registry, client, alive, nextId, asked, call, calls, answers>>
    BY <1>4 DEF ServerNotifies
  <2>2. Note \in Wire
    BY DEF Wire
  <2>3. queue' \in [Servers -> Seq(Wire)]
    BY <1>1, <1>2, <2>1, <2>2
  <2>4. \A u \in Servers : InFlight(u)' \subseteq InFlight(u) \cup {Note}
    BY <1>1, <1>2, <2>1, <2>2 DEF InFlight
  <2> QED BY <1>1, <2>1, <2>3, <2>4, ServerKeeps
<1>5. CASE ServerExits(s)
  <2>1. /\ alive' = [alive EXCEPT ![s] = FALSE] /\ asked' = [asked EXCEPT ![s] = {}]
        /\ UNCHANGED <<connections, registry, client, nextId, queue, call, calls, answers>>
    BY <1>5 DEF ServerExits
  <2>2. asked' \in [Servers -> SUBSET Request]
    BY <1>1, <2>1
  <2>3. \A u \in Servers : InFlight(u)' \subseteq InFlight(u)
    BY <1>1, <2>1, ElementsEmpty DEF InFlight
  <2>4. alive' \in [Servers -> BOOLEAN] /\ \A u \in Servers : alive'[u] => alive[u]
    BY <1>1, <2>1
  <2> QED BY <1>1, <2>1, <2>2, <2>3, <2>4, ServerKeeps
<1> QED BY <1>3, <1>4, <1>5

\* Nothing is connected and nothing in flight: so it begins, and so a lead begins anew.
Fresh ==
  /\ connections = {}
  /\ registry = {}
  /\ client = [s \in Servers |-> "none"]
  /\ alive = [s \in Servers |-> FALSE]
  /\ nextId = [s \in Servers |-> 1]
  /\ asked = [s \in Servers |-> {}]
  /\ queue = [s \in Servers |-> <<>>]
  /\ call = NoCall_
  /\ calls \in 0 .. MaxCalls /\ answers \subseteq (1 .. MaxCalls) \X (1 .. MaxCalls)
  /\ OwnAnswer

LEMMA FreshKeeps == Fresh => McpInv
<1> SUFFICES ASSUME Fresh PROVE McpInv
  OBVIOUS
<1>1. McpTypeOK
  <2>1. NoCall_ \in Progress
    BY DEF NoCall_, Progress
  <2>2. queue \in [Servers -> Seq(Wire)] /\ asked \in [Servers -> SUBSET Request]
    BY DEF Fresh
  <2> QED BY <2>1, <2>2 DEF Fresh, McpTypeOK, Wire
<1>2. call.step = "none"
  BY DEF Fresh, NoCall_
<1>3. CallShape
  BY <1>2 DEF CallShape, Fresh
<1>4. \A s \in Servers : InFlight(s) = {}
  BY ElementsEmpty DEF InFlight, Fresh
<1>5. Numbered
  BY <1>2, <1>4 DEF Numbered
<1>6. Clients
  BY <1>2 DEF Clients, Fresh, Connecting
<1>7. Registered
  BY FS_EmptySet DEF Registered, Fresh
<1> QED BY <1>1, <1>3, <1>5, <1>6, <1>7 DEF McpInv, Fresh

\* A new process of the lead connects anew.
LEMMA McpForgetKeeps == McpInv /\ McpForget => McpInv'
<1>1. McpInv /\ McpForget => Fresh'
  BY DEF McpForget, McpInv, McpTypeOK, OwnAnswer, Fresh
<1>2. Fresh => McpInv
  BY FreshKeeps
<1> QED BY <1>1, <1>2, PTL

-----------------------------------------------------------------------------
(* The theorems. *)

LEMMA McpInvInductive == McpSpec => []McpInv
<1>1. McpInit => McpInv
  <2>1. McpInit => Fresh
    BY McpAssumption DEF McpInit, Fresh, OwnAnswer
  <2> QED BY <2>1, FreshKeeps
<1>2. McpInv /\ [McpNext]_mcpVars => McpInv'
  <2> SUFFICES ASSUME McpInv, [McpNext]_mcpVars PROVE McpInv'
    OBVIOUS
  <2>1. CASE BeginCall
    <3>1. CASE \E s \in Servers : Connect(s)
      BY <3>1, ConnectKeeps
    <3>2. CASE \E s \in Servers : AlreadyConnected(s)
      BY <3>2, AlreadyConnectedKeeps
    <3>3. CASE \E name \in NamesOf(registry) : CallTool(name)
      BY <3>3, CallToolKeeps
    <3> QED BY <2>1, <3>1, <3>2, <3>3 DEF BeginCall
  <2>2. CASE CallStep
    BY <2>2, ReadKeeps, GiveUpKeeps, ExchangeKeeps DEF CallStep
  <2>3. CASE ServerStep
    BY <2>3, ServerStepKeeps DEF ServerStep
  <2>4. CASE McpForget
    BY <2>4, McpForgetKeeps
  <2>5. CASE UNCHANGED mcpVars
    <3>1. alive' \in [Servers -> BOOLEAN] /\ asked' \in [Servers -> SUBSET Request]
          /\ queue' \in [Servers -> Seq(Wire)]
      BY <2>5 DEF mcpVars, McpInv, McpTypeOK, Wire
    <3>2. \A u \in Servers : InFlight(u)' \subseteq InFlight(u)
      BY <2>5 DEF mcpVars, InFlight
    <3> QED BY <2>5, <3>1, <3>2, ServerKeeps DEF mcpVars
  <2> QED BY <2>1, <2>2, <2>3, <2>4, <2>5 DEF McpNext
<1> QED BY <1>1, <1>2, PTL DEF McpSpec

\* Every variable has its type: the registry holds nothing but entries of a server
\* and a tool, and what is in a pipe or a queue are requests of some call.
THEOREM McpTypeCorrect == McpSpec => []McpTypeOK
BY McpInvInductive, PTL DEF McpInv

\* What a tool call returns is what its server answered to this very call: requests
\* of a client are numbered, and no message has the number of a later one.
THEOREM AnswersAreTheirCalls == McpSpec => []OwnAnswer
BY McpInvInductive, PTL DEF McpInv

\* Between two calls the servers with an open client are those with a recorded
\* connection, one for each name, no process is left over, and the registry has
\* exactly their tools, each under a name of its own.
THEOREM ServersConnectWholly == McpSpec => []ConnectsWholly
<1>1. McpInv => ConnectsWholly
  <2> SUFFICES ASSUME McpInv, call = NoCall_ PROVE ConnectsWholly
    BY DEF ConnectsWholly
  <2>1. Clients /\ Registered /\ ~Connecting
    BY DEF McpInv, Connecting, NoCall_
  <2>2. Cardinality(NamesOf(registry)) = Cardinality(registry)
    BY <2>1, AsManyNames DEF Registered
  <2> QED BY <2>1, <2>2 DEF ConnectsWholly, Clients, Registered, ToolsOf
<1> QED BY <1>1, McpInvInductive, PTL
=============================================================================
