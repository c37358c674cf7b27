------------------------------ MODULE TeamInbox ------------------------------
(***************************************************************************)
(* A team, its inboxes and the runners that consume them.  Each inbox is   *)
(* one file behind one lock, so every operation of the repository is a     *)
(* step of its own; a runner works through reserve, dispatch, the Run,     *)
(* report and acknowledge with other threads between any two of them, and  *)
(* any of them may raise.  A message's sequence number is its position.    *)
(*                                                                         *)
(* A member's Run may fail and leave its session with an active Run, which *)
(* refuses every later Run on it (AgentRun): that session is wedged, as is *)
(* one that add_teammate was given and that no Run can start on.           *)
(***************************************************************************)
EXTENDS Naturals, FiniteSets, Sequences

CONSTANTS
  Members,      \* teammates, each with a runner of its own
  Lead,         \* the lead, whose session the foreground shares
  Assignments,  \* assignment_ids
  Plains,       \* idempotency keys of plain messages
  Readers,      \* bound: who is sent plain messages
  MaxAhead,     \* bound: messages in the inbox a plain message is sent to
  Chores,       \* tasks on the board that wait for nobody
  None,         \* no member, no holder of the gate
  Other,        \* the foreground or the cron processor, as holder of the gate
  BatchSize,    \* batch_size of the runners
  MaxFaults,    \* bound on the file operations that raise
  MaxFails      \* bound on the Runs that raise

Owners == Members \cup {Lead}

ASSUME Distinct == Lead \notin Members /\ None \notin Owners /\ Other \notin Owners \cup {None}
ASSUME NoChore == None \notin Chores
ASSUME SomeReaders == Readers \subseteq Owners
ASSUME SomeBatch == BatchSize \in Nat \ {0}
ASSUME Bounds == MaxFaults \in Nat /\ MaxFails \in Nat /\ MaxAhead \in Nat

VARIABLES
  roster,    \* who has a file in the directory of the team
  hiring,    \* the step of the tool call that adds to it, and whom it adds
  inbox,     \* the messages in each member's file
  assigned,  \* the assignee in each assignment's file
  request,   \* the state of each member's shutdown request
  at,        \* where each runner is
  held,      \* messages of the reservation it has neither acknowledged nor released
  todo,      \* those it has still to dispatch
  agent,     \* those to be handed to the agent
  lost,      \* history: those whose release raised
  work,      \* status and owner in each chore's file
  doing,     \* the chore of each member's runner, and its Run
  untold,    \* history: chores whose verdict could not be reported
  runs,      \* Runs each member has finished
  wedged,    \* sessions that refuse every Run
  gate,      \* who holds the execution gate
  faults, fails

runners == <<at, held, todo, agent, lost>>
team == <<roster, hiring>>
repositories == <<inbox, assigned, request>>
sessions == <<runs, wedged, gate, fails>>
chores == <<work, doing, untold>>
vars == <<team, runners, repositories, chores, sessions, faults>>

Statuses == {"unread", "reserved", "consumed"}
ForAgent == {"plain", "assignment", "result", "verdict"}
Places == {"none", "poll", "dispatch", "stopping", "run", "report", "ack", "release",
           "leave", "stopped", "dead", "work", "verify"}

Idle == [task |-> None, run |-> 0]

-----------------------------------------------------------------------------
With(r, s) == {i \in DOMAIN inbox[r] : inbox[r][i].status = s}

\* The first n of a set of positions.
Oldest(S, n) == {i \in S : Cardinality({j \in S : j < i}) < n}

First(S) == CHOOSE i \in S : \A j \in S : i <= j

\* One file replaced with the status of some messages changed.
Marked(r, S, s) ==
  [inbox EXCEPT ![r] = [i \in DOMAIN @ |-> IF i \in S THEN [@[i] EXCEPT !.status = s]
                                                      ELSE @[i]]]

Holds(r, kind, of) ==
  \E i \in DOMAIN inbox[r] : inbox[r][i].kind = kind /\ inbox[r][i].of = of

\* send: a key that is there already is the same delivery again.
Sent(r, kind, of) ==
  IF Holds(r, kind, of) THEN inbox
  ELSE [inbox EXCEPT ![r] = Append(@, [kind |-> kind, of |-> of, status |-> "unread"])]

Fault == faults < MaxFaults /\ faults' = faults + 1

Goto(r, place) == at' = [at EXCEPT ![r] = place]

NotHiring == [step |-> "none", who |-> None]

Init ==
  /\ roster = {} /\ hiring = NotHiring
  /\ inbox = [r \in Owners |-> <<>>]
  /\ assigned = [a \in Assignments |-> None]
  /\ request = [m \in Members |-> "none"]
  /\ at = [r \in Owners |-> "none"]
  /\ held = [r \in Owners |-> {}]
  /\ todo = [r \in Owners |-> {}]
  /\ agent = [r \in Owners |-> {}]
  /\ lost = [r \in Owners |-> {}]
  /\ work = [t \in Chores |-> [status |-> "pending", owner |-> None]]
  /\ doing = [m \in Members |-> Idle]
  /\ untold = {}
  /\ runs = [m \in Members |-> 0]
  /\ wedged = [r \in Owners |-> FALSE]
  /\ gate = None
  /\ faults = 0 /\ fails = 0

-----------------------------------------------------------------------------
\* The team.  Its file comes before the lead's and each member's file before its
\* runner, and other threads may send to a member as soon as it has a file.

Hire(step, who) == hiring' = [step |-> step, who |-> who]

\* The file of the team says who leads it; until the lead has a file of its own
\* there is nobody to use it.
SaveTeam == Hire("enter", Lead)

SaveMember(r) == roster' = roster \cup {r}

\* What every operation asks of those it names: stopping changes no file.
Active(r) == r \in roster

\* create_team, the first file
CreateTeam ==
  /\ hiring = NotHiring /\ ~Active(Lead)
  /\ SaveTeam
  /\ UNCHANGED <<roster, runners, repositories, sessions, faults, chores>>

\* Its second file.  If that raises, what is left is a team without a lead, which
\* no tool can use: the call is made again for another team.
EnterLead ==
  /\ hiring = [step |-> "enter", who |-> Lead]
  /\ \/ SaveMember(Lead) /\ Hire("start", Lead) /\ UNCHANGED faults
     \/ Fault /\ hiring' = NotHiring /\ UNCHANGED roster
  /\ UNCHANGED <<runners, repositories, sessions, chores>>

\* add_teammate, by the lead, with any session that the model names: it may be
\* one that no Run can start on.
AddTeammate(m) ==
  /\ hiring = NotHiring /\ Active(Lead) /\ ~Active(m)
  /\ SaveMember(m)
  /\ Hire("start", m)
  /\ \E w \in BOOLEAN : wedged' = [wedged EXCEPT ![m] = w]
  /\ UNCHANGED <<runners, repositories, runs, gate, fails, faults, chores>>

\* start_lead and start_member: if the thread cannot be started, nobody tries
\* again.
StartRunner ==
  /\ hiring.step = "start"
  /\ hiring' = NotHiring
  /\ \/ at' = [at EXCEPT ![hiring.who] = "poll"] /\ UNCHANGED faults
     \/ Fault /\ at' = [at EXCEPT ![hiring.who] = "dead"]
  /\ UNCHANGED <<roster, held, todo, agent, lost, repositories, sessions, chores>>

-----------------------------------------------------------------------------
\* The tools of the lead and of the members: what is recorded first and the
\* message about it are two files, and a call cut off between them may be made
\* again with the same identifier.

\* send_message: each plain message goes to one recipient.
SendMessage(p, r) ==
  /\ Active(r)
  /\ \A o \in Owners : ~Holds(o, "plain", p)
  /\ Len(inbox[r]) <= MaxAhead
  /\ inbox' = Sent(r, "plain", p)
  /\ UNCHANGED <<team, runners, assigned, request, sessions, faults, chores>>

\* add: each assignment is a file of its own, written once.
AddAssignment(a, m) == assigned' = [assigned EXCEPT ![a] = m]

AssignWork(a, m) ==
  /\ Active(m) /\ assigned[a] = None
  /\ AddAssignment(a, m)
  /\ UNCHANGED <<team, runners, inbox, request, sessions, faults, chores>>

SendAssignment(a) ==
  /\ assigned[a] # None
  /\ inbox' = Sent(assigned[a], "assignment", a)
  /\ UNCHANGED <<team, runners, assigned, request, sessions, faults, chores>>

\* The state of a protocol request is one file, replaced as a whole.
SaveProtocol(m, state) == request' = [request EXCEPT ![m] = state]

RequestShutdown(m) ==
  /\ Active(m) /\ request[m] = "none"
  /\ SaveProtocol(m, "pending")
  /\ UNCHANGED <<team, runners, inbox, assigned, sessions, faults, chores>>

SendShutdown(m) ==
  /\ request[m] # "none"
  /\ inbox' = Sent(m, "shutdown", m)
  /\ UNCHANGED <<team, runners, assigned, request, sessions, faults, chores>>

-----------------------------------------------------------------------------
\* process_once reserves the oldest unread messages.
Reserve(r) ==
  /\ at[r] = "poll"
  /\ With(r, "unread") # {}
  /\ LET batch == Oldest(With(r, "unread"), BatchSize) IN
       /\ inbox' = Marked(r, batch, "reserved")
       /\ held' = [held EXCEPT ![r] = batch]
       /\ todo' = [todo EXCEPT ![r] = batch]
  /\ agent' = [agent EXCEPT ![r] = {}]
  /\ Goto(r, "dispatch")
  /\ UNCHANGED <<team, lost, assigned, request, sessions, faults, chores>>

\* An exception of reserve_unread is caught nowhere: the runner's thread ends.
ReserveFails(r) ==
  /\ at[r] = "poll"
  /\ Fault
  /\ Goto(r, "dead")
  /\ UNCHANGED <<team, held, todo, agent, lost, repositories, sessions, chores>>

\* match_response: the member has confirmed; no response refuses.
Resolve(m) == SaveProtocol(m, "approved")

\* route dispatches the batch in order.  A shutdown request is answered and ends
\* the batch; a response resolves the lead's request.
Dispatch(r) ==
  /\ at[r] = "dispatch" /\ todo[r] # {}
  /\ LET i == First(todo[r])
         message == inbox[r][i] IN
       /\ todo' = [todo EXCEPT ![r] = @ \ {i}]
       /\ \/ /\ message.kind \in ForAgent
             /\ agent' = [agent EXCEPT ![r] = @ \cup {i}]
             /\ UNCHANGED <<at, inbox, request>>
          \/ /\ message.kind = "shutdown"
             /\ inbox' = Sent(Lead, "response", r)
             /\ Goto(r, "stopping")
             /\ UNCHANGED <<agent, request>>
          \/ /\ message.kind = "response"
             /\ Resolve(message.of)
             /\ UNCHANGED <<at, agent, inbox>>
  /\ UNCHANGED <<team, held, lost, assigned, sessions, faults, chores>>

\* The protocol's files are not written.
DispatchFails(r) ==
  /\ at[r] = "dispatch" /\ todo[r] # {}
  /\ inbox[r][First(todo[r])].kind \notin ForAgent
  /\ Fault
  /\ Goto(r, "release")
  /\ UNCHANGED <<team, held, todo, agent, lost, repositories, sessions, chores>>

\* Dispatched, and not for the agent.
System(r) == held[r] \ (agent[r] \cup todo[r])

Dispatched(r) == at[r] = "stopping" \/ (at[r] = "dispatch" /\ todo[r] = {})

\* _acknowledge_protocol_message, one message after the other
AcknowledgeSystem(r) ==
  /\ Dispatched(r) /\ System(r) # {}
  /\ LET i == First(System(r)) IN
       /\ inbox' = Marked(r, {i}, "consumed")
       /\ held' = [held EXCEPT ![r] = @ \ {i}]
  /\ UNCHANGED <<team, at, todo, agent, lost, assigned, request, sessions, faults, chores>>

AcknowledgeSystemFails(r) ==
  /\ Dispatched(r) /\ System(r) # {}
  /\ Fault
  /\ Goto(r, "release")
  /\ UNCHANGED <<team, held, todo, agent, lost, repositories, sessions, chores>>

\* Mutant: a member that stops works through the earlier messages first.
SettleFinishing(r) ==
  /\ Dispatched(r) /\ System(r) = {}
  /\ \/ at[r] = "stopping" /\ agent[r] = {} /\ Goto(r, "leave") /\ UNCHANGED gate
     \/ at[r] = "dispatch" /\ agent[r] = {} /\ Goto(r, "poll") /\ UNCHANGED gate
     \/ /\ agent[r] # {}
        /\ IF r = Lead /\ gate # None
           THEN Goto(r, "release") /\ UNCHANGED gate
           ELSE Goto(r, "run") /\ gate' = IF r = Lead THEN Lead ELSE gate
  /\ UNCHANGED <<team, held, todo, agent, lost, repositories, runs, wedged, fails, faults, chores>>

\* Mutant: members take the gate for granted as the lead does.
SettleUngated(r) ==
  /\ Dispatched(r) /\ System(r) = {}
  /\ \/ at[r] = "stopping" /\ Goto(r, "leave") /\ UNCHANGED gate
     \/ at[r] = "dispatch" /\ agent[r] = {} /\ Goto(r, "poll") /\ UNCHANGED gate
     \/ at[r] = "dispatch" /\ agent[r] # {} /\ Goto(r, "run") /\ gate' = r
  /\ UNCHANGED <<team, held, todo, agent, lost, repositories, runs, wedged, fails, faults, chores>>

\* A member that stops releases what is left; otherwise the agent gets its
\* messages, for the lead only if the gate is free at once.
Settle(r) ==
  /\ Dispatched(r) /\ System(r) = {}
  /\ \/ at[r] = "stopping" /\ Goto(r, "leave") /\ UNCHANGED gate
     \/ at[r] = "dispatch" /\ agent[r] = {} /\ Goto(r, "poll") /\ UNCHANGED gate
     \/ /\ at[r] = "dispatch" /\ agent[r] # {}
        /\ IF r = Lead /\ gate # None
           THEN Goto(r, "release") /\ UNCHANGED gate
           ELSE Goto(r, "run") /\ gate' = IF r = Lead THEN Lead ELSE gate
  /\ UNCHANGED <<team, held, todo, agent, lost, repositories, runs, wedged, fails, faults, chores>>

-----------------------------------------------------------------------------
\* The gate goes back when the lead is through with its Run.
GateLeft(r) == gate' = IF r = Lead /\ gate = Lead THEN None ELSE gate

\* The Run of the batch.
Run(r) ==
  /\ at[r] = "run"
  /\ ~wedged[r]
  /\ IF r = Lead THEN Goto(r, "ack") /\ UNCHANGED runs
                 ELSE Goto(r, "report") /\ runs' = [runs EXCEPT ![r] = @ + 1]
  /\ UNCHANGED <<team, held, todo, agent, lost, repositories, wedged, gate, fails, faults, chores>>

\* Mutant: the batch of a Run that raises is not released.
RunFailsKept(r) ==
  /\ at[r] = "run"
  /\ fails < MaxFails
  /\ fails' = fails + 1
  /\ Goto(r, "poll")
  /\ GateLeft(r)
  /\ UNCHANGED <<team, held, todo, agent, lost, repositories, runs, wedged, faults, chores>>

\* It raises: on a wedged session always, else once in a while, and then the
\* session may be left wedged or, where its turns are exhausted, free.
RunFails(r) ==
  /\ at[r] = "run"
  /\ \/ wedged[r] /\ UNCHANGED <<wedged, fails>>
     \/ /\ ~wedged[r] /\ fails < MaxFails
        /\ fails' = fails + 1
        /\ \E w \in BOOLEAN : wedged' = [wedged EXCEPT ![r] = w]
  /\ Goto(r, "release")
  /\ UNCHANGED <<team, held, todo, agent, lost, repositories, runs, gate, faults, chores>>

Sources(m) == {inbox[m][i].of : i \in {j \in agent[m] : inbox[m][j].kind = "assignment"}}

\* report: one RESULT for the assignments of the batch, none for plain messages
Report(m) ==
  /\ at[m] = "report"
  /\ inbox' = IF Sources(m) = {} THEN inbox
              ELSE Sent(Lead, "result", [by |-> m, run |-> runs[m], for |-> Sources(m)])
  /\ Goto(m, "ack")
  /\ UNCHANGED <<team, held, todo, agent, lost, assigned, request, sessions, faults, chores>>

\* Mutant: the assignment is acknowledged although its report has failed.
ReportFailsIgnored(m) ==
  /\ at[m] = "report" /\ Sources(m) # {}
  /\ Fault
  /\ Goto(m, "ack")
  /\ UNCHANGED <<team, held, todo, agent, lost, repositories, sessions, chores>>

ReportFails(m) ==
  /\ at[m] = "report" /\ Sources(m) # {}
  /\ Fault
  /\ Goto(m, "release")
  /\ UNCHANGED <<team, held, todo, agent, lost, repositories, sessions, chores>>

Acknowledge(r) ==
  /\ at[r] = "ack"
  /\ inbox' = Marked(r, agent[r], "consumed")
  /\ held' = [held EXCEPT ![r] = {}]
  /\ agent' = [agent EXCEPT ![r] = {}]
  /\ Goto(r, "poll")
  /\ GateLeft(r)
  /\ UNCHANGED <<team, todo, lost, assigned, request, runs, wedged, fails, faults, chores>>

AcknowledgeFails(r) ==
  /\ at[r] = "ack"
  /\ Fault
  /\ Goto(r, "release")
  /\ UNCHANGED <<team, held, todo, agent, lost, repositories, sessions, chores>>

\* _release_after_failure, and what a member leaves behind when it stops.
Released(r) ==
  /\ at[r] \in {"release", "leave"}
  /\ held' = [held EXCEPT ![r] = {}]
  /\ Goto(r, IF at[r] = "leave" THEN "stopped" ELSE "poll")
  /\ todo' = [todo EXCEPT ![r] = {}]
  /\ agent' = [agent EXCEPT ![r] = {}]
  /\ GateLeft(r)
  /\ UNCHANGED <<team, assigned, request, runs, wedged, fails, chores>>

Release(r) ==
  /\ Released(r)
  /\ inbox' = Marked(r, held[r], "unread")
  /\ UNCHANGED <<team, lost, faults>>

\* The exception of a release is logged: the messages stay reserved.
ReleaseFails(r) ==
  /\ held[r] # {}
  /\ Released(r)
  /\ Fault
  /\ lost' = [lost EXCEPT ![r] = @ \cup held[r]]
  /\ UNCHANGED inbox

-----------------------------------------------------------------------------
\* Work of its own: a member whose inbox is empty takes a task from the board.
\* Looking at the inbox and claiming are one step, and so are reading the task
\* again and sending the verdict: the one does not depend on what others can do
\* to the other in between.

\* claim_next_work; its exceptions are logged, and the next poll tries again.
ClaimWork(m) ==
  /\ at[m] = "poll"
  /\ With(m, "unread") = {}
  /\ \E t \in Chores :
       /\ work[t].status = "pending"
       /\ work' = [work EXCEPT ![t] = [status |-> "in_progress", owner |-> m]]
       /\ doing' = [doing EXCEPT ![m] = [task |-> t, run |-> 0]]
  /\ Goto(m, "work")
  /\ UNCHANGED <<team, held, todo, agent, lost, repositories, sessions, faults, untold>>

\* The Run of the chore ends, or raises as the Run of a batch does.
DoWork(m) ==
  /\ at[m] = "work"
  /\ ~wedged[m]
  /\ runs' = [runs EXCEPT ![m] = @ + 1]
  /\ doing' = [doing EXCEPT ![m].run = runs[m] + 1]
  /\ Goto(m, "verify")
  /\ UNCHANGED <<team, held, todo, agent, lost, repositories, wedged, gate, fails, faults,
                 work, untold>>

DoWorkFails(m) ==
  /\ at[m] = "work"
  /\ \/ wedged[m] /\ UNCHANGED <<wedged, fails>>
     \/ /\ ~wedged[m] /\ fails < MaxFails
        /\ fails' = fails + 1
        /\ \E w \in BOOLEAN : wedged' = [wedged EXCEPT ![m] = w]
  /\ Goto(m, "verify")
  /\ UNCHANGED <<team, held, todo, agent, lost, repositories, runs, gate, faults, chores>>

\* Mutant: a Run that ended is taken for a task that is done.
VerifiedByRun(m) == doing[m].run # 0

\* The board's word counts, not the model's.
Verified(m) ==
  /\ doing[m].run # 0
  /\ work[doing[m].task] = [status |-> "completed", owner |-> m]

Tell(m) ==
  /\ at[m] = "verify"
  /\ inbox' = Sent(Lead, "verdict", [by |-> m, task |-> doing[m].task,
                                     run |-> doing[m].run, completed |-> Verified(m)])
  /\ doing' = [doing EXCEPT ![m] = Idle]
  /\ Goto(m, "poll")
  /\ UNCHANGED <<team, held, todo, agent, lost, assigned, request, sessions, faults, work,
                 untold>>

\* An exception of the check or of the report is logged, and that is all.
TellFails(m) ==
  /\ at[m] = "verify"
  /\ Fault
  /\ untold' = untold \cup {doing[m].task}
  /\ doing' = [doing EXCEPT ![m] = Idle]
  /\ Goto(m, "poll")
  /\ UNCHANGED <<team, held, todo, agent, lost, repositories, sessions, work>>

\* task_complete, called by any agent: it does not ask who the owner is.  A chore
\* others claim is theirs from then on (TaskBoard has the race for it).
CompleteWork(t) ==
  /\ work[t].status = "in_progress"
  /\ work' = [work EXCEPT ![t].status = "completed"]
  /\ UNCHANGED <<team, runners, repositories, sessions, faults, doing, untold>>

-----------------------------------------------------------------------------
\* The foreground and the cron processor run on the lead's session.
OtherRun ==
  /\ gate = None
  /\ gate' = Other
  /\ UNCHANGED <<team, runners, repositories, runs, wedged, fails, faults, chores>>

OtherEnd ==
  /\ gate = Other
  /\ gate' = None
  /\ \/ UNCHANGED <<wedged, fails>>
     \/ /\ fails < MaxFails /\ fails' = fails + 1
        /\ wedged' = [wedged EXCEPT ![Lead] = TRUE]
  /\ UNCHANGED <<team, runners, repositories, runs, faults, chores>>

Step(r) ==
  \/ Reserve(r) \/ ReserveFails(r) \/ Dispatch(r) \/ DispatchFails(r)
  \/ AcknowledgeSystem(r) \/ AcknowledgeSystemFails(r) \/ Settle(r)
  \/ Run(r) \/ RunFails(r) \/ Acknowledge(r) \/ AcknowledgeFails(r)
  \/ Release(r) \/ ReleaseFails(r)

WorkStep(m) ==
  ClaimWork(m) \/ DoWork(m) \/ DoWorkFails(m) \/ Tell(m) \/ TellFails(m)

MemberStep(m) == Step(m) \/ Report(m) \/ ReportFails(m) \/ WorkStep(m)

Hiring == CreateTeam \/ EnterLead \/ StartRunner \/ \E m \in Members : AddTeammate(m)

Tool ==
  \/ \E p \in Plains, r \in Readers : SendMessage(p, r)
  \/ \E a \in Assignments : (\E m \in Members : AssignWork(a, m)) \/ SendAssignment(a)
  \/ \E m \in Members : RequestShutdown(m) \/ SendShutdown(m)
  \/ \E t \in Chores : CompleteWork(t)

Next ==
  \/ \E m \in Members : MemberStep(m)
  \/ Step(Lead)
  \/ Hiring \/ Tool
  \/ OtherRun \/ OtherEnd

Spec == Init /\ [][Next]_vars

\* A runner's thread polls again after every wait, and every call of its own, and
\* of the tool that starts it, returns or raises.
FairSpec ==
  Spec /\ WF_vars(StartRunner) /\ \A m \in Members : WF_vars(MemberStep(m))

-----------------------------------------------------------------------------
Results == [by : Members, run : Nat, for : SUBSET Assignments]

Verdicts == [by : Members, task : Chores, run : Nat, completed : BOOLEAN]

Messages ==
  [kind : {"plain"}, of : Plains, status : Statuses]
    \cup [kind : {"assignment"}, of : Assignments, status : Statuses]
    \cup [kind : {"shutdown", "response"}, of : Members, status : Statuses]
    \cup [kind : {"result"}, of : Results, status : Statuses]
    \cup [kind : {"verdict"}, of : Verdicts, status : Statuses]

\* Every variable has the shape its code gives it; only the lead's thread and
\* the ones that share its session ever hold the gate.
TypeOK ==
  /\ roster \subseteq Owners
  /\ hiring \in [step : {"none", "enter", "start"}, who : Owners \cup {None}]
  /\ inbox \in [Owners -> Seq(Messages)]
  /\ assigned \in [Assignments -> Members \cup {None}]
  /\ request \in [Members -> {"none", "pending", "approved"}]
  /\ at \in [Owners -> Places]
  /\ \A f \in {held, todo, agent, lost} : f \in [Owners -> SUBSET Nat]
  /\ work \in [Chores -> [status : {"pending", "in_progress", "completed"},
                           owner : Owners \cup {None}]]
  /\ doing \in [Members -> [task : Chores \cup {None}, run : Nat]]
  /\ untold \subseteq Chores
  /\ runs \in [Members -> Nat]
  /\ wedged \in [Owners -> BOOLEAN]
  /\ gate \in {None, Lead, Other}
  /\ faults \in 0 .. MaxFaults /\ fails \in 0 .. MaxFails

\* An assignment is acknowledged only once its result is in the lead's inbox.
ConsumedHasResult ==
  \A m \in Members : \A i \in With(m, "consumed") :
    inbox[m][i].kind = "assignment" =>
      \E j \in DOMAIN inbox[Lead] :
        /\ inbox[Lead][j].kind = "result"
        /\ inbox[Lead][j].of.by = m
        /\ inbox[m][i].of \in inbox[Lead][j].of.for

\* A member that has confirmed its stop starts no Run, neither of a batch nor of a
\* chore it takes for itself (teams/runner.py:209), even when what follows the
\* confirmation fails, unless the request itself was lost.
ConfirmedStopHolds ==
  \A m \in Members :
    at[m] \in {"run", "report", "ack", "work", "verify"} /\ Holds(Lead, "response", m) =>
      \E i \in lost[m] : inbox[m][i].kind = "shutdown"

VerdictsOn(t) == {i \in DOMAIN inbox[Lead] :
                    inbox[Lead][i].kind = "verdict" /\ inbox[Lead][i].of.task = t}

\* Every task a member took for itself is accounted for: its runner is at it,
\* the lead has been sent one verdict on it, or its check or report raised; and
\* a verdict that says completed is about a task its sender owns and the board
\* has as completed, whatever the Run said.
WorkAccounted ==
  \A t \in Chores :
    /\ work[t].owner \in Members =>
         Cardinality(VerdictsOn(t)) + (IF doing[work[t].owner].task = t THEN 1 ELSE 0)
           + (IF t \in untold THEN 1 ELSE 0) = 1
    /\ \A i \in VerdictsOn(t) :
         LET verdict == inbox[Lead][i].of IN
         /\ work[t].owner = verdict.by
         /\ verdict.completed => work[t].status = "completed" /\ verdict.run # 0

Has(m, a, S) == \E i \in S : inbox[m][i].kind = "assignment" /\ inbox[m][i].of = a

Ended(m) == at[m] \in {"stopped", "dead"}

\* An assignment is consumed in the end, whichever calls on the way raise, unless
\* its runner has ended, its session is wedged or its release has raised.
AssignmentHandled ==
  \A m \in Members, a \in Assignments :
    Holds(m, "assignment", a) ~>
      Has(m, a, With(m, "consumed")) \/ Has(m, a, lost[m]) \/ Ended(m) \/ wedged[m]

\* What release promises: the input of a failed Run is delivered again, so that a
\* member whose session takes Runs when the input comes, and whose runner goes on,
\* consumes it in the end.
RedeliveryWorks ==
  \A m \in Members, a \in Assignments :
    Holds(m, "assignment", a) /\ ~wedged[m] ~> Has(m, a, With(m, "consumed")) \/ Ended(m)
=============================================================================
