--------------------------- MODULE WorktreesProofs ---------------------------
(***************************************************************************)
(* Proofs about the worktrees, for any names, tasks, members and callers   *)
(* and however often commands fail and the process crashes.                *)
(*                                                                         *)
(* TypeInv adds to the types what kind of operation each step belongs to.  *)
(* InPlace: the registry, the checked directory and a command in the       *)
(* background have the worktree of the work item.  CommitsHaveBranch: a    *)
(* branch that is gone takes its commits along.  JournalInv: what an        *)
(* operation leaves as the journal has it, and what an operation alone on  *)
(* its name has made of Git, whether the journal was right before or not.  *)
(***************************************************************************)
EXTENDS Worktrees, TLAPS, SequenceTheorems

-----------------------------------------------------------------------------
(* Types, by the store the variables belong to. *)

GitOK ==
  /\ place \in [Names -> Places]
  /\ branch \in [Names -> BOOLEAN]
  /\ edits \in [Names -> BOOLEAN]
  /\ commits \in [Names -> {"none", "local", "pushed"}]

TaskOK == binding \in [Tasks -> Names \cup {NoName}] /\ claimed \subseteq Tasks

LogOK == journal \in Seq(Events) /\ torn \in BOOLEAN

MemberOK ==
  /\ item \in [Members -> [task: Tasks \cup {NoTask}, worktree: Directories]]
  /\ at \in [Members -> {"idle", "claimed", "running", "writing"}]
  /\ directory \in [Members -> Directories \cup {NoDirectory}]
  /\ cwd \in [Members -> Directories]
  /\ background \subseteq [worktree: Directories, cwd: Directories]
  /\ astray \subseteq Directories \X Directories

OpOK ==
  /\ op \in [Callers -> OperationStates]
  /\ half \subseteq Names
  /\ crossed \subseteq Callers
  /\ faults \in 0 .. MaxFaults

\* What an operation is about is known as long as it is in progress.
OpShape ==
  \A c \in Callers :
    \/ op[c] = Idle
    \/ /\ op[c].kind \in Kinds /\ op[c].call \in CallIds /\ op[c].name \in Names
       /\ op[c].kind = "create" => op[c].step \in {"add", "bind", "append"}
       /\ op[c].kind = "remove" =>
            op[c].step \in {"inspect", "detach", "unbranch", "append"}
       /\ op[c].kind = "keep" => op[c].step \in {"confirm", "append"}
       /\ op[c].step = "bind" => op[c].task # NoTask

TypeInv == GitOK /\ TaskOK /\ LogOK /\ MemberOK /\ OpOK /\ OpShape

LEMMA TypeInvIsType == TypeInv => WorktreeTypeOK
BY DEF TypeInv, WorktreeTypeOK, GitOK, TaskOK, LogOK, MemberOK, OpOK

LEMMA GitSame == GitOK /\ UNCHANGED gitVars => GitOK'
BY DEF GitOK, gitVars

LEMMA TaskSame == TaskOK /\ UNCHANGED taskVars => TaskOK'
BY DEF TaskOK, taskVars

LEMMA LogSame == LogOK /\ UNCHANGED logVars => LogOK'
BY DEF LogOK, logVars

LEMMA MemberSame == MemberOK /\ UNCHANGED memberVars => MemberOK'
BY DEF MemberOK, memberVars

LEMMA OpSame ==
  OpOK /\ OpShape /\ UNCHANGED <<op, half, crossed, faults>> => OpOK' /\ OpShape'
BY DEF OpOK, OpShape

-----------------------------------------------------------------------------
(* The operations. *)

LEMMA FaultCounted ==
  ASSUME OpOK, Fault \/ UNCHANGED faults
  PROVE  faults' \in 0 .. MaxFaults
BY WorktreeAssumption DEF OpOK, Fault

LEMMA IdleState == Idle \in OperationStates
BY DEF Idle, OperationStates

LEMMA ContinueOp ==
  ASSUME OpOK, NEW c \in Callers, NEW s, Continue(c, s),
         s \in {"bind", "detach", "unbranch", "append"}
  PROVE  /\ op' \in [Callers -> OperationStates]
         /\ \A d \in Callers \ {c} : op'[d] = op[d]
         /\ op'[c].kind = op[c].kind /\ op'[c].call = op[c].call
         /\ op'[c].name = op[c].name /\ op'[c].task = op[c].task
         /\ op'[c].discard = op[c].discard /\ op'[c].step = s
<1>1. op[c] \in OperationStates
  BY DEF OpOK
<1> DEFINE next == [op[c] EXCEPT !.step = s]
<1>2. /\ next \in OperationStates /\ next.step = s
      /\ next.kind = op[c].kind /\ next.call = op[c].call /\ next.name = op[c].name
      /\ next.task = op[c].task /\ next.discard = op[c].discard
  BY <1>1 DEF OperationStates
<1>3. op' = [op EXCEPT ![c] = next]
  BY DEF Continue
<1> HIDE DEF next
<1> QED BY <1>2, <1>3 DEF OpOK

LEMMA RaiseOp ==
  ASSUME OpOK, NEW c \in Callers, op' = [op EXCEPT ![c] = Idle]
  PROVE  /\ op' \in [Callers -> OperationStates] /\ op'[c] = Idle
         /\ \A d \in Callers \ {c} : op'[d] = op[d]
<1> HIDE DEF Idle
<1> QED BY IdleState DEF OpOK

\* An operation ends, or goes on to a step its kind has.
LEMMA OpTypes ==
  ASSUME OpOK, OpShape, NEW c \in Callers, op[c] # Idle, Fault \/ UNCHANGED faults,
         NEW s \in {"bind", "detach", "unbranch", "append"}, NEW started,
         \/ Raise(c, started)
         \/ /\ op' = [op EXCEPT ![c] = Idle]
            /\ half' \subseteq half /\ crossed' \subseteq crossed
         \/ /\ Continue(c, s)
            /\ s = "bind" => op[c].kind = "create" /\ op[c].task # NoTask
            /\ s \in {"detach", "unbranch"} => op[c].kind = "remove"
  PROVE  OpOK' /\ OpShape'
<1>1. faults' \in 0 .. MaxFaults
  BY FaultCounted
<1>2. op[c].kind \in Kinds /\ op[c].name \in Names
  BY DEF OpShape
<1>3. half' \subseteq Names /\ crossed' \subseteq Callers
  BY <1>2 DEF Raise, Continue, OpOK
<1>4. CASE op' = [op EXCEPT ![c] = Idle]
  <2>1. /\ op' \in [Callers -> OperationStates] /\ op'[c] = Idle
        /\ \A d \in Callers \ {c} : op'[d] = op[d]
    BY <1>4, RaiseOp
  <2> QED BY <1>1, <1>3, <2>1 DEF OpOK, OpShape
<1>5. CASE /\ Continue(c, s)
           /\ s = "bind" => op[c].kind = "create" /\ op[c].task # NoTask
           /\ s \in {"detach", "unbranch"} => op[c].kind = "remove"
  <2>1. /\ op' \in [Callers -> OperationStates]
        /\ \A d \in Callers \ {c} : op'[d] = op[d]
        /\ op'[c].kind = op[c].kind /\ op'[c].call = op[c].call
        /\ op'[c].name = op[c].name /\ op'[c].task = op[c].task /\ op'[c].step = s
    BY <1>5, ContinueOp
  <2>2. OpShape'
    BY <1>2, <1>5, <2>1 DEF OpShape, Kinds
  <2> QED BY <1>1, <1>3, <2>1, <2>2 DEF OpOK
<1> QED BY <1>4, <1>5 DEF Raise

LEMMA BeginTypes ==
  ASSUME TypeInv, NEW c \in Callers, NEW kind \in Kinds, NEW call \in CallIds,
         NEW n \in Names, NEW t \in Tasks \cup {NoTask}, NEW discard \in BOOLEAN, NEW s,
         \/ kind = "create" /\ s = "add"
         \/ kind = "remove" /\ s \in {"detach", "inspect"}
         \/ kind = "keep" /\ s = "confirm",
         Begin(c, kind, call, n, t, discard, s)
  PROVE  /\ TypeInv'
         /\ op'[c] = [kind |-> kind, call |-> call, name |-> n, task |-> t,
                      discard |-> discard, step |-> s]
         /\ \A d \in Callers \ {c} : op'[d] = op[d]
<1> DEFINE begun == [kind |-> kind, call |-> call, name |-> n, task |-> t,
                     discard |-> discard, step |-> s]
<1>1. begun \in OperationStates
  BY DEF OperationStates
<1>2. op' = [op EXCEPT ![c] = begun] /\ op[c] = Idle
  BY DEF Begin, Free
<1>3. /\ op' \in [Callers -> OperationStates] /\ op'[c] = begun
      /\ \A d \in Callers \ {c} : op'[d] = op[d]
  <2> HIDE DEF begun
  <2> QED BY <1>1, <1>2 DEF TypeInv, OpOK
<1>4. OpOK'
  <2>1. half' \subseteq Names /\ crossed' \subseteq Callers /\ faults' = faults
    BY DEF Begin, TypeInv, OpOK
  <2> QED BY <1>3, <2>1 DEF TypeInv, OpOK
<1>5. OpShape'
  BY <1>3 DEF TypeInv, OpShape
<1>6. GitOK' /\ TaskOK' /\ LogOK' /\ MemberOK'
  BY GitSame, TaskSame, LogSame, MemberSame DEF TypeInv, Begin
<1> QED BY <1>3, <1>4, <1>5, <1>6 DEF TypeInv

\* The cases of an operation's step.
LEMMA AddTypes ==
  ASSUME TypeInv, NEW c \in Callers, Add(c)
  PROVE  TypeInv'
<1> DEFINE n == op[c].name
<1>1. GitOK /\ OpOK /\ OpShape /\ op[c].step = "add" /\ op[c] # Idle
  BY DEF TypeInv, Add, Idle
<1>2. n \in Names /\ op[c].kind = "create"
  BY <1>1 DEF OpShape, Kinds
<1>3. UNCHANGED <<edits, taskVars, logVars, memberVars>>
  BY DEF Add
<1>4. TaskOK' /\ LogOK' /\ MemberOK'
  BY <1>3, TaskSame, LogSame, MemberSame DEF TypeInv
<1>5. GitOK'
  <2>1. place' \in [Names -> Places]
    <3>1. \/ UNCHANGED place
          \/ \E p \in Places : place' = [place EXCEPT ![n] = p]
      BY <1>1, <1>2 DEF Add, GitOK, Places
    <3> QED BY <1>1, <3>1 DEF GitOK
  <2>2. branch' \in [Names -> BOOLEAN]
    BY <1>1 DEF Add, GitOK
  <2>3. commits' \in [Names -> {"none", "local", "pushed"}]
    BY <1>1 DEF Add, GitOK
  <2> QED BY <1>1, <1>3, <2>1, <2>2, <2>3 DEF GitOK
<1>6. OpOK' /\ OpShape'
  <2>1. CASE Continue(c, IF op[c].task # NoTask THEN "bind" ELSE "append")
             /\ UNCHANGED faults
    <3>1. CASE op[c].task # NoTask
      BY <1>1, <1>2, <2>1, <3>1, OpTypes
    <3>2. CASE op[c].task = NoTask
      BY <1>1, <1>2, <2>1, <3>2, OpTypes
    <3> QED BY <3>1, <3>2
  <2>2. CASE Raise(c, FALSE) /\ UNCHANGED faults
    BY <1>1, <2>2, OpTypes
  <2>3. ASSUME NEW branched \in BOOLEAN, Raise(c, branched), Fault
        PROVE  OpOK' /\ OpShape'
    BY <1>1, <2>3, OpTypes
  <2> QED BY <2>1, <2>2, <2>3 DEF Add
<1> QED BY <1>4, <1>5, <1>6 DEF TypeInv

LEMMA BindTypes ==
  ASSUME TypeInv, NEW c \in Callers, Bind(c)
  PROVE  TypeInv'
<1>1. TaskOK /\ OpOK /\ OpShape /\ op[c].step = "bind" /\ op[c] # Idle
  BY DEF TypeInv, Bind, Idle
<1>2. op[c].name \in Names
  BY <1>1 DEF OpShape
<1>3. UNCHANGED <<gitVars, claimed, logVars, memberVars>>
  BY DEF Bind
<1>4. GitOK' /\ LogOK' /\ MemberOK'
  BY <1>3, GitSame, LogSame, MemberSame DEF TypeInv
<1>5. TaskOK'
  BY <1>1, <1>2, <1>3 DEF Bind, TaskOK
<1>6. OpOK' /\ OpShape'
  <2>1. CASE Continue(c, "append") /\ UNCHANGED faults
    BY <1>1, <2>1, OpTypes
  <2>2. CASE Raise(c, TRUE) /\ (Fault \/ UNCHANGED faults)
    BY <1>1, <2>2, OpTypes
  <2> QED BY <2>1, <2>2 DEF Bind
<1> QED BY <1>4, <1>5, <1>6 DEF TypeInv

LEMMA LookTypes ==
  ASSUME TypeInv, NEW c \in Callers, Inspect(c) \/ Confirm(c)
  PROVE  TypeInv'
<1>1. OpOK /\ OpShape /\ op[c].step \in {"inspect", "confirm"} /\ op[c] # Idle
  <2>1. op[c].step \in {"inspect", "confirm"}
    BY DEF Inspect, Confirm
  <2> QED BY <2>1 DEF TypeInv, Idle
<1>2. op[c].step = "inspect" => op[c].kind = "remove"
  BY <1>1 DEF OpShape, Kinds
<1>3. UNCHANGED <<gitVars, taskVars, logVars, memberVars>>
  BY DEF Inspect, Confirm
<1>4. GitOK' /\ TaskOK' /\ LogOK' /\ MemberOK'
  BY <1>3, GitSame, TaskSame, LogSame, MemberSame DEF TypeInv
<1>5. OpOK' /\ OpShape'
  <2>1. CASE Continue(c, "detach") /\ UNCHANGED faults /\ op[c].step = "inspect"
    BY <1>1, <1>2, <2>1, OpTypes
  <2>2. CASE Continue(c, "append") /\ UNCHANGED faults
    BY <1>1, <2>2, OpTypes
  <2>3. CASE Raise(c, FALSE) /\ (Fault \/ UNCHANGED faults)
    BY <1>1, <2>3, OpTypes
  <2> QED BY <2>1, <2>2, <2>3 DEF Inspect, Confirm
<1> QED BY <1>4, <1>5 DEF TypeInv

LEMMA RemoveTypes ==
  ASSUME TypeInv, NEW c \in Callers, Detach(c) \/ Unbranch(c)
  PROVE  TypeInv'
<1>1. GitOK /\ OpOK /\ OpShape /\ op[c].step \in {"detach", "unbranch"} /\ op[c] # Idle
  <2>1. op[c].step \in {"detach", "unbranch"}
    BY DEF Detach, Unbranch
  <2> QED BY <2>1 DEF TypeInv, Idle
<1>2. op[c].kind = "remove" /\ op[c].name \in Names
  BY <1>1 DEF OpShape, Kinds
<1>3. UNCHANGED <<taskVars, logVars, memberVars>>
  BY DEF Detach, Unbranch
<1>4. TaskOK' /\ LogOK' /\ MemberOK'
  BY <1>3, TaskSame, LogSame, MemberSame DEF TypeInv
<1>5. GitOK'
  <2>1. place' \in [Names -> Places] /\ edits' \in [Names -> BOOLEAN]
    BY <1>1 DEF Detach, Unbranch, GitOK, Places
  <2>2. branch' \in [Names -> BOOLEAN] /\ commits' \in [Names -> {"none", "local", "pushed"}]
    BY <1>1 DEF Detach, Unbranch, GitOK
  <2> QED BY <2>1, <2>2 DEF GitOK
<1>6. OpOK' /\ OpShape'
  <2>1. CASE Continue(c, "unbranch") /\ UNCHANGED faults
    BY <1>1, <1>2, <2>1, OpTypes
  <2>2. CASE Continue(c, "append") /\ UNCHANGED faults
    BY <1>1, <2>2, OpTypes
  <2>3. CASE Raise(c, FALSE) /\ (Fault \/ UNCHANGED faults)
    BY <1>1, <2>3, OpTypes
  <2>4. CASE Raise(c, TRUE) /\ (Fault \/ UNCHANGED faults)
    BY <1>1, <2>4, OpTypes
  <2> QED BY <2>1, <2>2, <2>3, <2>4 DEF Detach, Unbranch
<1> QED BY <1>4, <1>5, <1>6 DEF TypeInv

\* An operation has its event, which has its name.
LEMMA EventIsEvent ==
  ASSUME TypeInv, NEW c \in Callers, op[c].step = "append"
  PROVE  /\ EventOf(c) \in Events /\ op[c] # Idle
         /\ EventOf(c).name = op[c].name /\ EventOf(c).kind = op[c].kind
<1>1. op[c] # Idle
  BY DEF Idle
<1>2. op[c] \in OperationStates
  BY DEF TypeInv, OpOK
<1>3. op[c].task \in Tasks \cup {NoTask}
  BY <1>2 DEF OperationStates
<1> QED BY <1>1, <1>3 DEF EventOf, Events, TypeInv, OpShape

LEMMA AppendTypes ==
  ASSUME TypeInv, NEW c \in Callers, AppendEvent(c)
  PROVE  TypeInv'
<1>1. OpOK /\ OpShape /\ op[c].step = "append" /\ op[c] # Idle /\ EventOf(c) \in Events
  BY EventIsEvent DEF TypeInv, AppendEvent
<1>2. UNCHANGED <<gitVars, taskVars, torn, memberVars>>
  BY DEF AppendEvent
<1>3. GitOK' /\ TaskOK' /\ MemberOK'
  BY <1>2, GitSame, TaskSame, MemberSame DEF TypeInv
<1>4. LogOK'
  BY <1>1, <1>2, AppendProperties DEF AppendEvent, TypeInv, LogOK
<1>5. OpOK' /\ OpShape'
  <2>1. CASE /\ op' = [op EXCEPT ![c] = Idle]
             /\ half' \subseteq half /\ crossed' \subseteq crossed /\ UNCHANGED faults
    BY <1>1, <2>1, OpTypes
  <2>2. CASE Raise(c, op[c].kind # "keep") /\ Fault
    BY <1>1, <2>2, OpTypes
  <2> QED BY <2>1, <2>2 DEF AppendEvent
<1> QED BY <1>3, <1>4, <1>5 DEF TypeInv

LEMMA CrashTypes ==
  ASSUME TypeInv, Crash
  PROVE  TypeInv'
<1>1. GitOK' /\ TaskOK'
  BY GitSame, TaskSame DEF TypeInv, Crash
<1>2. LogOK'
  BY DEF TypeInv, Crash, LogOK
<1>3. MemberOK'
  <2>1. NoItem \in [task: Tasks \cup {NoTask}, worktree: Directories]
        /\ NoName \in Directories
    BY DEF NoItem, Directories
  <2>2. item' \in [Members -> [task: Tasks \cup {NoTask}, worktree: Directories]]
    BY <2>1 DEF Crash
  <2> QED BY <2>1, <2>2 DEF TypeInv, Crash, MemberOK
<1>4. OpOK' /\ OpShape'
  <2>1. op' \in [Callers -> OperationStates] /\ \A c \in Callers : op'[c] = Idle
    <3> HIDE DEF Idle
    <3> QED BY IdleState DEF Crash
  <2>2. faults' \in 0 .. MaxFaults
    BY FaultCounted DEF Crash, TypeInv
  <2>3. \A c \in Callers : op[c].step \in {"bind", "unbranch", "append"} => op[c].name \in Names
    BY DEF TypeInv, OpShape, Idle
  <2>4. half' \subseteq Names /\ crossed' \subseteq Callers
    BY <2>3 DEF Crash, TypeInv, OpOK
  <2> QED BY <2>1, <2>2, <2>4 DEF OpOK, OpShape
<1> QED BY <1>1, <1>2, <1>3, <1>4 DEF TypeInv

-----------------------------------------------------------------------------
(* The members. *)

\* Writing makes a directory a plain one at most.
LEMMA WrittenTypes ==
  ASSUME GitOK, NEW d \in Directories, NEW w \in Directories, Written(d, w),
         astray \subseteq Directories \X Directories
  PROVE  /\ place' \in [Names -> Places] /\ edits' \in [Names -> BOOLEAN]
         /\ astray' \subseteq Directories \X Directories
<1>1. astray' \subseteq Directories \X Directories
  BY DEF Written
<1>2. CASE d = NoName
  BY <1>1, <1>2 DEF Written, GitOK
<1>3. CASE d # NoName
  <2>1. PICK shown \in BOOLEAN : edits' = [edits EXCEPT ![d] = edits[d] \/ shown]
    BY <1>3 DEF Written
  <2>2. place' \in [Names -> Places]
    BY <1>3 DEF Written, GitOK, Places
  <2>3. edits' \in [Names -> BOOLEAN]
    BY <2>1 DEF GitOK
  <2> QED BY <1>1, <2>2, <2>3
<1> QED BY <1>2, <1>3

LEMMA ClaimTypes ==
  ASSUME TypeInv, NEW m \in Members, NEW t \in Tasks, Claim(m, t)
  PROVE  TypeInv'
<1>1. GitOK' /\ LogOK' /\ OpOK' /\ OpShape'
  BY GitSame, LogSame, OpSame DEF TypeInv, Claim
<1>2. TaskOK'
  BY DEF TypeInv, TaskOK, Claim
<1>3. MemberOK'
  <2>1. [task |-> t, worktree |-> binding[t]] \in [task: Tasks \cup {NoTask}, worktree: Directories]
    BY DEF TypeInv, TaskOK, Directories
  <2>2. item' \in [Members -> [task: Tasks \cup {NoTask}, worktree: Directories]]
    BY <2>1 DEF Claim, TypeInv, MemberOK
  <2>3. at' \in [Members -> {"idle", "claimed", "running", "writing"}]
    BY DEF Claim, TypeInv, MemberOK
  <2> QED BY <2>2, <2>3 DEF Claim, TypeInv, MemberOK
<1> QED BY <1>1, <1>2, <1>3 DEF TypeInv

LEMMA StartRunTypes ==
  ASSUME TypeInv, NEW m \in Members, StartRun(m)
  PROVE  TypeInv'
<1>1. GitOK' /\ TaskOK' /\ LogOK' /\ OpOK' /\ OpShape'
  BY GitSame, TaskSame, LogSame, OpSame DEF TypeInv, StartRun
<1>2. MemberOK'
  <2>1. NoItem \in [task: Tasks \cup {NoTask}, worktree: Directories]
    BY DEF NoItem, Directories
  <2>2. item' \in [Members -> [task: Tasks \cup {NoTask}, worktree: Directories]]
    BY <2>1 DEF StartRun, TypeInv, MemberOK
  <2>3. at' \in [Members -> {"idle", "claimed", "running", "writing"}]
    BY DEF StartRun, TypeInv, MemberOK
  <2>4. Resolved(item[m].worktree) \subseteq Directories
    BY DEF Resolved, Directories, TypeInv, MemberOK
  <2>5. directory' \in [Members -> Directories \cup {NoDirectory}]
    BY <2>4 DEF StartRun, TypeInv, MemberOK
  <2> QED BY <2>2, <2>3, <2>5 DEF StartRun, TypeInv, MemberOK
<1> QED BY <1>1, <1>2 DEF TypeInv

LEMMA RunDirectoryType ==
  ASSUME MemberOK, NEW m \in Members
  PROVE  RunDirectory(m) \in Directories
BY DEF RunDirectory, MemberOK, Directories

LEMMA RunTypes ==
  ASSUME TypeInv, NEW m \in Members, OpenFile(m) \/ EndRun(m) \/ StartBackground(m)
  PROVE  TypeInv'
<1>1. GitOK' /\ TaskOK' /\ LogOK' /\ OpOK' /\ OpShape'
  <2>1. UNCHANGED <<gitVars, taskVars, logVars, op, half, crossed, faults>>
    BY DEF OpenFile, EndRun, StartBackground
  <2> QED BY <2>1, GitSame, TaskSame, LogSame, OpSame DEF TypeInv
<1>2. RunDirectory(m) \in Directories /\ NoName \in Directories /\ item[m].worktree \in Directories
  BY RunDirectoryType DEF Directories, TypeInv, MemberOK
<1>3. CASE OpenFile(m)
  <2>1. /\ cwd' \in [Members -> Directories]
        /\ at' \in [Members -> {"idle", "claimed", "running", "writing"}]
    BY <1>2, <1>3 DEF OpenFile, TypeInv, MemberOK
  <2> QED BY <1>1, <1>3, <2>1 DEF OpenFile, TypeInv, MemberOK
<1>4. CASE EndRun(m)
  <2>1. NoItem \in [task: Tasks \cup {NoTask}, worktree: Directories]
    BY DEF NoItem, Directories
  <2>2. item' \in [Members -> [task: Tasks \cup {NoTask}, worktree: Directories]]
    BY <1>4, <2>1 DEF EndRun, TypeInv, MemberOK
  <2>3. /\ directory' \in [Members -> Directories \cup {NoDirectory}]
        /\ at' \in [Members -> {"idle", "claimed", "running", "writing"}]
    BY <1>4 DEF EndRun, TypeInv, MemberOK
  <2> QED BY <1>1, <1>4, <2>2, <2>3 DEF EndRun, TypeInv, MemberOK
<1>5. CASE StartBackground(m)
  BY <1>1, <1>2, <1>5 DEF StartBackground, TypeInv, MemberOK
<1> QED BY <1>3, <1>4, <1>5

LEMMA WriteFileTypes ==
  ASSUME TypeInv, NEW m \in Members, WriteFile(m)
  PROVE  TypeInv'
<1>1. TaskOK' /\ LogOK' /\ OpOK' /\ OpShape'
  BY TaskSame, LogSame, OpSame DEF TypeInv, WriteFile
<1>2. /\ place' \in [Names -> Places] /\ edits' \in [Names -> BOOLEAN]
      /\ astray' \subseteq Directories \X Directories
  <2>1. CASE Written(cwd[m], item[m].worktree)
    <3>1. cwd[m] \in Directories /\ item[m].worktree \in Directories
      BY DEF TypeInv, MemberOK
    <3> QED BY <2>1, <3>1, WrittenTypes DEF TypeInv, MemberOK
  <2>2. CASE UNCHANGED <<place, edits, astray>>
    BY <2>2 DEF TypeInv, GitOK, MemberOK
  <2> QED BY <2>1, <2>2 DEF WriteFile
<1>3. GitOK'
  BY <1>2 DEF TypeInv, GitOK, WriteFile
<1>4. MemberOK'
  <2>1. /\ cwd' \in [Members -> Directories]
        /\ at' \in [Members -> {"idle", "claimed", "running", "writing"}]
    BY DEF WriteFile, TypeInv, MemberOK, Directories
  <2> QED BY <1>2, <2>1 DEF WriteFile, TypeInv, MemberOK
<1> QED BY <1>1, <1>3, <1>4 DEF TypeInv

LEMMA CommitTypes ==
  ASSUME TypeInv, NEW m \in Members, Commit(m) \/ Push(m)
  PROVE  TypeInv'
<1>1. UNCHANGED <<place, branch, taskVars, logVars, memberVars, op, half, crossed, faults>>
  BY DEF Commit, Push
<1>2. TaskOK' /\ LogOK' /\ MemberOK' /\ OpOK' /\ OpShape'
  BY <1>1, TaskSame, LogSame, MemberSame, OpSame DEF TypeInv
<1>3. edits' \in [Names -> BOOLEAN]
  BY DEF Commit, Push, TypeInv, GitOK
<1>4. commits' \in [Names -> {"none", "local", "pushed"}]
  BY DEF Commit, Push, TypeInv, GitOK
<1>5. GitOK'
  BY <1>1, <1>3, <1>4 DEF TypeInv, GitOK
<1> QED BY <1>2, <1>5 DEF TypeInv

LEMMA RunBackgroundTypes ==
  ASSUME TypeInv, NEW b \in background, RunBackground(b)
  PROVE  TypeInv'
<1>1. TaskOK' /\ LogOK' /\ OpOK' /\ OpShape'
  BY TaskSame, LogSame, OpSame DEF TypeInv, RunBackground
<1>2. /\ place' \in [Names -> Places] /\ edits' \in [Names -> BOOLEAN]
      /\ astray' \subseteq Directories \X Directories
  <2>1. CASE Written(b.cwd, b.worktree)
    <3>1. b.cwd \in Directories /\ b.worktree \in Directories
      BY DEF TypeInv, MemberOK
    <3> QED BY <2>1, <3>1, WrittenTypes DEF TypeInv, MemberOK
  <2>2. CASE UNCHANGED <<place, edits, astray>>
    BY <2>2 DEF TypeInv, GitOK, MemberOK
  <2> QED BY <2>1, <2>2 DEF RunBackground, BackgroundDirectory
<1>3. GitOK'
  BY <1>2 DEF TypeInv, GitOK, RunBackground
<1>4. MemberOK'
  BY <1>2 DEF RunBackground, TypeInv, MemberOK
<1> QED BY <1>1, <1>3, <1>4 DEF TypeInv

LEMMA TypeInvInductive == WorktreeSpec => []TypeInv
<1>1. WorktreeInit => TypeInv
  <2> SUFFICES ASSUME WorktreeInit PROVE TypeInv
    OBVIOUS
  <2>1. GitOK /\ TaskOK /\ LogOK
    <3>1. GitOK
      BY DEF WorktreeInit, GitOK, Places
    <3>2. TaskOK
      BY DEF WorktreeInit, TaskOK
    <3>3. <<>> \in Seq(Events)
      OBVIOUS
    <3>4. LogOK
      BY <3>3 DEF WorktreeInit, LogOK
    <3> QED BY <3>1, <3>2, <3>4
  <2>2. MemberOK
    <3>1. NoItem \in [task: Tasks \cup {NoTask}, worktree: Directories]
        /\ NoName \in Directories
      BY DEF NoItem, Directories
    <3>2. item \in [Members -> [task: Tasks \cup {NoTask}, worktree: Directories]]
      BY <3>1 DEF WorktreeInit
    <3> QED BY <3>1, <3>2 DEF WorktreeInit, MemberOK
  <2>3. OpOK /\ OpShape
    <3>1. op \in [Callers -> OperationStates] /\ \A c \in Callers : op[c] = Idle
      <4> HIDE DEF Idle
      <4> QED BY IdleState DEF WorktreeInit
    <3> QED BY <3>1, WorktreeAssumption DEF WorktreeInit, OpOK, OpShape
  <2> QED BY <2>1, <2>2, <2>3 DEF TypeInv
<1>2. TypeInv /\ [WorktreeNext]_worktreeVars => TypeInv'
  <2> SUFFICES ASSUME TypeInv, [WorktreeNext]_worktreeVars PROVE TypeInv'
    OBVIOUS
  <2>1. ASSUME UNCHANGED worktreeVars PROVE TypeInv'
    BY <2>1, GitSame, TaskSame, LogSame, MemberSame, OpSame DEF TypeInv, worktreeVars
  <2>2. CASE BeginOperation
    <3>1. PICK c \in Callers, call \in CallIds, n \in Names :
             \/ \E t \in Tasks \cup {NoTask} : BeginCreate(c, call, n, t)
             \/ \E discard \in BOOLEAN : BeginRemove(c, call, n, discard)
             \/ BeginKeep(c, call, n)
             \/ \E kind \in Kinds : Replay(c, kind, call)
             \/ RefuseTorn(c)
      BY <2>2 DEF BeginOperation
    <3>2. ASSUME NEW t \in Tasks \cup {NoTask}, BeginCreate(c, call, n, t) PROVE TypeInv'
      BY <3>2, BeginTypes DEF BeginCreate, Kinds
    <3>3. ASSUME NEW discard \in BOOLEAN, BeginRemove(c, call, n, discard) PROVE TypeInv'
      BY <3>3, BeginTypes DEF BeginRemove, Kinds
    <3>4. CASE BeginKeep(c, call, n)
      BY <3>4, BeginTypes DEF BeginKeep, Kinds
    <3>5. CASE (\E kind \in Kinds : Replay(c, kind, call)) \/ RefuseTorn(c)
      BY <2>1, <3>5 DEF Replay, RefuseTorn
    <3> QED BY <3>1, <3>2, <3>3, <3>4, <3>5
  <2>3. CASE OperationStep
    BY <2>3, AddTypes, BindTypes, LookTypes, RemoveTypes, AppendTypes DEF OperationStep
  <2>4. CASE MemberStep
    BY <2>4, ClaimTypes, StartRunTypes, RunTypes, WriteFileTypes, CommitTypes,
       RunBackgroundTypes DEF MemberStep
  <2>5. CASE Crash
    BY <2>5, CrashTypes
  <2> QED BY <2>1, <2>2, <2>3, <2>4, <2>5 DEF WorktreeNext
<1> QED BY <1>1, <1>2, PTL DEF WorktreeSpec

\* Every variable has its type, and the arguments of an operation in progress
\* those of its kind.
THEOREM WorktreeTypeCorrect == WorktreeSpec => []WorktreeTypeOK
BY TypeInvInductive, TypeInvIsType, PTL

-----------------------------------------------------------------------------
(* The directory of a Run. *)

\* The registry has the worktree of the work item for as long as the Run goes on,
\* and what a call has checked or handed to a thread is that directory.
InPlace ==
  /\ \A m \in Members :
       /\ at[m] \in {"running", "writing"} => directory[m] = item[m].worktree
       /\ at[m] = "writing" => cwd[m] = item[m].worktree
  /\ \A b \in background : b.cwd = b.worktree

LEMMA WorksInPlace ==
  ASSUME MemberOK, InPlace, NEW m \in Members, Working(m)
  PROVE  RunDirectory(m) = item[m].worktree /\ at[m] = "running"
<1>1. at[m] = "running" /\ directory[m] = item[m].worktree
  BY DEF Working, InPlace
<1>2. item[m].worktree \in Directories
  BY DEF MemberOK
<1> QED BY <1>1, <1>2, WorktreeAssumption DEF RunDirectory, Directories

LEMMA InPlaceInductive == WorktreeSpec => [](TypeInv /\ InPlace /\ RunsInItsWorktree)
<1>1. WorktreeInit => InPlace /\ RunsInItsWorktree
  BY DEF WorktreeInit, InPlace, RunsInItsWorktree
<1>2. TypeInv /\ InPlace /\ RunsInItsWorktree /\ [WorktreeNext]_worktreeVars
        => InPlace' /\ RunsInItsWorktree'
  <2> SUFFICES ASSUME TypeInv, InPlace, RunsInItsWorktree, [WorktreeNext]_worktreeVars
               PROVE  InPlace' /\ RunsInItsWorktree'
    OBVIOUS
  <2>1. ASSUME UNCHANGED memberVars PROVE InPlace' /\ RunsInItsWorktree'
    BY <2>1 DEF memberVars, InPlace, RunsInItsWorktree
  <2>2. CASE BeginOperation
    <3>1. UNCHANGED memberVars
      BY <2>2 DEF BeginOperation, BeginCreate, BeginRemove, BeginKeep, Begin, Replay,
         RefuseTorn, worktreeVars
    <3> QED BY <2>1, <3>1
  <2>3. CASE OperationStep
    <3>1. UNCHANGED memberVars
      BY <2>3 DEF OperationStep, Add, Bind, Inspect, Detach, Unbranch, Confirm, AppendEvent
    <3> QED BY <2>1, <3>1
  <2>4. CASE Crash
    BY <2>4 DEF Crash, InPlace, RunsInItsWorktree
  <2>5. ASSUME NEW m \in Members, NEW t \in Tasks, Claim(m, t)
        PROVE  InPlace' /\ RunsInItsWorktree'
    <3>1. /\ at'[m] = "claimed" /\ UNCHANGED <<directory, cwd, background, astray>>
          /\ \A k \in Members \ {m} : at'[k] = at[k] /\ item'[k] = item[k]
      BY <2>5 DEF Claim, TypeInv, MemberOK
    <3> QED BY <3>1 DEF InPlace, RunsInItsWorktree
  <2>6. ASSUME NEW m \in Members, StartRun(m)
        PROVE  InPlace' /\ RunsInItsWorktree'
    <3>1. /\ \/ at'[m] = "idle"
             \/ /\ at'[m] = "running" /\ directory'[m] \in Resolved(item[m].worktree)
                /\ item' = item
          /\ UNCHANGED <<cwd, background, astray>>
          /\ \A k \in Members \ {m} : at'[k] = at[k] /\ item'[k] = item[k]
                                      /\ directory'[k] = directory[k]
      BY <2>6 DEF StartRun, TypeInv, MemberOK
    <3>2. Resolved(item[m].worktree) \subseteq {item[m].worktree}
      BY DEF Resolved
    <3> QED BY <3>1, <3>2 DEF InPlace, RunsInItsWorktree
  <2>7. ASSUME NEW m \in Members, OpenFile(m)
        PROVE  InPlace' /\ RunsInItsWorktree'
    <3>1. RunDirectory(m) = item[m].worktree /\ at[m] = "running"
      BY <2>7, WorksInPlace DEF OpenFile, TypeInv
    <3>2. /\ at'[m] = "writing" /\ cwd'[m] = item[m].worktree
          /\ UNCHANGED <<item, directory, background, astray>>
          /\ \A k \in Members \ {m} : at'[k] = at[k] /\ cwd'[k] = cwd[k]
      BY <2>7, <3>1 DEF OpenFile, TypeInv, MemberOK
    <3> QED BY <3>1, <3>2 DEF InPlace, RunsInItsWorktree
  <2>8. ASSUME NEW m \in Members, WriteFile(m)
        PROVE  InPlace' /\ RunsInItsWorktree'
    <3>1. at[m] = "writing" /\ cwd[m] = item[m].worktree /\ cwd[m] \in Directories
      BY <2>8 DEF WriteFile, InPlace, TypeInv, MemberOK
    <3>2. astray' \subseteq astray
      BY <2>8, <3>1 DEF WriteFile, Written, Own
    <3>3. /\ at'[m] = "running" /\ UNCHANGED <<item, directory, background>>
          /\ \A k \in Members \ {m} : at'[k] = at[k] /\ cwd'[k] = cwd[k]
      BY <2>8 DEF WriteFile, TypeInv, MemberOK
    <3> QED BY <3>1, <3>2, <3>3 DEF InPlace, RunsInItsWorktree
  <2>9. ASSUME NEW m \in Members, Commit(m) \/ Push(m)
        PROVE  InPlace' /\ RunsInItsWorktree'
    BY <2>1, <2>9 DEF Commit, Push
  <2>10. ASSUME NEW m \in Members, StartBackground(m)
         PROVE  InPlace' /\ RunsInItsWorktree'
    <3>1. RunDirectory(m) = item[m].worktree
      BY <2>10, WorksInPlace DEF StartBackground, TypeInv
    <3> QED BY <2>10, <3>1 DEF StartBackground, InPlace, RunsInItsWorktree
  <2>11. ASSUME NEW m \in Members, EndRun(m)
         PROVE  InPlace' /\ RunsInItsWorktree'
    <3>1. /\ at'[m] = "idle" /\ UNCHANGED <<cwd, background, astray>>
          /\ \A k \in Members \ {m} : at'[k] = at[k] /\ item'[k] = item[k]
                                      /\ directory'[k] = directory[k]
      BY <2>11 DEF EndRun, TypeInv, MemberOK
    <3> QED BY <3>1 DEF InPlace, RunsInItsWorktree
  <2>12. ASSUME NEW b \in background, RunBackground(b)
         PROVE  InPlace' /\ RunsInItsWorktree'
    <3>1. b.cwd = b.worktree /\ b.cwd \in Directories
      BY DEF InPlace, TypeInv, MemberOK
    <3>2. astray' \subseteq astray
      BY <2>12, <3>1 DEF RunBackground, BackgroundDirectory, Written, Own
    <3> QED BY <2>12, <3>2 DEF RunBackground, InPlace, RunsInItsWorktree
  <2>13. CASE MemberStep
    BY <2>5, <2>6, <2>7, <2>8, <2>9, <2>10, <2>11, <2>12, <2>13 DEF MemberStep
  <2>14. CASE UNCHANGED worktreeVars
    BY <2>1, <2>14 DEF worktreeVars
  <2> QED BY <2>2, <2>3, <2>4, <2>13, <2>14 DEF WorktreeNext
<1> QED BY <1>1, <1>2, TypeInvInductive, PTL DEF WorktreeSpec

\* What the calls of a task's Run write, they write in the worktree the task was
\* bound to when it was claimed.
THEOREM RunsStayInWorktree == WorktreeSpec => []RunsInItsWorktree
BY InPlaceInductive, PTL

-----------------------------------------------------------------------------
(* Work is lost only where that was asked for. *)

\* There are no commits without their branch.
CommitsHaveBranch == \A n \in Names : ~branch[n] => commits[n] = "none"

Discarding(n) ==
  \E c \in Callers : op[c].kind = "remove" /\ op[c].name = n /\ op[c].discard

Kept(n) ==
  /\ edits[n] => edits'[n] \/ commits'[n] = "local"
  /\ commits[n] = "local" => commits'[n] # "none"

LEMMA OperationKeepsWork ==
  ASSUME TypeInv, CommitsHaveBranch, OperationStep
  PROVE  CommitsHaveBranch' /\ \A n \in Names : Discarding(n) \/ Kept(n)
<1>1. PICK c \in Callers : \/ Add(c) \/ Bind(c) \/ Inspect(c) \/ Detach(c) \/ Unbranch(c)
                          \/ Confirm(c) \/ AppendEvent(c)
  BY DEF OperationStep
<1> DEFINE n == op[c].name
<1>2. GitOK /\ OpShape
  BY DEF TypeInv
<1>3. CASE Add(c)
  <2>1. ~branch[n] \/ UNCHANGED <<branch, commits>>
    BY <1>3 DEF Add
  <2>2. CASE UNCHANGED <<branch, commits>>
    BY <1>3, <2>2 DEF Add, CommitsHaveBranch, Kept
  <2>3. CASE /\ ~branch[n] /\ commits' = [commits EXCEPT ![n] = "none"]
             /\ \E b \in BOOLEAN : branch' = [branch EXCEPT ![n] = b]
    BY <1>2, <1>3, <2>3 DEF Add, GitOK, CommitsHaveBranch, Kept
  <2> QED BY <1>3, <2>2, <2>3 DEF Add
<1>4. CASE Bind(c) \/ Inspect(c) \/ Confirm(c) \/ AppendEvent(c)
  <2>1. UNCHANGED gitVars
    BY <1>4 DEF Bind, Inspect, Confirm, AppendEvent
  <2> QED BY <2>1 DEF gitVars, CommitsHaveBranch, Kept
<1>5. CASE Detach(c)
  <2>1. op[c].kind = "remove"
    BY <1>2, <1>5 DEF Detach, OpShape, Kinds, Idle
  <2>2. UNCHANGED <<branch, commits>>
        /\ \/ UNCHANGED edits
           \/ edits' = [edits EXCEPT ![n] = FALSE] /\ (op[c].discard \/ ~edits[n])
    BY <1>5 DEF Detach
  <2> QED BY <1>2, <2>1, <2>2 DEF GitOK, CommitsHaveBranch, Kept, Discarding
<1>6. CASE Unbranch(c)
  <2>1. op[c].kind = "remove"
    BY <1>2, <1>6 DEF Unbranch, OpShape, Kinds, Idle
  <2>2. UNCHANGED edits
        /\ \/ UNCHANGED <<branch, commits>>
           \/ /\ branch' = [branch EXCEPT ![n] = FALSE]
              /\ commits' = [commits EXCEPT ![n] = "none"]
              /\ op[c].discard \/ commits[n] # "local"
    BY <1>6 DEF Unbranch, Deletable
  <2> QED BY <1>2, <2>1, <2>2 DEF GitOK, CommitsHaveBranch, Kept, Discarding
<1> QED BY <1>1, <1>3, <1>4, <1>5, <1>6

\* A member adds to the work of a worktree.
LEMMA MemberKeepsWork ==
  ASSUME TypeInv, CommitsHaveBranch, MemberStep
  PROVE  CommitsHaveBranch' /\ \A n \in Names : Kept(n)
<1>1. GitOK
  BY DEF TypeInv
<1>2. ASSUME NEW d \in Directories, NEW w, Written(d, w), UNCHANGED <<branch, commits>>
      PROVE  CommitsHaveBranch' /\ \A n \in Names : Kept(n)
  <2>1. \A n \in Names : edits[n] => edits'[n]
    BY <1>1, <1>2 DEF Written, GitOK, Directories
  <2> QED BY <1>2, <2>1 DEF CommitsHaveBranch, Kept
<1>3. ASSUME UNCHANGED <<branch, edits, commits>>
      PROVE  CommitsHaveBranch' /\ \A n \in Names : Kept(n)
  BY <1>3 DEF CommitsHaveBranch, Kept
<1>4. ASSUME NEW m \in Members,
             \/ \E t \in Tasks : Claim(m, t)
             \/ StartRun(m) \/ OpenFile(m) \/ StartBackground(m) \/ EndRun(m)
      PROVE  CommitsHaveBranch' /\ \A n \in Names : Kept(n)
  <2>1. UNCHANGED gitVars
    BY <1>4 DEF Claim, StartRun, OpenFile, StartBackground, EndRun
  <2> QED BY <1>3, <2>1 DEF gitVars
<1>5. ASSUME NEW m \in Members, WriteFile(m)
      PROVE  CommitsHaveBranch' /\ \A n \in Names : Kept(n)
  <2>1. cwd[m] \in Directories /\ UNCHANGED <<branch, commits>>
    BY <1>5 DEF TypeInv, MemberOK, WriteFile
  <2> QED BY <1>2, <1>3, <1>5, <2>1 DEF WriteFile
<1>6. ASSUME NEW m \in Members, Commit(m) \/ Push(m)
      PROVE  CommitsHaveBranch' /\ \A n \in Names : Kept(n)
  <2> DEFINE n == RunDirectory(m)
  <2>1. /\ branch[n] /\ UNCHANGED branch
        /\ \/ /\ commits' = [commits EXCEPT ![n] = "local"]
              /\ edits' = [edits EXCEPT ![n] = FALSE]
           \/ commits' = [commits EXCEPT ![n] = "pushed"] /\ UNCHANGED edits
    BY <1>6 DEF Commit, Push
  <2>2. \A k \in Names \ {n} : edits'[k] = edits[k] /\ commits'[k] = commits[k]
    BY <1>1, <2>1 DEF GitOK
  <2>3. n \in Names => /\ commits'[n] \in {"local", "pushed"}
                       /\ commits'[n] = "local" \/ edits'[n] = edits[n]
    BY <1>1, <2>1 DEF GitOK
  <2> HIDE DEF n
  <2> QED BY <2>1, <2>2, <2>3 DEF CommitsHaveBranch, Kept
<1>7. ASSUME NEW b \in background, RunBackground(b)
      PROVE  CommitsHaveBranch' /\ \A n \in Names : Kept(n)
  <2>1. b.cwd \in Directories /\ UNCHANGED <<branch, commits>>
    BY <1>7 DEF TypeInv, MemberOK, RunBackground
  <2> QED BY <1>2, <1>3, <1>7, <2>1 DEF RunBackground, BackgroundDirectory
<1> QED BY <1>4, <1>5, <1>6, <1>7 DEF MemberStep

LEMMA WorkKept ==
  TypeInv /\ CommitsHaveBranch /\ [WorktreeNext]_worktreeVars
    => CommitsHaveBranch' /\ \A n \in Names : Discarding(n) \/ Kept(n)
<1> SUFFICES ASSUME TypeInv, CommitsHaveBranch, [WorktreeNext]_worktreeVars
             PROVE  CommitsHaveBranch' /\ \A n \in Names : Discarding(n) \/ Kept(n)
  OBVIOUS
<1>1. CASE UNCHANGED gitVars
  BY <1>1 DEF gitVars, CommitsHaveBranch, Kept
<1>2. CASE OperationStep
  BY <1>2, OperationKeepsWork
<1>3. CASE MemberStep
  BY <1>3, MemberKeepsWork
<1>4. CASE BeginOperation \/ Crash \/ UNCHANGED worktreeVars
  <2>1. UNCHANGED gitVars
    BY <1>4 DEF BeginOperation, BeginCreate, BeginRemove, BeginKeep, Begin, Replay,
       RefuseTorn, Crash, worktreeVars
  <2> QED BY <1>1, <2>1
<1> QED BY <1>2, <1>3, <1>4 DEF WorktreeNext

\* A file written and a commit made disappear only by a removal that was told to
\* discard them, however late before the removal they were made.
THEOREM DiscardedOnlyIfAsked == WorktreeSpec => WorkOnlyDiscarded
<1>1. WorktreeInit => CommitsHaveBranch
  BY DEF WorktreeInit, CommitsHaveBranch
<1>2. TypeInv /\ CommitsHaveBranch /\ [WorktreeNext]_worktreeVars =>
        [\A n \in Names :
          \/ \E c \in Callers :
                op[c].kind = "remove" /\ op[c].name = n /\ op[c].discard
          \/ /\ edits[n] => edits'[n] \/ commits'[n] = "local"
             /\ commits[n] = "local" => commits'[n] # "none"]_worktreeVars
  BY WorkKept DEF Discarding, Kept
<1> QED BY <1>1, <1>2, WorkKept, TypeInvInductive, PTL DEF WorktreeSpec, WorkOnlyDiscarded

-----------------------------------------------------------------------------
(* The journal tells what Git has. *)

Tells(log, n, there, branched) ==
  IF Recorded(log, n) THEN there = "worktree" /\ branched
  ELSE there # "worktree" /\ ~branched

\* Until its first effect an operation leaves a journal true that was true.
Untouched(log, n, kind, step, there, branched) ==
  /\ step \in {"add", "inspect", "detach", "confirm"} => Tells(log, n, there, branched)
  /\ kind = "keep" /\ step = "append" => Tells(log, n, there, branched) /\ branched

\* What a creation or a removal has done so far, and, at its last step, what its
\* event will say.
Effect(kind, step, there, branched) ==
  /\ kind = "create" /\ step \in {"bind", "append"} => there = "worktree" /\ branched
  /\ step = "unbranch" => there # "worktree"
  /\ kind = "remove" /\ step = "append" => there # "worktree" /\ ~branched

\* An operation alone on its name finds its effect there even when the journal
\* was wrong about the name before: that is why its event makes it right.
InProgress ==
  \A c \in Callers :
    op[c].name \in Names =>
      /\ c \notin crossed =>
           Effect(op[c].kind, op[c].step, place[op[c].name], branch[op[c].name])
      /\ op[c].name \notin half =>
           Untouched(journal, op[c].name, op[c].kind, op[c].step,
                     place[op[c].name], branch[op[c].name])

\* Two operations on one name leave it to be distrusted, as long as either goes on.
OneAtATime ==
  /\ \A c, d \in Callers :
       c # d /\ op[c].name = op[d].name /\ op[c].name \in Names => c \in crossed
  /\ \A c \in crossed : op[c].name \in half

JournalInv == InProgress /\ OneAtATime /\ JournalTellsGit

LEMMA IdleHasNoName == Idle.name \notin Names
BY WorktreeAssumption DEF Idle

\* A name nobody works on or distrusts.
LEMMA AtRest ==
  ASSUME JournalInv, NEW n \in Names \ half, \A c \in Callers : op[c].name # n
  PROVE  Tells(journal, n, place[n], branch[n])
BY DEF JournalInv, JournalTellsGit, Tells

\* One more event is the last one about its name.
LEMMA AppendRecords ==
  ASSUME NEW e \in Events, journal \in Seq(Events), journal' = Append(journal, e)
  PROVE  /\ Recorded(journal', e.name) <=> e.kind # "remove"
         /\ \A n \in Names \ {e.name} : Recorded(journal', n) <=> Recorded(journal, n)
<1> DEFINE k == Len(journal)
<1>1. /\ k \in Nat /\ DOMAIN journal = 1 .. k /\ DOMAIN journal' = 1 .. (k + 1)
      /\ journal'[k + 1] = e /\ \A i \in 1 .. k : journal'[i] = journal[i]
  BY AppendProperties, LenProperties
<1> HIDE DEF k
<1>2. ASSUME e.kind # "remove" PROVE Recorded(journal', e.name)
  <2>1. k + 1 \in DOMAIN journal' /\ \A j \in DOMAIN journal' : ~(j > k + 1)
    BY <1>1
  <2> QED BY <1>1, <1>2, <2>1 DEF Recorded
<1>3. ASSUME Recorded(journal', e.name) PROVE e.kind # "remove"
  <2>1. PICK i \in DOMAIN journal' :
           /\ journal'[i].kind # "remove"
           /\ \A j \in DOMAIN journal' : j > i => journal'[j].name # e.name
    BY <1>3 DEF Recorded
  <2>2. ~(k + 1 > i) /\ k + 1 \in DOMAIN journal'
    BY <1>1, <2>1
  <2>3. i = k + 1
    BY <1>1, <2>2
  <2> QED BY <1>1, <2>1, <2>3
<1>4. ASSUME NEW n \in Names, n # e.name, Recorded(journal, n) PROVE Recorded(journal', n)
  <2>1. PICK i \in DOMAIN journal :
           /\ journal[i].name = n /\ journal[i].kind # "remove"
           /\ \A j \in DOMAIN journal : j > i => journal[j].name # n
    BY <1>4 DEF Recorded
  <2>2. i \in DOMAIN journal' /\ journal'[i] = journal[i]
    BY <1>1
  <2>3. \A j \in DOMAIN journal' : j > i => journal'[j].name # n
    BY <1>1, <1>4, <2>1
  <2> QED BY <2>1, <2>2, <2>3 DEF Recorded
<1>5. ASSUME NEW n \in Names, n # e.name, Recorded(journal', n) PROVE Recorded(journal, n)
  <2>1. PICK i \in DOMAIN journal' :
           /\ journal'[i].name = n /\ journal'[i].kind # "remove"
           /\ \A j \in DOMAIN journal' : j > i => journal'[j].name # n
    BY <1>5 DEF Recorded
  <2>2. i \in 1 .. k
    BY <1>1, <1>5, <2>1
  <2>3. \A j \in DOMAIN journal : j > i => journal[j].name # n
    BY <1>1, <2>1
  <2> QED BY <1>1, <2>1, <2>2, <2>3 DEF Recorded
<1> QED BY <1>2, <1>3, <1>4, <1>5

\* A step of the operation on n, which touches no other name.
LEMMA OperationTells ==
  ASSUME TypeInv, JournalInv, NEW c \in Callers, NEW n \in Names, n = op[c].name,
         \A k \in Names \ {n} : k \in half' <=> k \in half,
         half' \subseteq Names, c \in crossed => n \in half',
         \A d \in Callers \ {c} : op'[d] = op[d],
         \/ op'[c] = Idle /\ crossed' = crossed \ {c}
         \/ op'[c].name = n /\ crossed' = crossed,
         \A k \in Names \ {n} : /\ place'[k] = place[k] /\ branch'[k] = branch[k]
                                /\ Recorded(journal', k) <=> Recorded(journal, k),
         op'[c] = Idle /\ n \notin half' => Tells(journal', n, place'[n], branch'[n]),
         op'[c].name = n /\ n \notin half' =>
           Untouched(journal', n, op'[c].kind, op'[c].step, place'[n], branch'[n]),
         op'[c].name = n /\ c \notin crossed =>
           Effect(op'[c].kind, op'[c].step, place'[n], branch'[n])
  PROVE  JournalInv'
<1>1. \A k \in Names \ {n} : 
        Tells(journal', k, place'[k], branch'[k]) <=> Tells(journal, k, place[k], branch[k])
  BY DEF Tells
<1>2. InProgress'
  <2> SUFFICES ASSUME NEW d \in Callers, op'[d].name \in Names
               PROVE  /\ d \notin crossed' =>
                           Effect(op'[d].kind, op'[d].step,
                                  place'[op'[d].name], branch'[op'[d].name])
                      /\ op'[d].name \notin half' =>
                           Untouched(journal', op'[d].name, op'[d].kind, op'[d].step,
                                     place'[op'[d].name], branch'[op'[d].name])
    BY DEF InProgress
  <2>1. CASE d = c
    BY <2>1, IdleHasNoName
  <2>2. CASE d # c /\ op[d].name = n
    <3>1. d \in crossed /\ c \in crossed
      BY <2>2 DEF JournalInv, OneAtATime
    <3> QED BY <2>2, <3>1
  <2>3. CASE d # c /\ op[d].name # n
    <3> DEFINE k == op[d].name
    <3>1. op'[d] = op[d] /\ k \in Names \ {n}
      BY <2>3
    <3>2. /\ d \notin crossed => Effect(op[d].kind, op[d].step, place[k], branch[k])
          /\ k \notin half =>
               Untouched(journal, k, op[d].kind, op[d].step, place[k], branch[k])
      BY <3>1 DEF JournalInv, InProgress
    <3>3. /\ place'[k] = place[k] /\ branch'[k] = branch[k] /\ (k \in half' <=> k \in half)
          /\ Tells(journal', k, place'[k], branch'[k]) <=> Tells(journal, k, place[k], branch[k])
          /\ d \in crossed' <=> d \in crossed
      BY <1>1, <2>3, <3>1
    <3> HIDE DEF k
    <3>4. /\ d \notin crossed' => Effect(op[d].kind, op[d].step, place'[k], branch'[k])
          /\ k \notin half' =>
               Untouched(journal', k, op[d].kind, op[d].step, place'[k], branch'[k])
      BY <3>2, <3>3 DEF Untouched
    <3> QED BY <3>1, <3>4 DEF k
  <2> QED BY <2>1, <2>2, <2>3
<1>3. OneAtATime'
  <2>1. ASSUME NEW a \in Callers, NEW b \in Callers, a # b, op'[a].name = op'[b].name,
               op'[a].name \in Names
        PROVE  a \in crossed'
    <3>1. op'[c].name = op[c].name \/ (a # c /\ b # c)
      BY <2>1, IdleHasNoName
    <3>2. op[a].name = op[b].name /\ op[a].name \in Names
      BY <2>1, <3>1
    <3>3. a \in crossed
      BY <2>1, <3>2 DEF JournalInv, OneAtATime
    <3> QED BY <2>1, <3>1, <3>3, IdleHasNoName
  <2>2. ASSUME NEW a \in crossed' PROVE op'[a].name \in half'
    <3>1. a \in crossed /\ op[a].name \in half
      BY <2>2 DEF JournalInv, OneAtATime
    <3>2. CASE a = c
      BY <2>2, <3>1, <3>2
    <3>3. CASE a # c
      <4>1. op[a].name \in Names
        BY <3>1 DEF TypeInv, OpOK
      <4>2. a \in Callers
        BY <3>1 DEF TypeInv, OpOK
      <4>3. op[a].name = n => c \in crossed
        BY <3>3, <4>2 DEF JournalInv, OneAtATime
      <4> QED BY <3>1, <3>3, <4>1, <4>2, <4>3
    <3> QED BY <3>2, <3>3
  <2> QED BY <2>1, <2>2 DEF OneAtATime
<1>4. JournalTellsGit'
  <2> SUFFICES ASSUME NEW k \in Names, k \notin half', \A d \in Callers : op'[d].name # k
               PROVE  Tells(journal', k, place'[k], branch'[k])
    BY DEF JournalTellsGit, Tells
  <2>1. CASE k = n
    BY <2>1
  <2>2. CASE k # n
    <3>1. \A d \in Callers : op[d].name # k
      BY <2>2
    <3> QED BY <1>1, <2>2, <3>1, AtRest
  <2> QED BY <2>1, <2>2
<1> QED BY <1>2, <1>3, <1>4 DEF JournalInv

\* Where nothing happened to Git or the journal the operation goes on or is over.
LEMMA LookTells ==
  ASSUME TypeInv, JournalInv, NEW c \in Callers, Inspect(c) \/ Confirm(c) \/ Bind(c)
  PROVE  JournalInv'
<1> DEFINE n == op[c].name
<1>1. n \in Names /\ OpOK
  <2>1. op[c].step \in {"inspect", "confirm", "bind"}
    BY DEF Inspect, Confirm, Bind
  <2> QED BY <2>1 DEF TypeInv, OpShape, Idle
<1>2. UNCHANGED <<place, branch, journal>>
  BY DEF Inspect, Confirm, Bind, gitVars, logVars
<1>3. \A k \in Names :
        /\ Recorded(journal', k) <=> Recorded(journal, k)
        /\ Tells(journal', k, place'[k], branch'[k]) <=> Tells(journal, k, place[k], branch[k])
  BY <1>2 DEF Recorded, Tells
<1>4. /\ n \notin half => Untouched(journal, n, op[c].kind, op[c].step, place[n], branch[n])
      /\ c \notin crossed => Effect(op[c].kind, op[c].step, place[n], branch[n])
      /\ half \subseteq Names /\ (c \in crossed => n \in half)
  BY <1>1 DEF JournalInv, InProgress, OneAtATime, OpOK
<1>5. ASSUME NEW s \in {"bind", "detach", "unbranch", "append"}, Continue(c, s),
             n \notin half => Untouched(journal, n, op[c].kind, s, place[n], branch[n]),
             c \notin crossed => Effect(op[c].kind, s, place[n], branch[n])
      PROVE  JournalInv'
  <2>1. /\ \A d \in Callers \ {c} : op'[d] = op[d]
        /\ op'[c].name = n /\ op'[c].kind = op[c].kind /\ op'[c].step = s
        /\ half' = half /\ crossed' = crossed
    BY <1>1, <1>5, ContinueOp DEF Continue
  <2> HIDE DEF n
  <2>2. n \notin half => Untouched(journal', n, op'[c].kind, op'[c].step, place'[n], branch'[n])
    BY <1>1, <1>2, <1>3, <1>5, <2>1 DEF Untouched
  <2>3. op'[c] # Idle
    BY <1>1, <2>1, IdleHasNoName
  <2>4. c \notin crossed => Effect(op'[c].kind, op'[c].step, place'[n], branch'[n])
    BY <1>2, <1>5, <2>1
  <2> QED BY <1>1, <1>2, <1>3, <1>4, <2>1, <2>2, <2>3, <2>4, OperationTells DEF n
<1>6. ASSUME NEW started, Raise(c, started),
             n \notin half => Tells(journal, n, place[n], branch[n]) \/ started = TRUE
      PROVE  JournalInv'
  <2>1. /\ op'[c] = Idle /\ \A d \in Callers \ {c} : op'[d] = op[d]
        /\ crossed' = crossed \ {c}
    BY <1>1, <1>6, RaiseOp DEF Raise
  <2>2. half \subseteq half' /\ half' \subseteq half \cup {n} /\ (started = TRUE => n \in half')
    BY <1>6 DEF Raise
  <2>3. op'[c].name # n
    BY <1>1, <2>1, IdleHasNoName
  <2> HIDE DEF n
  <2>4. n \notin half' => Tells(journal', n, place'[n], branch'[n])
    BY <1>1, <1>3, <1>6, <2>2
  <2> QED BY <1>1, <1>2, <1>3, <1>4, <2>1, <2>2, <2>3, <2>4, OperationTells DEF n
<1>7. CASE Inspect(c)
  <2>1. op[c].step = "inspect"
    BY <1>7 DEF Inspect
  <2>2. op[c].kind = "remove"
    BY <2>1 DEF TypeInv, OpShape, Kinds, Idle
  <2>3. n \notin half => /\ Untouched(journal, n, op[c].kind, "detach", place[n], branch[n])
                         /\ Tells(journal, n, place[n], branch[n])
    BY <1>4, <2>1, <2>2 DEF Untouched
  <2>4. Effect(op[c].kind, "detach", place[n], branch[n])
    BY DEF Effect
  <2> QED BY <1>5, <1>6, <1>7, <2>3, <2>4 DEF Inspect
<1>8. CASE Confirm(c)
  <2>1. op[c].step = "confirm"
    BY <1>8 DEF Confirm
  <2>2. op[c].kind = "keep"
    BY <2>1 DEF TypeInv, OpShape, Kinds, Idle
  <2>3. n \notin half => Tells(journal, n, place[n], branch[n])
    BY <1>4, <2>1 DEF Untouched
  <2>4. n \notin half /\ branch[n] =>
          Untouched(journal, n, op[c].kind, "append", place[n], branch[n])
    BY <2>2, <2>3 DEF Untouched
  <2>5. Effect(op[c].kind, "append", place[n], branch[n])
    BY <2>2 DEF Effect
  <2> QED BY <1>5, <1>6, <1>8, <2>3, <2>4, <2>5 DEF Confirm, ExistingWorktree
<1>9. CASE Bind(c)
  <2>1. op[c].step = "bind"
    BY <1>9 DEF Bind
  <2>2. op[c].kind = "create"
    BY <2>1 DEF TypeInv, OpShape, Kinds, Idle
  <2>3. /\ Untouched(journal, n, op[c].kind, "append", place[n], branch[n])
        /\ c \notin crossed => Effect(op[c].kind, "append", place[n], branch[n])
    BY <1>4, <2>1, <2>2 DEF Untouched, Effect
  <2>4. CASE Continue(c, "append")
    BY <1>5, <2>3, <2>4
  <2>5. CASE Raise(c, TRUE)
    BY <1>6, <2>5
  <2> QED BY <1>9, <2>4, <2>5 DEF Bind
<1> QED BY <1>7, <1>8, <1>9

\* A step that changes what Git has on its name, and writes no event.
LEMMA GitTells ==
  ASSUME TypeInv, JournalInv, NEW c \in Callers, Add(c) \/ Detach(c) \/ Unbranch(c)
  PROVE  JournalInv'
<1> DEFINE n == op[c].name
<1>1. n \in Names /\ OpOK /\ GitOK
  <2>1. op[c].step \in {"add", "detach", "unbranch"}
    BY DEF Add, Detach, Unbranch
  <2> QED BY <2>1 DEF TypeInv, OpShape, Idle
<1>2. UNCHANGED journal
  BY DEF Add, Detach, Unbranch, logVars
<1>3. \A k \in Names : Recorded(journal', k) <=> Recorded(journal, k)
  BY <1>2 DEF Recorded
<1>4. /\ n \notin half => Untouched(journal, n, op[c].kind, op[c].step, place[n], branch[n])
      /\ c \notin crossed => Effect(op[c].kind, op[c].step, place[n], branch[n])
      /\ half \subseteq Names /\ (c \in crossed => n \in half)
  BY <1>1 DEF JournalInv, InProgress, OneAtATime, OpOK
<1>5. \A k \in Names \ {n} : place'[k] = place[k] /\ branch'[k] = branch[k]
  BY <1>1 DEF Add, Detach, Unbranch, GitOK
<1>6. ASSUME NEW s \in {"bind", "unbranch", "append"}, Continue(c, s),
             op[c].kind # "keep",
             c \notin crossed =>
               \/ op[c].kind = "create" /\ s # "unbranch" /\ place'[n] = "worktree" /\ branch'[n]
               \/ s = "unbranch" /\ place'[n] # "worktree"
               \/ op[c].kind = "remove" /\ s = "append" /\ place'[n] # "worktree" /\ ~branch'[n]
      PROVE  JournalInv'
  <2>1. /\ \A d \in Callers \ {c} : op'[d] = op[d]
        /\ op'[c].name = n /\ op'[c].kind = op[c].kind /\ op'[c].step = s
        /\ half' = half /\ crossed' = crossed
    BY <1>1, <1>6, ContinueOp DEF Continue
  <2> HIDE DEF n
  <2>2. Untouched(journal', n, op'[c].kind, op'[c].step, place'[n], branch'[n])
    BY <1>6, <2>1 DEF Untouched
  <2>3. op'[c] # Idle
    BY <1>1, <2>1, IdleHasNoName
  <2>4. c \notin crossed => Effect(op'[c].kind, op'[c].step, place'[n], branch'[n])
    BY <1>6, <2>1 DEF Effect
  <2> QED BY <1>1, <1>3, <1>4, <1>5, <2>1, <2>2, <2>3, <2>4, OperationTells DEF n
<1>7. ASSUME NEW started, Raise(c, started),
             \/ started = TRUE
             \/ /\ place'[n] = place[n] /\ branch'[n] = branch[n]
                /\ n \notin half => Tells(journal, n, place[n], branch[n])
      PROVE  JournalInv'
  <2>1. /\ op'[c] = Idle /\ \A d \in Callers \ {c} : op'[d] = op[d]
        /\ crossed' = crossed \ {c}
    BY <1>1, <1>7, RaiseOp DEF Raise
  <2>2. half \subseteq half' /\ half' \subseteq half \cup {n} /\ (started = TRUE => n \in half')
    BY <1>7 DEF Raise
  <2>3. op'[c].name # n
    BY <1>1, <2>1, IdleHasNoName
  <2> HIDE DEF n
  <2>4. n \notin half' => Tells(journal', n, place'[n], branch'[n])
    BY <1>1, <1>3, <1>7, <2>2 DEF Tells
  <2> QED BY <1>1, <1>3, <1>4, <1>5, <2>1, <2>2, <2>3, <2>4, OperationTells DEF n
<1>8. CASE Add(c)
  <2>1. op[c].step = "add"
    BY <1>8 DEF Add
  <2>2. op[c].kind = "create"
    BY <2>1 DEF TypeInv, OpShape, Kinds, Idle
  <2>3. n \notin half => Tells(journal, n, place[n], branch[n])
    BY <1>4, <2>1 DEF Untouched
  <2>4. CASE /\ place' = [place EXCEPT ![n] = "worktree"]
             /\ branch' = [branch EXCEPT ![n] = TRUE]
             /\ Continue(c, IF op[c].task # NoTask THEN "bind" ELSE "append")
    <3>1. place'[n] = "worktree" /\ branch'[n]
      BY <1>1, <2>4 DEF GitOK
    <3>2. CASE Continue(c, "bind")
      BY <1>6, <2>2, <2>4, <3>1, <3>2
    <3>3. CASE Continue(c, "append")
      BY <1>6, <2>2, <2>4, <3>1, <3>3
    <3> QED BY <2>4, <3>2, <3>3
  <2>5. CASE Raise(c, FALSE) /\ UNCHANGED <<place, branch>>
    BY <1>7, <2>3, <2>5
  <2>6. ASSUME ~branch[n], NEW added \in BOOLEAN, NEW branched \in BOOLEAN,
               added => branched,
               place' = [place EXCEPT ![n] = IF added THEN "worktree" ELSE @],
               branch' = [branch EXCEPT ![n] = branched],
               Raise(c, branched)
        PROVE  JournalInv'
    <3>1. branched \/ (place'[n] = place[n] /\ branch'[n] = branch[n])
      BY <1>1, <2>6 DEF GitOK
    <3> QED BY <1>7, <2>3, <2>6, <3>1
  <2> QED BY <1>8, <2>4, <2>5, <2>6 DEF Add
<1>9. CASE Detach(c)
  <2>1. op[c].step = "detach"
    BY <1>9 DEF Detach
  <2>2. n \notin half => Tells(journal, n, place[n], branch[n])
    BY <1>4, <2>1 DEF Untouched
  <2>3. UNCHANGED branch
    BY <1>9 DEF Detach
  <2>4. CASE /\ place' = [place EXCEPT ![n] = "none"]
             /\ Continue(c, "unbranch")
    <3>1. place'[n] # "worktree" /\ op[c].kind # "keep"
      BY <1>1, <2>1, <2>4 DEF GitOK, TypeInv, OpShape, Idle
    <3> QED BY <1>6, <2>4, <3>1
  <2>5. CASE Raise(c, FALSE) /\ UNCHANGED place
    BY <1>7, <2>2, <2>3, <2>5
  <2>6. CASE Raise(c, TRUE)
    BY <1>7, <2>6
  <2> QED BY <1>9, <2>4, <2>5, <2>6 DEF Detach
<1>10. CASE Unbranch(c)
  <2>1. op[c].step = "unbranch"
    BY <1>10 DEF Unbranch
  <2>2. op[c].kind = "remove"
    BY <2>1 DEF TypeInv, OpShape, Kinds, Idle
  <2>3. c \notin crossed => place'[n] # "worktree"
    BY <1>4, <1>10, <2>1 DEF Effect, Unbranch
  <2>4. CASE /\ branch' = [branch EXCEPT ![n] = FALSE]
             /\ Continue(c, "append")
    <3>1. ~branch'[n]
      BY <1>1, <2>4 DEF GitOK
    <3> QED BY <1>6, <2>2, <2>3, <2>4, <3>1
  <2>5. CASE Raise(c, TRUE)
    BY <1>7, <2>5
  <2> QED BY <1>10, <2>4, <2>5 DEF Unbranch
<1> QED BY <1>8, <1>9, <1>10

\* The event is written, or the operation is over without it.
LEMMA AppendTells ==
  ASSUME TypeInv, JournalInv, NEW c \in Callers, AppendEvent(c)
  PROVE  JournalInv'
<1> DEFINE n == op[c].name
           e == EventOf(c)
<1>1. /\ op[c].step = "append" /\ op[c] # Idle
      /\ e \in Events /\ e.name = n /\ e.kind = op[c].kind
  BY EventIsEvent DEF AppendEvent
<1>2. n \in Names /\ OpOK /\ op[c].kind \in Kinds /\ journal \in Seq(Events)
  BY <1>1 DEF TypeInv, OpShape, LogOK
<1>3. UNCHANGED <<place, branch>>
  BY DEF AppendEvent, gitVars
<1>4. /\ n \notin half => Untouched(journal, n, op[c].kind, "append", place[n], branch[n])
      /\ c \notin crossed => Effect(op[c].kind, "append", place[n], branch[n])
      /\ half \subseteq Names /\ (c \in crossed => n \in half)
  BY <1>1, <1>2 DEF JournalInv, InProgress, OneAtATime, OpOK
<1>5. /\ op'[c] = Idle /\ \A d \in Callers \ {c} : op'[d] = op[d]
      /\ crossed' = crossed \ {c}
      /\ half' \subseteq half \cup {n} /\ half \ {n} \subseteq half'
      /\ (c \in crossed \/ op[c].kind = "keep") /\ n \in half => n \in half'
      /\ \/ journal' = Append(journal, e)
         \/ journal' = journal /\ (op[c].kind # "keep" => n \in half')
  <2>1. op' = [op EXCEPT ![c] = Idle]
    BY DEF AppendEvent, Raise
  <2>2. op'[c] = Idle /\ \A d \in Callers \ {c} : op'[d] = op[d]
    BY <1>2, <2>1, RaiseOp
  <2> QED BY <2>2 DEF AppendEvent, Raise
<1> HIDE DEF n, e
<1>6. /\ \A k \in Names \ {n} : Recorded(journal', k) <=> Recorded(journal, k)
      /\ n \notin half' => Tells(journal', n, place[n], branch[n])
  <2>1. CASE journal' = Append(journal, e)
    <3>1. Recorded(journal', n) <=> op[c].kind # "remove"
      BY <1>1, <1>2, <2>1, AppendRecords
    <3>2. \A k \in Names \ {n} : Recorded(journal', k) <=> Recorded(journal, k)
      BY <1>1, <1>2, <2>1, AppendRecords
    <3>3. CASE op[c].kind = "keep"
      <4>1. n \notin half' => n \notin half
        BY <1>5, <3>3
      <4> QED BY <1>4, <3>1, <3>2, <3>3, <4>1 DEF Untouched, Tells
    <3>4. CASE op[c].kind # "keep"
      <4>1. n \notin half' => c \notin crossed
        BY <1>4, <1>5
      <4> QED BY <1>2, <1>4, <3>1, <3>2, <3>4, <4>1 DEF Effect, Tells, Kinds
    <3> QED BY <3>3, <3>4
  <2>2. CASE journal' = journal /\ (op[c].kind # "keep" => n \in half')
    <3>1. \A k \in Names : Recorded(journal', k) <=> Recorded(journal, k)
      BY <2>2 DEF Recorded
    <3>2. n \notin half' => Tells(journal, n, place[n], branch[n])
      BY <1>4, <1>5, <2>2 DEF Untouched
    <3> QED BY <1>2, <3>1, <3>2 DEF Tells
  <2> QED BY <1>5, <2>1, <2>2
<1>7. op'[c].name # n
  BY <1>2, <1>5, IdleHasNoName
<1>8. /\ \A k \in Names \ {n} : k \in half' <=> k \in half
      /\ half' \subseteq Names /\ (c \in crossed => n \in half')
  BY <1>2, <1>4, <1>5
<1> QED BY <1>2, <1>3, <1>5, <1>6, <1>7, <1>8, OperationTells DEF n

\* An operation starts on a name at rest, or makes it one to be distrusted.
LEMMA BeginTells ==
  ASSUME TypeInv, JournalInv, NEW c \in Callers, NEW kind \in Kinds, NEW call \in CallIds,
         NEW n \in Names, NEW t \in Tasks \cup {NoTask}, NEW discard \in BOOLEAN, NEW s,
         \/ kind = "create" /\ s = "add"
         \/ kind = "remove" /\ s \in {"detach", "inspect"}
         \/ kind = "keep" /\ s = "confirm",
         Begin(c, kind, call, n, t, discard, s)
  PROVE  JournalInv'
<1>1. /\ op'[c].name = n /\ op'[c].kind = kind /\ op'[c].step = s
      /\ \A d \in Callers \ {c} : op'[d] = op[d]
  <2>1. /\ op'[c] = [kind |-> kind, call |-> call, name |-> n, task |-> t,
                      discard |-> discard, step |-> s]
        /\ \A d \in Callers \ {c} : op'[d] = op[d]
    BY BeginTypes
  <2> QED BY <2>1
<1>2. /\ op[c] = Idle /\ UNCHANGED <<place, branch, journal>>
      /\ LET others == {d \in Callers : op[d].name = n} IN
           \/ others = {} /\ half' = half /\ crossed' = crossed
           \/ /\ others # {} /\ half' = half \cup {n}
              /\ crossed' = crossed \cup others \cup {c}
      /\ half \subseteq Names
  BY DEF Begin, Free, gitVars, logVars, TypeInv, OpOK
<1>3. \A k \in Names : Recorded(journal', k) <=> Recorded(journal, k)
  BY <1>2 DEF Recorded
<1>4. \A k \in Names : 
        Tells(journal', k, place'[k], branch'[k]) <=> Tells(journal, k, place[k], branch[k])
  BY <1>2, <1>3 DEF Tells
<1>5. InProgress'
  <2> SUFFICES ASSUME NEW d \in Callers, op'[d].name \in Names
               PROVE  /\ d \notin crossed' =>
                           Effect(op'[d].kind, op'[d].step,
                                  place'[op'[d].name], branch'[op'[d].name])
                      /\ op'[d].name \notin half' =>
                           Untouched(journal', op'[d].name, op'[d].kind, op'[d].step,
                                     place'[op'[d].name], branch'[op'[d].name])
    BY DEF InProgress
  <2>1. CASE d = c
    <3>1. n \notin half' => Tells(journal', n, place'[n], branch'[n])
      <4>1. n \notin half' => n \notin half /\ \A k \in Callers : op[k].name # n
        BY <1>2
      <4> QED BY <1>4, <4>1, AtRest
    <3>2. n \notin half' => Untouched(journal', n, kind, s, place'[n], branch'[n])
      BY <3>1 DEF Untouched
    <3>3. Effect(kind, s, place'[n], branch'[n])
      BY DEF Effect
    <3> QED BY <1>1, <2>1, <3>2, <3>3
  <2>2. CASE d # c
    <3> DEFINE k == op[d].name
    <3>1. op'[d] = op[d] /\ k \in Names
      BY <1>1, <2>2
    <3>2. /\ d \notin crossed => Effect(op[d].kind, op[d].step, place[k], branch[k])
          /\ k \notin half =>
               Untouched(journal, k, op[d].kind, op[d].step, place[k], branch[k])
      BY <3>1 DEF JournalInv, InProgress
    <3>3. (k \in half => k \in half') /\ (d \in crossed => d \in crossed')
      BY <1>2
    <3> HIDE DEF k
    <3>4. /\ d \notin crossed' => Effect(op[d].kind, op[d].step, place'[k], branch'[k])
          /\ k \notin half' =>
               Untouched(journal', k, op[d].kind, op[d].step, place'[k], branch'[k])
      BY <1>2, <1>4, <3>1, <3>2, <3>3 DEF Untouched
    <3> QED BY <3>1, <3>4 DEF k
  <2> QED BY <2>1, <2>2
<1>6. OneAtATime'
  <2>1. ASSUME NEW a \in Callers, NEW b \in Callers, a # b, op'[a].name = op'[b].name,
               op'[a].name \in Names
        PROVE  a \in crossed'
    <3>1. CASE a # c /\ b # c
      <4>1. a \in crossed
        BY <1>1, <2>1, <3>1 DEF JournalInv, OneAtATime
      <4> QED BY <1>2, <4>1
    <3>2. CASE a = c \/ b = c
      BY <1>1, <1>2, <2>1, <3>2
    <3> QED BY <3>1, <3>2
  <2>2. ASSUME NEW a \in crossed' PROVE op'[a].name \in half'
    <3>1. c \notin crossed
      BY <1>2, IdleHasNoName DEF JournalInv, OneAtATime
    <3>2. CASE a \in crossed
      <4>1. a \in Callers /\ a # c /\ op[a].name \in half
        BY <3>1, <3>2 DEF JournalInv, OneAtATime, TypeInv, OpOK
      <4> QED BY <1>1, <1>2, <4>1
    <3>3. CASE a \notin crossed
      <4>1. n \in half' /\ (a = c \/ (a \in Callers /\ op[a].name = n))
        BY <1>2, <2>2, <3>3
      <4> QED BY <1>1, <4>1
    <3> QED BY <3>2, <3>3
  <2> QED BY <2>1, <2>2 DEF OneAtATime
<1>7. JournalTellsGit'
  <2> SUFFICES ASSUME NEW k \in Names, k \notin half', \A d \in Callers : op'[d].name # k
               PROVE  Tells(journal', k, place'[k], branch'[k])
    BY DEF JournalTellsGit, Tells
  <2>1. k \notin half /\ \A d \in Callers : op[d].name # k
    BY <1>1, <1>2, IdleHasNoName
  <2> QED BY <1>4, <2>1, AtRest
<1> QED BY <1>5, <1>6, <1>7 DEF JournalInv

\* The names of the operations a crash stopped after their first effect are to be
\* distrusted; the others had no effect.
LEMMA CrashTells ==
  ASSUME TypeInv, JournalInv, Crash
  PROVE  JournalInv'
<1>1. /\ \A c \in Callers : op'[c] = Idle
      /\ crossed' = {} /\ UNCHANGED <<place, branch, journal>>
  BY DEF Crash, gitVars
<1>2. /\ half \subseteq half'
      /\ \A c \in Callers : op[c].step \in {"bind", "unbranch", "append"} => op[c].name \in half'
  BY DEF Crash
<1>3. JournalTellsGit'
  <2> SUFFICES ASSUME NEW k \in Names, k \notin half'
               PROVE  Tells(journal', k, place'[k], branch'[k])
    BY DEF JournalTellsGit, Tells
  <2>1. Tells(journal, k, place[k], branch[k])
    <3>1. ASSUME NEW c \in Callers, op[c].name = k
          PROVE  Tells(journal, k, place[k], branch[k])
      <4>1. Untouched(journal, k, op[c].kind, op[c].step, place[k], branch[k])
        BY <1>2, <3>1 DEF JournalInv, InProgress
      <4>2. op[c] # Idle
        BY <3>1, IdleHasNoName
      <4>3. op[c].step \in {"add", "inspect", "detach", "confirm"}
        BY <1>2, <3>1, <4>2 DEF TypeInv, OpShape, Kinds
      <4> QED BY <4>1, <4>3 DEF Untouched
    <3> QED BY <1>2, <3>1, AtRest
  <2> QED BY <1>1, <2>1 DEF Tells, Recorded
<1> QED BY <1>1, <1>3, IdleHasNoName DEF JournalInv, InProgress, OneAtATime

\* The members make no worktree and remove none: a directory they write in comes
\* back as a plain one.
LEMMA QuietTells ==
  ASSUME JournalInv, UNCHANGED <<op, half, crossed, journal, branch>>,
         \A n \in Names : place'[n] = "worktree" <=> place[n] = "worktree"
  PROVE  JournalInv'
<1>1. \A n \in Names : Recorded(journal', n) <=> Recorded(journal, n)
  BY DEF Recorded
<1>2. \A n \in Names : 
        Tells(journal', n, place'[n], branch'[n]) <=> Tells(journal, n, place[n], branch[n])
  BY <1>1 DEF Tells
<1>3. InProgress'
  BY <1>2 DEF JournalInv, InProgress, Untouched, Effect
<1>4. OneAtATime'
  BY DEF JournalInv, OneAtATime
<1>5. JournalTellsGit'
  <2> SUFFICES ASSUME NEW k \in Names, k \notin half', \A d \in Callers : op'[d].name # k
               PROVE  Tells(journal', k, place'[k], branch'[k])
    BY DEF JournalTellsGit, Tells
  <2> QED BY <1>2, AtRest
<1> QED BY <1>3, <1>4, <1>5 DEF JournalInv

LEMMA MemberTells ==
  ASSUME TypeInv, JournalInv, MemberStep
  PROVE  JournalInv'
<1>1. UNCHANGED <<op, half, crossed, journal, branch>>
  BY DEF MemberStep, Claim, StartRun, OpenFile, WriteFile, Commit, Push,
     StartBackground, EndRun, RunBackground, gitVars, logVars
<1>2. ASSUME NEW d \in Directories, NEW w, Written(d, w)
      PROVE  \A n \in Names : place'[n] = "worktree" <=> place[n] = "worktree"
  BY <1>2 DEF Written, TypeInv, GitOK, Directories
<1>3. \A n \in Names : place'[n] = "worktree" <=> place[n] = "worktree"
  <2>1. ASSUME NEW m \in Members, WriteFile(m)
        PROVE  \A n \in Names : place'[n] = "worktree" <=> place[n] = "worktree"
    <3>1. cwd[m] \in Directories
      BY DEF TypeInv, MemberOK
    <3> QED BY <1>2, <2>1, <3>1 DEF WriteFile
  <2>2. ASSUME NEW b \in background, RunBackground(b)
        PROVE  \A n \in Names : place'[n] = "worktree" <=> place[n] = "worktree"
    <3>1. b.cwd \in Directories
      BY DEF TypeInv, MemberOK
    <3> QED BY <1>2, <2>2, <3>1 DEF RunBackground, BackgroundDirectory
  <2>3. CASE UNCHANGED place
    BY <2>3
  <2>4. \/ UNCHANGED place
        \/ \E m \in Members : WriteFile(m)
        \/ \E b \in background : RunBackground(b)
    BY DEF MemberStep, Claim, StartRun, OpenFile, Commit, Push, StartBackground,
       EndRun, gitVars
  <2> QED BY <2>1, <2>2, <2>3, <2>4
<1> QED BY <1>1, <1>3, QuietTells

LEMMA JournalInvInductive == WorktreeSpec => []JournalInv
<1>1. WorktreeInit => JournalInv
  <2> SUFFICES ASSUME WorktreeInit PROVE JournalInv
    OBVIOUS
  <2>1. \A c \in Callers : op[c] = Idle
    BY DEF WorktreeInit
  <2>2. \A n \in Names : ~Recorded(journal, n)
    BY DEF WorktreeInit, Recorded
  <2>3. JournalTellsGit
    BY <2>2 DEF WorktreeInit, JournalTellsGit
  <2>4. crossed = {}
    BY DEF WorktreeInit
  <2> QED BY <2>1, <2>3, <2>4, IdleHasNoName DEF JournalInv, InProgress, OneAtATime
<1>2. TypeInv /\ JournalInv /\ [WorktreeNext]_worktreeVars => JournalInv'
  <2> SUFFICES ASSUME TypeInv, JournalInv, [WorktreeNext]_worktreeVars PROVE JournalInv'
    OBVIOUS
  <2>1. ASSUME UNCHANGED worktreeVars PROVE JournalInv'
    BY <2>1, QuietTells DEF worktreeVars, gitVars, logVars
  <2>2. CASE BeginOperation
    <3>1. PICK c \in Callers, call \in CallIds, n \in Names :
             \/ \E t \in Tasks \cup {NoTask} : BeginCreate(c, call, n, t)
             \/ \E discard \in BOOLEAN : BeginRemove(c, call, n, discard)
             \/ BeginKeep(c, call, n)
             \/ \E kind \in Kinds : Replay(c, kind, call)
             \/ RefuseTorn(c)
      BY <2>2 DEF BeginOperation
    <3>2. ASSUME NEW t \in Tasks \cup {NoTask}, BeginCreate(c, call, n, t) PROVE JournalInv'
      BY <3>2, BeginTells DEF BeginCreate, Kinds
    <3>3. ASSUME NEW discard \in BOOLEAN, BeginRemove(c, call, n, discard) PROVE JournalInv'
      BY <3>3, BeginTells DEF BeginRemove, Kinds
    <3>4. CASE BeginKeep(c, call, n)
      BY <3>4, BeginTells DEF BeginKeep, Kinds
    <3>5. CASE (\E kind \in Kinds : Replay(c, kind, call)) \/ RefuseTorn(c)
      BY <2>1, <3>5 DEF Replay, RefuseTorn
    <3> QED BY <3>1, <3>2, <3>3, <3>4, <3>5
  <2>3. CASE OperationStep
    BY <2>3, LookTells, GitTells, AppendTells DEF OperationStep
  <2>4. CASE MemberStep
    BY <2>4, MemberTells
  <2>5. CASE Crash
    BY <2>5, CrashTells
  <2> QED BY <2>1, <2>2, <2>3, <2>4, <2>5 DEF WorktreeNext
<1> QED BY <1>1, <1>2, TypeInvInductive, PTL DEF WorktreeSpec

\* The journal says of every worktree that is not being worked on what Git has of
\* it: it may be wrong about a name on which an operation stopped half way or two
\* met, but only until a creation or a removal alone on that name goes through.
THEOREM JournalIsTrue == WorktreeSpec => []JournalTellsGit
<1>1. JournalInv => JournalTellsGit
  BY DEF JournalInv
<1> QED BY <1>1, JournalInvInductive, PTL
=============================================================================
