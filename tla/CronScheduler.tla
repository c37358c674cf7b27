---------------------------- MODULE CronScheduler ----------------------------
(***************************************************************************)
(* Scheduled prompts (cron/): the definitions, a durable file and a table  *)
(* in memory; the scheduler thread that turns a due definition into a      *)
(* trigger and records that it did; the queue; and the processor thread    *)
(* that runs the triggers one by one while it holds the execution gate.    *)
(* Threads that execute the cron tools add and remove definitions at any   *)
(* moment: team members run tools without the gate.                        *)
(*                                                                         *)
(* The file has no lock: every operation loads the whole of it and then    *)
(* replaces it, and writing[w] is the content w is about to write.  The    *)
(* table in memory and the queue have a lock each, so an operation on one  *)
(* of them is a step.  A job stands for the arguments of one schedule      *)
(* call; what the files keep of it is the minute it was last enqueued.     *)
(***************************************************************************)
EXTENDS CronExpression, Sequences

CONSTANTS
  Jobs,         \* identifiers of definitions, in the order of created_at
  Durable,      \* the jobs of durable scope, the others are session-only
  Recurring,    \* the recurring jobs, the others fire once
  Expression,   \* what its schedule call passes as the cron expression of a job
  Calendar,     \* the local time of each minute of the clock
  Callers,      \* threads that call schedule and cancel
  Scheduler,    \* the scheduler thread
  None,         \* no definition, nothing to write, nobody
  MaxMinute,    \* bound on the clock
  MaxPrompts,   \* bound on the Runs of other holders of the gate
  MaxFailures   \* bound on crashes and on file operations that raise OSError

Minutes == 1 .. MaxMinute

\* last_enqueued_minute of a definition; 0 when it was never enqueued
Marks == 0 .. MaxMinute
Definitions == [Jobs -> Marks \cup {None}]

Writers == Callers \cup {Scheduler}

ASSUME JobsAreOrdered == Jobs \subseteq Nat
ASSUME KindsOfJobs == Durable \subseteq Jobs /\ Recurring \subseteq Jobs
ASSUME OfJobsAndMinutes ==
  /\ DOMAIN Expression = Jobs /\ DOMAIN Calendar = Minutes
  /\ \A m \in Minutes : Calendar[m].weekday \in 0 .. 6   \* from Monday
ASSUME SchedulerIsNoCaller == Scheduler \notin Callers
ASSUME NoneIsNothing ==
  /\ None \notin Marks \cup Callers /\ None \notin Definitions
  /\ None \notin {"processor", "other"}
ASSUME Bounds ==
  MaxMinute \in Nat \ {0} /\ {MaxPrompts, MaxFailures} \subseteq Nat

VARIABLES
  clock,      \* the current minute
  created,    \* identifiers the generator has given out
  file,       \* scheduled_tasks.json
  memory,     \* the session-only definitions
  writing,    \* what a thread that has loaded the file is about to write
  step,       \* where the scheduler thread is
  now,        \* the minute its tick is about
  todo,       \* the definitions it listed and has not checked yet
  marked,     \* _last_enqueued_minutes
  retired,    \* _retired_task_ids
  queue,      \* triggers not acknowledged
  gate,       \* who holds the execution gate
  prompts,    \* Runs of other holders so far
  fired,      \* history: the triggers enqueued by this process
  ran,        \* history: the triggers whose prompt was run
  faults,     \* file operations that raised so far
  restarts    \* crashes so far

definitions == <<created, file, memory, writing>>
scheduling == <<step, now, todo, marked, retired, fired>>
delivery == <<gate, prompts, ran>>
vars == <<clock, definitions, scheduling, queue, delivery, faults, restarts>>

\* The minutes the expression of a job matches
Due ==
  [j \in Jobs |->
     {m \in Minutes : Parses(Expression[j]) /\ Matches(Expression[j], Calendar[m])}]

First(S) == CHOOSE j \in S : \A k \in S : j <= k
Left == {j \in Jobs : todo[j] # None}
Absent == [j \in Jobs |-> None]
Idle == [w \in Writers |-> None]

\* add, replace and remove of the table in memory: one step behind its lock.
Remember(j, mark) == memory' = [memory EXCEPT ![j] = mark]

\* add, replace and remove of the file, up to the write.
Load(w, j, mark) == writing' = [writing EXCEPT ![w] = [file EXCEPT ![j] = mark]]

\* A file operation may raise OSError.
Fault == faults + restarts < MaxFailures /\ faults' = faults + 1

-----------------------------------------------------------------------------
Init ==
  /\ clock = 1
  /\ created = {}
  /\ file = Absent /\ memory = Absent
  /\ writing = Idle
  /\ step = "rest" /\ now = 1 /\ todo = Absent
  /\ marked = [j \in Jobs |-> 0] /\ retired = {}
  /\ queue = <<>> /\ gate = None /\ prompts = 0
  /\ fired = <<>> /\ ran = <<>>
  /\ faults = 0 /\ restarts = 0

Minute ==
  /\ clock < MaxMinute
  /\ clock' = clock + 1
  /\ UNCHANGED <<definitions, scheduling, queue, delivery, faults, restarts>>

-----------------------------------------------------------------------------
(* schedule and cancel *)

\* The expression parses and the identifier is new.  The file is loaded here and
\* replaced in Write.
Schedule(c, j) ==
  /\ writing[c] = None
  /\ Parses(Expression[j])
  /\ \A k \in created : k < j
  /\ created' = created \cup {j}
  /\ IF j \in Durable
     THEN Load(c, j, 0) /\ UNCHANGED memory
     ELSE Remember(j, 0) /\ UNCHANGED writing
  /\ UNCHANGED <<clock, file, scheduling, queue, delivery, faults, restarts>>

\* A job that is nowhere is refused, one that is found is removed from where
\* it is.
Cancel(c, j) ==
  /\ writing[c] = None
  /\ \/ file[j] # None /\ Load(c, j, None) /\ UNCHANGED memory
     \/ memory[j] # None /\ Remember(j, None) /\ UNCHANGED writing
  /\ UNCHANGED <<clock, created, file, scheduling, queue, delivery, faults, restarts>>

\* _write_all: the file is replaced at once, or stays as it is.
Replaces(w) ==
  /\ writing[w] # None
  /\ writing' = [writing EXCEPT ![w] = None]
  /\ \/ file' = writing[w] /\ UNCHANGED faults
     \/ Fault /\ UNCHANGED file

Write(c) ==
  /\ Replaces(c)
  /\ UNCHANGED <<clock, created, memory, scheduling, queue, delivery, restarts>>

-----------------------------------------------------------------------------
(* CronScheduler.tick *)

TickBegin ==
  /\ step = "rest"
  /\ step' = "list"
  /\ now' = clock
  /\ UNCHANGED <<clock, definitions, todo, marked, retired, fired, queue,
                 delivery, faults, restarts>>

\* list_visible_to_session.  Its exception is caught nowhere: it ends the
\* thread.
TickList ==
  /\ step = "list"
  /\ \/ /\ todo' = [j \in Jobs |-> IF j \in Durable THEN file[j] ELSE memory[j]]
        /\ step' = "check"
        /\ UNCHANGED faults
     \/ Fault /\ step' = "dead" /\ UNCHANGED todo
  /\ UNCHANGED <<clock, definitions, now, marked, retired, fired, queue,
                 delivery, restarts>>

\* Mutant: one marker for all the jobs.
EnqueuedShared(j) ==
  j \in retired \/ (\E k \in Jobs : marked[k] = now) \/ todo[j] = now

\* The job is not to be enqueued (again) for this minute.
Enqueued(j) == j \in retired \/ marked[j] = now \/ todo[j] = now

\* Mutant: only the definition says that it was enqueued.
TriggerUnmarked(j) ==
  /\ queue' = Append(queue, <<j, now>>)
  /\ fired' = Append(fired, <<j, now>>)
  /\ retired' = IF j \in Recurring THEN retired ELSE retired \cup {j}
  /\ UNCHANGED marked

\* Mutant: the trigger has its fields in the wrong order.
TriggerSwapped(j) ==
  /\ queue' = Append(queue, <<now, j>>)
  /\ fired' = Append(fired, <<now, j>>)
  /\ marked' = [marked EXCEPT ![j] = now]
  /\ retired' = IF j \in Recurring THEN retired ELSE retired \cup {j}

\* The trigger is enqueued and the process remembers it.
Trigger(j) ==
  /\ queue' = Append(queue, <<j, now>>)
  /\ fired' = Append(fired, <<j, now>>)
  /\ marked' = [marked EXCEPT ![j] = now]
  /\ retired' = IF j \in Recurring THEN retired ELSE retired \cup {j}

\* _enqueue_if_due, up to the change of the definition
TickCheck ==
  /\ step = "check" /\ Left # {}
  /\ LET j == First(Left) IN
       \/ /\ ~Enqueued(j) /\ now \in Due[j]
          /\ Trigger(j)
          /\ step' = "record"
          /\ UNCHANGED todo
       \/ /\ Enqueued(j) \/ now \notin Due[j]
          /\ todo' = [todo EXCEPT ![j] = None]
          /\ UNCHANGED <<step, queue, fired, marked, retired>>
  /\ UNCHANGED <<clock, definitions, now, delivery, faults, restarts>>

\* replace with the minute, or remove: of the definition as it is now if it
\* is still there.  The exception of a definition that is gone, or of the file,
\* ends the check of this job only.
TickRecord ==
  /\ step = "record"
  /\ LET j == First(Left)
         mark == IF j \in Recurring THEN now ELSE None
     IN \/ /\ j \in Durable /\ file[j] # None
           /\ Load(Scheduler, j, mark)
           /\ step' = "write"
           /\ UNCHANGED <<memory, todo, faults>>
        \/ /\ IF j \in Durable THEN \/ file[j] = None /\ UNCHANGED faults
                                    \/ Fault
                               ELSE UNCHANGED faults
           /\ IF memory[j] = None THEN UNCHANGED memory ELSE Remember(j, mark)
           /\ step' = "check"
           /\ todo' = [todo EXCEPT ![j] = None]
           /\ UNCHANGED writing
  /\ UNCHANGED <<clock, created, file, now, marked, retired, fired, queue,
                 delivery, restarts>>

TickWrite ==
  /\ step = "write"
  /\ Replaces(Scheduler)
  /\ step' = "check"
  /\ todo' = [todo EXCEPT ![First(Left)] = None]
  /\ UNCHANGED <<clock, created, memory, now, marked, retired, fired, queue,
                 delivery, restarts>>

TickEnd ==
  /\ step = "check" /\ Left = {}
  /\ step' = "rest"
  /\ UNCHANGED <<clock, definitions, now, todo, marked, retired, fired, queue,
                 delivery, faults, restarts>>

-----------------------------------------------------------------------------
(* The queue processor and the others that need the gate *)

\* process_once up to run_prompt: nothing is done while the gate is held.
ProcessBegin ==
  /\ queue # <<>> /\ gate = None
  /\ gate' = "processor"
  /\ ran' = Append(ran, Head(queue))
  /\ UNCHANGED <<clock, definitions, scheduling, queue, prompts, faults, restarts>>

\* Mutant: a trigger whose Run failed stays in the queue.
ProcessEndRetry ==
  /\ gate = "processor"
  /\ gate' = None
  /\ queue' \in {queue, Tail(queue)}
  /\ UNCHANGED <<clock, definitions, scheduling, prompts, ran, faults, restarts>>

\* Mutant: the gate is released only when the Run ends well.
ProcessEndHolding ==
  /\ gate = "processor"
  /\ gate' \in {"leaked", None}
  /\ queue' = Tail(queue)
  /\ UNCHANGED <<clock, definitions, scheduling, prompts, ran, faults, restarts>>

\* The Run ended, well or with an exception: acknowledge, then release.
ProcessEnd ==
  /\ gate = "processor"
  /\ gate' = None
  /\ queue' = Tail(queue)
  /\ UNCHANGED <<clock, definitions, scheduling, prompts, ran, faults, restarts>>

\* A prompt of the user, or a Run of the team's lead
OtherBegin ==
  /\ gate = None /\ prompts < MaxPrompts
  /\ gate' = "other"
  /\ prompts' = prompts + 1
  /\ UNCHANGED <<clock, definitions, scheduling, queue, ran, faults, restarts>>

OtherEnd ==
  /\ gate = "other"
  /\ gate' = None
  /\ UNCHANGED <<clock, definitions, scheduling, queue, prompts, ran, faults, restarts>>

-----------------------------------------------------------------------------
\* The process dies and is started again: the file alone is left.
Restart ==
  /\ faults + restarts < MaxFailures
  /\ restarts' = restarts + 1
  /\ memory' = Absent
  /\ writing' = Idle
  /\ step' = "rest" /\ now' = clock /\ todo' = Absent
  /\ marked' = [j \in Jobs |-> 0] /\ retired' = {}
  /\ queue' = <<>> /\ gate' = None
  /\ fired' = <<>> /\ ran' = <<>>
  /\ UNCHANGED <<clock, created, file, prompts, faults>>

SchedulerStep ==
  TickBegin \/ TickList \/ TickCheck \/ TickRecord \/ TickWrite \/ TickEnd

CallerStep(c) == Write(c) \/ \E j \in Jobs : Schedule(c, j) \/ Cancel(c, j)

Next ==
  \/ Minute \/ SchedulerStep \/ ProcessBegin \/ ProcessEnd
  \/ OtherBegin \/ OtherEnd \/ Restart
  \/ \E c \in Callers : CallerStep(c)

Spec == Init /\ [][Next]_vars

\* The two threads poll for ever and a Run takes a bounded number of turns.
Fairness ==
  /\ WF_vars(SchedulerStep)
  /\ WF_vars(ProcessBegin) /\ WF_vars(ProcessEnd) /\ WF_vars(OtherEnd)

FairSpec == Spec /\ Fairness

-----------------------------------------------------------------------------
\* Every variable has the shape its code gives it.
TypeOK ==
  /\ clock \in Minutes
  /\ created \subseteq Jobs
  /\ file \in Definitions /\ memory \in Definitions
  /\ writing \in [Writers -> Definitions \cup {None}]
  /\ step \in {"rest", "list", "check", "record", "write", "dead"}
  /\ now \in Minutes
  /\ todo \in Definitions
  /\ marked \in [Jobs -> Marks]
  /\ retired \subseteq Jobs
  /\ queue \in Seq(Jobs \X Minutes)
  /\ gate \in {None, "processor", "other"}
  /\ prompts \in 0 .. MaxPrompts
  /\ fired \in Seq(Jobs \X Minutes)
  /\ ran \in Seq(Jobs \X Minutes)
  /\ faults \in 0 .. MaxFailures
  /\ restarts \in 0 .. MaxFailures

\* While the process lives, a job is never triggered twice for one minute, and
\* one that is not recurring is triggered once, whatever other threads or failing
\* writes do to their definitions between two ticks.
TriggeredOnce ==
  \A m, n \in 1 .. Len(fired) :
    /\ fired[m] = fired[n] => m = n
    /\ fired[m][1] = fired[n][1] /\ fired[m][1] \notin Recurring => m = n

\* What a field says of a value, read as cron's manual reads it.
Says(field, i, v) ==
  CASE field.form = "any" -> TRUE
    [] field.form = "every" -> (v - Lowest[i]) % field.n = 0
    [] field.form = "list" -> \E n \in field.of : v = n
    [] field.form = "span" -> field.from <= v /\ v <= field.to
    [] field.form = "only" -> v = field.n

\* An expression names a time if all five fields do, where of two days that
\* are both restricted one is enough.
Names(expression, time) ==
  LET values == <<time.minute, time.hour, time.day, time.month,
                  IF time.weekday = 6 THEN 0 ELSE time.weekday + 1>>
      Agrees(i) == Says(expression[i], i, values[i])
  IN /\ Agrees(1) /\ Agrees(2) /\ Agrees(4)
     /\ IF Any \in {expression[3], expression[5]} THEN Agrees(3) /\ Agrees(5)
                                                  ELSE Agrees(3) \/ Agrees(5)

Named == [j \in Jobs |-> {m \in Minutes : Names(Expression[j], Calendar[m])}]

\* A trigger is for a minute its job's expression names, over the turn of an
\* hour, a day, a week and a month.  DueIsTriggered has the converse.
FiresAsWritten ==
  \A n \in 1 .. Len(fired) : fired[n][2] \in Named[fired[n][1]]

\* Prompts are run in the order of their triggers, each at most once and none
\* left out, also when a Run fails: what is queued is what was not run yet, and
\* the trigger whose Run is in progress.
DeliveredInOrder ==
  LET busy == IF gate = "processor" THEN 1 ELSE 0
  IN /\ Len(ran) + Len(queue) = Len(fired) + busy
     /\ \A n \in 1 .. Len(ran) : ran[n] = fired[n]
     /\ \A n \in 1 .. Len(queue) : queue[n] = fired[Len(ran) - busy + n]

\* The queue empties, however the Runs of the user and of the triggers end, as
\* long as other holders do not come for the gate without end.
QueueDrains == queue # <<>> ~> queue = <<>>

\* The definition is due, and neither it nor the process says it was enqueued.
Waiting(j) ==
  LET mark == IF j \in Durable THEN file[j] ELSE memory[j]
  IN /\ clock \in Named[j] /\ mark \notin {None, clock}
     /\ j \notin retired /\ \A n \in 1 .. Len(fired) : fired[n] # <<j, clock>>

\* No definition waits for ever in a minute it is due in, although the others
\* are triggered in the same tick and may fail: only a list operation that
\* raises stops the scheduler for good.
DueIsTriggered == \A j \in Jobs : []<>(~Waiting(j) \/ step = "dead")

\* An operation of the durable file replaces, adds or removes one definition
\* and leaves the others as they are.
OneDefinitionChanges ==
  [][\A j, k \in Jobs : file'[j] # file[j] /\ file'[k] # file[k] => j = k]_file
=============================================================================
