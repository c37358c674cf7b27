-------------------------- MODULE CronSchedulerProofs --------------------------
(***************************************************************************)
(* The safety properties of CronScheduler, for any jobs and expressions,   *)
(* any calendar, any number of callers, failures and restarts.  None of    *)
(* them depends on the definitions on file, which other threads may undo:  *)
(* that no trigger is doubled follows from what the process remembers      *)
(* (Remembers), that none is lost or overtaken from what the queue and the *)
(* two histories have in common (AtATrigger), and that each is for a       *)
(* minute its expression names from the matcher alone (MatchesNamed).      *)
(***************************************************************************)
EXTENDS CronScheduler, TLAPS, WellFoundedInduction

-----------------------------------------------------------------------------
\* The scheduler is at a job of its tick.
AtAJob == step \in {"record", "write"} => Left # {}

\* The markers are as late as the triggers, and no later than the tick; a job
\* that fires once is retired with its trigger.
Remembers ==
  /\ now <= clock
  /\ \A j \in Jobs : marked[j] <= now
  /\ \A n \in 1 .. Len(fired) :
       /\ fired[n][2] <= marked[fired[n][1]]
       /\ fired[n][1] \in Recurring \cup retired

\* The trigger that is run stays at the head of the queue.
AtATrigger == gate = "processor" => queue # <<>> /\ ran # <<>>

FiredWhenDue == \A n \in 1 .. Len(fired) : fired[n][2] \in Due[fired[n][1]]

IInv ==
  /\ TypeOK /\ AtAJob /\ AtATrigger
  /\ Remembers /\ TriggeredOnce /\ DeliveredInOrder /\ FiredWhenDue

-----------------------------------------------------------------------------
(* The first of the jobs left in a tick is one of them. *)

LEMMA LeastOfSet ==
  ASSUME NEW S, S \subseteq Nat, S # {}
  PROVE  \E t \in S : \A u \in S : t <= u
<1> DEFINE Less == OpToRel(<, Nat)
<1>1. \E x \in S : \A y \in S : <<y, x>> \notin Less
  BY NatLessThanWellFounded, WFMin
<1>2. PICK x \in S : \A y \in S : <<y, x>> \notin Less
  BY <1>1
<1>3. \A y \in S : ~(y < x)
  BY <1>2 DEF OpToRel
<1> QED BY <1>3

LEMMA FirstIsMember ==
  ASSUME NEW S, S \subseteq Jobs, S # {}
  PROVE  First(S) \in S
BY LeastOfSet, JobsAreOrdered DEF First

LEMMA FirstLeft ==
  ASSUME Left # {}
  PROVE  First(Left) \in Jobs /\ todo[First(Left)] # None
<1>1. Left \subseteq Jobs
  BY DEF Left
<1>2. First(Left) \in Left
  BY <1>1, FirstIsMember
<1> QED BY <1>2 DEF Left

LEMMA Constants ==
  /\ Minutes \subseteq Nat /\ Marks \subseteq Nat /\ 0 \in Marks
  /\ Minutes \subseteq Marks /\ 1 \in Minutes
  /\ None \notin Marks /\ None \notin Definitions
  /\ Absent \in Definitions
  /\ MaxFailures \in Nat /\ MaxPrompts \in Nat /\ MaxMinute \in Nat
BY NoneIsNothing, Bounds DEF Minutes, Marks, Definitions, Absent

-----------------------------------------------------------------------------
(* The matcher. *)

\* A value that is a whole number of steps from the lowest one is divided by
\* the step.
LEMMA StepsDivide ==
  ASSUME NEW k \in Nat, NEW n \in Nat \ {0}, NEW l \in Nat, NEW v, v = l + k * n
  PROVE  (v - l) % n = 0
<1>1. (k * n) % n = 0 /\ k * n \in Nat
  OBVIOUS
<1>2. v - l = k * n
  BY <1>1
<1> QED BY <1>1, <1>2

\* What a field allows is what it says.
LEMMA AllowedSays ==
  ASSUME NEW field, NEW i \in Fields, Accepted(field, i), NEW v \in Allowed(field, i)
  PROVE  Says(field, i, v)
<1>1. Lowest[i] \in Nat /\ Highest[i] \in Nat
  BY DEF Fields, Lowest, Highest
<1>2. CASE field.form = "any"
  BY <1>2 DEF Says
<1>3. CASE field.form = "every"
  <2>1. field.n \in 1 .. (Highest[i] - Lowest[i] + 1)
    BY <1>3 DEF Accepted
  <2>2. field.n \in Nat \ {0}
    BY <1>1, <2>1
  <2>3. PICK k \in 0 .. ((Highest[i] - Lowest[i]) \div field.n) :
               v = Lowest[i] + k * field.n
    BY <1>3 DEF Allowed
  <2>4. k \in Nat
    BY <1>1, <2>2, <2>3
  <2>5. (v - Lowest[i]) % field.n = 0
    BY <1>1, <2>2, <2>3, <2>4, StepsDivide
  <2> QED BY <1>3, <2>5 DEF Says
<1>4. CASE field.form = "list"
  BY <1>4 DEF Says, Allowed
<1>5. CASE field.form = "span"
  <2>1. field.from \in Legal(i) /\ field.to \in Legal(i)
    BY <1>5 DEF Accepted
  <2>2. v \in field.from .. field.to
    BY <1>5 DEF Allowed
  <2>3. field.from <= v /\ v <= field.to
    BY <1>1, <2>1, <2>2 DEF Legal
  <2> QED BY <1>5, <2>3 DEF Says
<1>6. CASE field.form = "only"
  BY <1>6 DEF Says, Allowed
<1> QED BY <1>2, <1>3, <1>4, <1>5, <1>6 DEF Accepted

\* Python's day of the week, counted from Sunday.
LEMMA SundayFirst ==
  ASSUME NEW time, time.weekday \in 0 .. 6
  PROVE  Weekday(time) = IF time.weekday = 6 THEN 0 ELSE time.weekday + 1
BY DEF Weekday

\* An expression that parses and matches a time names it.
LEMMA MatchesNamed ==
  ASSUME NEW expression, Parses(expression), NEW time, time.weekday \in 0 .. 6,
         Matches(expression, time)
  PROVE  Names(expression, time)
<1> DEFINE values == <<time.minute, time.hour, time.day, time.month,
                       IF time.weekday = 6 THEN 0 ELSE time.weekday + 1>>
           Agrees(i) == Says(expression[i], i, values[i])
           Day == time.day \in Allowed(expression[3], 3)
           Week == Weekday(time) \in Allowed(expression[5], 5)
<1>1. \A i \in Fields : Accepted(expression[i], i)
  BY DEF Parses
<1>2. 1 \in Fields /\ 2 \in Fields /\ 3 \in Fields /\ 4 \in Fields /\ 5 \in Fields
  BY DEF Fields
<1>3. Agrees(1)
  BY <1>1, <1>2, AllowedSays DEF Matches
<1>4. Agrees(2)
  BY <1>1, <1>2, AllowedSays DEF Matches
<1>5. Agrees(4)
  BY <1>1, <1>2, AllowedSays DEF Matches
<1>6. Day => Agrees(3)
  BY <1>1, <1>2, AllowedSays
<1>7. Week => Agrees(5)
  BY <1>1, <1>2, AllowedSays, SundayFirst
<1>8. Unconstrained(expression[3]) => Agrees(3)
  BY DEF Unconstrained, Says
<1>9. Unconstrained(expression[5]) => Agrees(5)
  BY DEF Unconstrained, Says
<1>10. \/ Unconstrained(expression[3]) /\ Unconstrained(expression[5])
       \/ ~Unconstrained(expression[3]) /\ Day
       \/ ~Unconstrained(expression[5]) /\ Week
  BY DEF Matches, MatchesDay
<1>11. (Any = expression[3] => Unconstrained(expression[3]))
       /\ (Any = expression[5] => Unconstrained(expression[5]))
  BY DEF Any, Unconstrained
<1>12. IF Any \in {expression[3], expression[5]} THEN Agrees(3) /\ Agrees(5)
                                                 ELSE Agrees(3) \/ Agrees(5)
  <2> HIDE DEF Agrees, Day, Week
  <2> QED BY <1>6, <1>7, <1>8, <1>9, <1>10, <1>11
<1> QED BY <1>3, <1>4, <1>5, <1>12 DEF Names

-----------------------------------------------------------------------------
(* Types. *)

LEMMA Loaded ==
  ASSUME NEW w \in Writers, NEW j, NEW mark \in Marks \cup {None}, Load(w, j, mark),
         file \in Definitions, writing \in [Writers -> Definitions \cup {None}]
  PROVE  writing' \in [Writers -> Definitions \cup {None}]
BY DEF Load, Definitions

LEMMA Remembered ==
  ASSUME NEW j, NEW mark \in Marks \cup {None}, Remember(j, mark), memory \in Definitions
  PROVE  memory' \in Definitions
BY DEF Remember, Definitions

LEMMA Replaced ==
  ASSUME NEW w \in Writers, Replaces(w), TypeOK
  PROVE  /\ file' \in Definitions
         /\ writing' \in [Writers -> Definitions \cup {None}]
         /\ faults' \in 0 .. MaxFailures \/ UNCHANGED faults
<1>1. file' \in Definitions
  BY DEF Replaces, TypeOK
<1>2. writing' \in [Writers -> Definitions \cup {None}]
  BY DEF Replaces, TypeOK
<1>3. faults' \in 0 .. MaxFailures \/ UNCHANGED faults
  BY Constants DEF Replaces, TypeOK, Fault
<1> QED BY <1>1, <1>2, <1>3

LEMMA Triggered ==
  ASSUME TypeOK, NEW j \in Jobs, Trigger(j)
  PROVE  /\ queue' \in Seq(Jobs \X Minutes) /\ fired' \in Seq(Jobs \X Minutes)
         /\ marked' \in [Jobs -> Marks] /\ retired' \subseteq Jobs
<1>1. <<j, now>> \in Jobs \X Minutes /\ now \in Marks
  BY Constants DEF TypeOK
<1>2. queue' \in Seq(Jobs \X Minutes)
  BY <1>1 DEF TypeOK, Trigger
<1>3. fired' \in Seq(Jobs \X Minutes)
  BY <1>1 DEF TypeOK, Trigger
<1>4. marked' \in [Jobs -> Marks]
  BY <1>1 DEF TypeOK, Trigger
<1> QED BY <1>2, <1>3, <1>4 DEF TypeOK, Trigger

LEMMA Shortened ==
  ASSUME queue \in Seq(Jobs \X Minutes), queue # <<>>
  PROVE  /\ Head(queue) \in Jobs \X Minutes
         /\ Tail(queue) \in Seq(Jobs \X Minutes)
OBVIOUS

LEMMA TypeInit == Init => TypeOK /\ AtAJob /\ AtATrigger
<1> SUFFICES ASSUME Init PROVE TypeOK /\ AtAJob /\ AtATrigger
  OBVIOUS
<1>1. writing \in [Writers -> Definitions \cup {None}]
  BY DEF Init, Idle
<1>2. file \in Definitions /\ memory \in Definitions /\ todo \in Definitions
  BY Constants DEF Init
<1>3. marked \in [Jobs -> Marks]
  BY Constants DEF Init
<1>4. queue \in Seq(Jobs \X Minutes) /\ fired \in Seq(Jobs \X Minutes)
      /\ ran \in Seq(Jobs \X Minutes)
  BY DEF Init
<1>5. TypeOK
  BY <1>1, <1>2, <1>3, <1>4, Constants DEF Init, TypeOK
<1> QED BY <1>5, NoneIsNothing DEF Init, AtAJob, AtATrigger

LEMMA TypeStep ==
  TypeOK /\ AtAJob /\ AtATrigger /\ [Next]_vars => TypeOK' /\ AtAJob' /\ AtATrigger'
<1> SUFFICES ASSUME TypeOK, AtAJob, AtATrigger, [Next]_vars
             PROVE  TypeOK' /\ AtAJob' /\ AtATrigger'
  OBVIOUS
<1> USE Constants
<1>1. CASE Minute
  <2>1. clock \in Minutes /\ clock < MaxMinute /\ clock' = clock + 1
    BY <1>1 DEF Minute, TypeOK
  <2>2. clock' \in Minutes
    BY <2>1 DEF Minutes
  <2>3. UNCHANGED <<definitions, scheduling, queue, delivery, faults, restarts>>
    BY <1>1 DEF Minute
  <2> QED BY <2>2, <2>3 DEF TypeOK, AtAJob, AtATrigger, Left, definitions, scheduling, delivery
<1>2. CASE \E c \in Callers, j \in Jobs : Schedule(c, j)
  <2> PICK c \in Callers, j \in Jobs : Schedule(c, j)
    BY <1>2
  <2>1. c \in Writers
    BY DEF Writers
  <2>2. writing' \in [Writers -> Definitions \cup {None}] /\ memory' \in Definitions
    BY <2>1, Loaded, Remembered DEF Schedule, TypeOK
  <2> QED BY <2>2 DEF Schedule, TypeOK, AtAJob, AtATrigger, Left, scheduling, delivery
<1>3. CASE \E c \in Callers, j \in Jobs : Cancel(c, j)
  <2> PICK c \in Callers, j \in Jobs : Cancel(c, j)
    BY <1>3
  <2>1. c \in Writers
    BY DEF Writers
  <2>2. writing' \in [Writers -> Definitions \cup {None}] /\ memory' \in Definitions
    BY <2>1, Loaded, Remembered DEF Cancel, TypeOK
  <2> QED BY <2>2 DEF Cancel, TypeOK, AtAJob, AtATrigger, Left, scheduling, delivery
<1>4. CASE \E c \in Callers : Write(c)
  <2> PICK c \in Callers : Write(c)
    BY <1>4
  <2>1. c \in Writers /\ Replaces(c)
    BY DEF Writers, Write
  <2> QED BY <2>1, Replaced DEF Write, TypeOK, AtAJob, AtATrigger, Left, scheduling, delivery
<1>5. CASE TickBegin
  BY <1>5 DEF TickBegin, TypeOK, AtAJob, AtATrigger, definitions, delivery
<1>6. CASE TickList
  <2>1. todo' \in Definitions
    BY <1>6 DEF TickList, TypeOK, Definitions
  <2>2. faults' \in 0 .. MaxFailures
    BY <1>6 DEF TickList, TypeOK, Fault
  <2> QED BY <1>6, <2>1, <2>2 DEF TickList, TypeOK, AtAJob, AtATrigger, definitions, delivery
<1>7. CASE TickCheck
  <2> DEFINE j == First(Left)
  <2>1. j \in Jobs
    BY <1>7, FirstLeft DEF TickCheck
  <2>2. CASE Trigger(j) /\ step' = "record" /\ UNCHANGED todo
    <3>1. /\ queue' \in Seq(Jobs \X Minutes) /\ fired' \in Seq(Jobs \X Minutes)
          /\ marked' \in [Jobs -> Marks] /\ retired' \subseteq Jobs
      BY <2>1, <2>2, Triggered
    <3>2. queue' # <<>>
      BY <2>2 DEF Trigger, TypeOK
    <3> QED BY <1>7, <2>2, <3>1, <3>2
         DEF TickCheck, TypeOK, AtAJob, AtATrigger, Left, definitions, delivery
  <2>3. CASE /\ todo' = [todo EXCEPT ![j] = None]
             /\ UNCHANGED <<step, queue, fired, marked, retired>>
    <3>1. todo' \in Definitions
      BY <2>3 DEF TypeOK, Definitions
    <3> QED BY <1>7, <2>3, <3>1 DEF TickCheck, TypeOK, AtAJob, AtATrigger, definitions, delivery
  <2> QED BY <1>7, <2>2, <2>3 DEF TickCheck
<1>8. CASE TickRecord
  <2> DEFINE j == First(Left)
             mark == IF j \in Recurring THEN now ELSE None
  <2>1. mark \in Marks \cup {None} /\ Scheduler \in Writers
    BY DEF TypeOK, Writers
  <2>2. writing' \in [Writers -> Definitions \cup {None}]
    BY <1>8, <2>1, Loaded DEF TickRecord, TypeOK
  <2>3. memory' \in Definitions
    BY <1>8, <2>1, Remembered DEF TickRecord, TypeOK
  <2>4. todo' \in Definitions
    BY <1>8 DEF TickRecord, TypeOK, Definitions
  <2>5. faults' \in 0 .. MaxFailures
    BY <1>8 DEF TickRecord, TypeOK, Fault
  <2>6. step' = "check" \/ (step' = "write" /\ UNCHANGED todo)
    BY <1>8 DEF TickRecord
  <2>7. AtAJob'
    BY <1>8, <2>6 DEF TickRecord, AtAJob, Left
  <2> QED BY <1>8, <2>2, <2>3, <2>4, <2>5, <2>6, <2>7 DEF TickRecord, TypeOK, AtATrigger, delivery
<1>9. CASE TickWrite
  <2>1. Scheduler \in Writers /\ Replaces(Scheduler)
    BY <1>9 DEF Writers, TickWrite
  <2>2. todo' \in Definitions
    BY <1>9 DEF TickWrite, TypeOK, Definitions
  <2> QED BY <1>9, <2>1, <2>2, Replaced DEF TickWrite, TypeOK, AtAJob, AtATrigger, delivery
<1>10. CASE TickEnd
  BY <1>10 DEF TickEnd, TypeOK, AtAJob, AtATrigger, definitions, delivery
<1>11. CASE ProcessBegin
  <2>1. Head(queue) \in Jobs \X Minutes
    BY <1>11, Shortened DEF ProcessBegin, TypeOK
  <2>2. ran' \in Seq(Jobs \X Minutes)
    BY <1>11, <2>1 DEF ProcessBegin, TypeOK
  <2> QED BY <1>11, <2>2 DEF ProcessBegin, TypeOK, AtAJob, AtATrigger, Left, definitions, scheduling
<1>12. CASE ProcessEnd
  <2>1. queue # <<>> /\ Tail(queue) \in Seq(Jobs \X Minutes)
    BY <1>12, NoneIsNothing, Shortened DEF ProcessEnd, AtATrigger, TypeOK
  <2> QED BY <1>12, <2>1, NoneIsNothing
       DEF ProcessEnd, TypeOK, AtAJob, AtATrigger, Left, definitions, scheduling
<1>13. CASE OtherBegin
  BY <1>13 DEF OtherBegin, TypeOK, AtAJob, AtATrigger, Left, definitions, scheduling
<1>14. CASE OtherEnd
  BY <1>14, NoneIsNothing
     DEF OtherEnd, TypeOK, AtAJob, AtATrigger, Left, definitions, scheduling
<1>15. CASE Restart
  <2>1. writing' \in [Writers -> Definitions \cup {None}] /\ memory' \in Definitions
    BY <1>15 DEF Restart, Idle
  <2>2. restarts' \in 0 .. MaxFailures
    BY <1>15 DEF Restart, TypeOK
  <2> QED BY <1>15, <2>1, <2>2, NoneIsNothing DEF Restart, TypeOK, AtAJob, AtATrigger
<1>16. CASE UNCHANGED vars
  BY <1>16 DEF vars, definitions, scheduling, delivery, TypeOK, AtAJob, AtATrigger, Left
<1> QED
  BY <1>1, <1>2, <1>3, <1>4, <1>5, <1>6, <1>7, <1>8, <1>9, <1>10, <1>11, <1>12, <1>13,
     <1>14, <1>15, <1>16 DEF Next, SchedulerStep, CallerStep

-----------------------------------------------------------------------------
(* What is triggered. *)

\* The tick triggers a job that is due and was not triggered for this minute,
\* nor, if it fires once, at all.
LEMMA TriggerHolds ==
  ASSUME TypeOK, Remembers, TriggeredOnce, FiredWhenDue,
         NEW j \in Jobs, Trigger(j), ~Enqueued(j), now \in Due[j], UNCHANGED <<now, clock>>
  PROVE  Remembers' /\ TriggeredOnce' /\ FiredWhenDue'
<1> DEFINE t == <<j, now>>
           last == Len(fired) + 1
<1> USE Constants
<1>1. fired \in Seq(Jobs \X Minutes) /\ t \in Jobs \X Minutes /\ Len(fired) \in Nat
  BY DEF TypeOK
<1>2. /\ Len(fired') = last /\ fired'[last] = t
      /\ \A n \in 1 .. Len(fired) : fired'[n] = fired[n]
  BY <1>1 DEF Trigger
<1>3. ASSUME NEW n \in 1 .. Len(fired)
      PROVE  fired[n][1] \in Jobs /\ fired[n][2] \in Nat
  <2>1. fired[n] \in Jobs \X Minutes
    BY <1>1
  <2> QED BY <2>1
<1>4. /\ marked \in [Jobs -> Marks] /\ now \in Nat
      /\ \A k \in Jobs : marked[k] \in Nat
  BY DEF TypeOK
<1>5. /\ marked'[j] = now
      /\ \A k \in Jobs : marked'[k] = IF k = j THEN now ELSE marked[k]
  BY <1>4 DEF Trigger
<1>6. j \notin retired /\ marked[j] # now
  BY DEF Enqueued
<1>7. \A n \in 1 .. Len(fired) : fired[n] # t
  <2> SUFFICES ASSUME NEW n \in 1 .. Len(fired), fired[n] = t PROVE FALSE
    OBVIOUS
  <2>1. now <= marked[j] /\ marked[j] <= now /\ marked[j] \in Nat
    BY <1>4 DEF Remembers
  <2> QED BY <1>4, <1>6, <2>1
<1>8. \A n \in 1 .. Len(fired) : fired[n][1] = j => j \in Recurring
  BY <1>6 DEF Remembers
<1>9. Remembers'
  <2>1. now' <= clock' /\ \A k \in Jobs : marked'[k] <= now'
    BY <1>4, <1>5 DEF Remembers
  <2>2. ASSUME NEW n \in 1 .. Len(fired)
        PROVE  /\ fired[n][2] <= marked'[fired[n][1]]
               /\ fired[n][1] \in Recurring \cup retired'
    <3>1. fired[n][2] <= marked[fired[n][1]] /\ fired[n][1] \in Recurring \cup retired
      BY DEF Remembers
    <3>2. marked[j] <= now /\ marked[fired[n][1]] \in Nat
      BY <1>3, <1>4 DEF Remembers
    <3> QED BY <1>3, <1>4, <1>5, <3>1, <3>2 DEF Trigger
  <2>3. t[2] <= marked'[t[1]] /\ t[1] \in Recurring \cup retired'
    BY <1>4, <1>5 DEF Trigger
  <2>4. ASSUME NEW n \in 1 .. Len(fired')
        PROVE  /\ fired'[n][2] <= marked'[fired'[n][1]]
               /\ fired'[n][1] \in Recurring \cup retired'
    <3>1. CASE n = last
      BY <1>2, <2>3, <3>1
    <3>2. CASE n \in 1 .. Len(fired)
      BY <1>2, <2>2, <3>2
    <3> QED BY <1>1, <1>2, <3>1, <3>2
  <2> QED BY <2>1, <2>4 DEF Remembers
<1>10. TriggeredOnce'
  <2> SUFFICES ASSUME NEW m \in 1 .. Len(fired'), NEW n \in 1 .. Len(fired')
               PROVE  /\ fired'[m] = fired'[n] => m = n
                      /\ fired'[m][1] = fired'[n][1] /\ fired'[m][1] \notin Recurring => m = n
    BY DEF TriggeredOnce
  <2>1. CASE m \in 1 .. Len(fired) /\ n \in 1 .. Len(fired)
    BY <1>2, <2>1 DEF TriggeredOnce
  <2>2. CASE m = last /\ n \in 1 .. Len(fired)
    BY <1>2, <1>7, <1>8, <2>2
  <2>3. CASE n = last /\ m \in 1 .. Len(fired)
    BY <1>2, <1>7, <1>8, <2>3
  <2>4. CASE m = last /\ n = last
    BY <2>4
  <2> QED BY <1>1, <1>2, <2>1, <2>2, <2>3, <2>4
<1>11. FiredWhenDue'
  <2> SUFFICES ASSUME NEW n \in 1 .. Len(fired') PROVE fired'[n][2] \in Due[fired'[n][1]]
    BY DEF FiredWhenDue, Due
  <2>1. CASE n = last
    BY <1>2, <2>1
  <2>2. CASE n \in 1 .. Len(fired)
    BY <1>2, <2>2 DEF FiredWhenDue
  <2> QED BY <1>1, <1>2, <2>1, <2>2
<1> QED BY <1>9, <1>10, <1>11

LEMMA TriggeringStep ==
  TypeOK /\ AtAJob /\ Remembers /\ TriggeredOnce /\ FiredWhenDue /\ [Next]_vars
    => Remembers' /\ TriggeredOnce' /\ FiredWhenDue'
<1> SUFFICES ASSUME TypeOK, AtAJob, Remembers, TriggeredOnce, FiredWhenDue, [Next]_vars
             PROVE  Remembers' /\ TriggeredOnce' /\ FiredWhenDue'
  OBVIOUS
<1> USE Constants
<1>1. clock \in Nat /\ now \in Nat /\ \A j \in Jobs : marked[j] \in Nat
  BY DEF TypeOK
<1>2. CASE UNCHANGED <<now, marked, retired, fired>> /\ (clock' = clock \/ clock' = clock + 1)
  <2>1. now' <= clock'
    BY <1>1, <1>2 DEF Remembers
  <2>2. Remembers'
    BY <1>2, <2>1 DEF Remembers
  <2> QED BY <1>2, <2>2 DEF TriggeredOnce, FiredWhenDue
<1>3. CASE TickBegin
  <2>1. /\ now' = clock /\ UNCHANGED <<clock, marked, retired, fired>>
    BY <1>3 DEF TickBegin, definitions
  <2>2. \A j \in Jobs : marked[j] <= clock
    BY <1>1 DEF Remembers
  <2>3. Remembers'
    BY <1>1, <2>1, <2>2 DEF Remembers
  <2> QED BY <2>1, <2>3 DEF TriggeredOnce, FiredWhenDue
<1>4. CASE TickCheck
  <2> DEFINE j == First(Left)
  <2>1. j \in Jobs
    BY <1>4, FirstLeft DEF TickCheck
  <2>2. CASE ~Enqueued(j) /\ now \in Due[j] /\ Trigger(j)
    <3>1. UNCHANGED <<now, clock>>
      BY <1>4 DEF TickCheck
    <3> QED BY <2>1, <2>2, <3>1, TriggerHolds
  <2>3. CASE UNCHANGED <<step, queue, fired, marked, retired>>
    BY <1>2, <1>4, <2>3 DEF TickCheck
  <2> QED BY <1>4, <2>2, <2>3 DEF TickCheck
<1>5. CASE Restart
  <2>1. fired' = <<>> /\ now' = clock /\ UNCHANGED clock /\ \A j \in Jobs : marked'[j] = 0
    BY <1>5 DEF Restart
  <2> QED BY <1>1, <2>1 DEF Remembers, TriggeredOnce, FiredWhenDue
<1> QED
  BY <1>2, <1>3, <1>4, <1>5
     DEF Next, SchedulerStep, CallerStep, Minute, Schedule, Cancel, Write, TickList,
         TickRecord, TickWrite, TickEnd, ProcessBegin, ProcessEnd, OtherBegin, OtherEnd,
         scheduling, vars

-----------------------------------------------------------------------------
(* What is delivered. *)

\* Where a queued trigger stands in the history of triggers.
LEMMA Place ==
  ASSUME NEW r \in Nat, NEW q \in Nat, NEW f \in Nat, NEW b \in Nat, NEW n \in 1 .. q,
         b <= 1, b = 1 => r >= 1, r + q = f + b
  PROVE  r - b + n \in 1 .. f
OBVIOUS

LEMMA OneMore ==
  ASSUME NEW r \in Nat, NEW q \in Nat, NEW f \in Nat, r + q = f
  PROVE  (r + 1) + q = f + 1
OBVIOUS

LEMMA DeliveryStep ==
  TypeOK /\ AtATrigger /\ DeliveredInOrder /\ [Next]_vars => DeliveredInOrder'
<1> SUFFICES ASSUME TypeOK, AtATrigger, DeliveredInOrder, [Next]_vars
             PROVE  DeliveredInOrder'
  OBVIOUS
<1> USE NoneIsNothing
<1>1. /\ queue \in Seq(Jobs \X Minutes) /\ ran \in Seq(Jobs \X Minutes)
      /\ fired \in Seq(Jobs \X Minutes)
      /\ Len(queue) \in Nat /\ Len(ran) \in Nat /\ Len(fired) \in Nat
  BY DEF TypeOK
<1>2. CASE UNCHANGED <<queue, ran, fired>> /\ (gate' = "processor" <=> gate = "processor")
  BY <1>2 DEF DeliveredInOrder
<1>3. CASE TickCheck
  <2> DEFINE j == First(Left)
             t == <<j, now>>
  <2>1. CASE Trigger(j)
    <3>1. queue' = Append(queue, t) /\ fired' = Append(fired, t) /\ UNCHANGED <<gate, ran>>
      BY <1>3, <2>1 DEF Trigger, TickCheck, delivery
    <3>2. /\ Len(queue') = Len(queue) + 1 /\ queue'[Len(queue) + 1] = t
          /\ \A n \in 1 .. Len(queue) : queue'[n] = queue[n]
          /\ Len(fired') = Len(fired) + 1 /\ fired'[Len(fired) + 1] = t
          /\ \A n \in 1 .. Len(fired) : fired'[n] = fired[n]
      BY <1>1, <3>1
    <3> DEFINE busy == IF gate = "processor" THEN 1 ELSE 0
    <3>3. /\ busy \in Nat /\ busy <= 1
          /\ busy = 1 => Len(queue) >= 1 /\ Len(ran) >= 1
      BY <1>1 DEF AtATrigger
    <3>4. /\ Len(ran) + Len(queue) = Len(fired) + busy
          /\ \A n \in 1 .. Len(ran) : ran[n] = fired[n]
          /\ \A n \in 1 .. Len(queue) : queue[n] = fired[Len(ran) - busy + n]
      BY DEF DeliveredInOrder
    <3> HIDE DEF busy
    <3>5. Len(ran) <= Len(fired)
      BY <1>1, <3>3, <3>4
    <3>6. \A n \in 1 .. Len(ran) : ran[n] = fired'[n]
      BY <1>1, <3>2, <3>4, <3>5
    <3>7. ASSUME NEW n \in 1 .. Len(queue')
          PROVE  queue'[n] = fired'[Len(ran) - busy + n]
      <4>1. CASE n \in 1 .. Len(queue)
        <5>1. Len(ran) - busy + n \in 1 .. Len(fired)
          BY <1>1, <3>3, <3>4, <4>1, Place
        <5> QED BY <3>2, <3>4, <4>1, <5>1
      <4>2. CASE n = Len(queue) + 1
        <5>1. Len(ran) - busy + n = Len(fired) + 1
          <6>1. /\ Len(ran) \in Nat /\ Len(queue) \in Nat /\ Len(fired) \in Nat
                /\ busy \in Nat /\ Len(ran) + Len(queue) = Len(fired) + busy
            BY <1>1, <3>3, <3>4
          <6>2. Len(ran) - busy + (Len(queue) + 1) = Len(fired) + 1
            BY ONLY <6>1
          <6> QED BY <4>2, <6>2
        <5> QED BY <3>2, <4>2, <5>1
      <4> QED BY <1>1, <3>2, <4>1, <4>2
    <3>8. Len(ran) + Len(queue') = Len(fired') + busy
      BY <1>1, <3>2, <3>3, <3>4
    <3> QED BY <3>1, <3>6, <3>7, <3>8 DEF DeliveredInOrder, busy
  <2>2. CASE UNCHANGED <<step, queue, fired, marked, retired>>
    BY <1>2, <1>3, <2>2 DEF TickCheck, delivery
  <2> QED BY <1>3, <2>1, <2>2 DEF TickCheck
<1>4. CASE ProcessBegin
  <2>1. /\ queue # <<>> /\ gate = None /\ gate' = "processor"
        /\ ran' = Append(ran, Head(queue)) /\ UNCHANGED <<queue, fired>>
    BY <1>4 DEF ProcessBegin, scheduling
  <2>2. /\ Len(ran) + Len(queue) = Len(fired)
        /\ \A n \in 1 .. Len(ran) : ran[n] = fired[n]
        /\ \A n \in 1 .. Len(queue) : queue[n] = fired[Len(ran) + n]
    BY <1>1, <2>1 DEF DeliveredInOrder
  <2>3. Len(queue) >= 1 /\ Head(queue) = queue[1]
    BY <1>1, <2>1
  <2>4. /\ Len(ran') = Len(ran) + 1 /\ ran'[Len(ran) + 1] = fired[Len(ran) + 1]
        /\ \A n \in 1 .. Len(ran) : ran'[n] = fired[n]
    BY <1>1, <2>1, <2>2, <2>3
  <2>5. \A n \in 1 .. Len(ran') : ran'[n] = fired'[n]
    BY <1>1, <2>1, <2>4
  <2>6. Len(ran') + Len(queue') = Len(fired') + 1
    <3>1. Len(queue') = Len(queue) /\ Len(fired') = Len(fired)
      BY <2>1
    <3>2. (Len(ran) + 1) + Len(queue) = Len(fired) + 1
      BY ONLY <1>1, <2>2, OneMore
    <3> QED BY <2>4, <3>1, <3>2
  <2>7. \A n \in 1 .. Len(queue') : queue'[n] = fired'[Len(ran') - 1 + n]
    BY <1>1, <2>1, <2>2, <2>4
  <2> QED BY <2>1, <2>5, <2>6, <2>7 DEF DeliveredInOrder
<1>5. CASE ProcessEnd
  <2>1. /\ gate = "processor" /\ gate' = None
        /\ queue' = Tail(queue) /\ UNCHANGED <<ran, fired>>
    BY <1>5 DEF ProcessEnd, scheduling
  <2>2. /\ Len(ran) + Len(queue) = Len(fired) + 1
        /\ \A n \in 1 .. Len(ran) : ran[n] = fired[n]
        /\ \A n \in 1 .. Len(queue) : queue[n] = fired[Len(ran) - 1 + n]
    BY <2>1 DEF DeliveredInOrder
  <2>3. /\ Len(queue) >= 1 /\ Len(queue') = Len(queue) - 1
        /\ \A n \in 1 .. Len(queue') : queue'[n] = queue[n + 1]
    BY <1>1, <2>1 DEF AtATrigger
  <2>4. Len(ran') + Len(queue') = Len(fired')
    BY <1>1, <2>1, <2>2, <2>3
  <2>5. \A n \in 1 .. Len(queue') : queue'[n] = fired'[Len(ran') + n]
    <3> SUFFICES ASSUME NEW n \in 1 .. Len(queue')
                 PROVE  queue'[n] = fired'[Len(ran') + n]
      OBVIOUS
    <3>1. n + 1 \in 1 .. Len(queue) /\ n \in Nat
      BY <1>1, <2>3
    <3>2. queue'[n] = fired[Len(ran) - 1 + (n + 1)]
      BY <2>2, <2>3, <3>1
    <3>3. Len(ran) - 1 + (n + 1) = Len(ran) + n
      BY <1>1, <3>1
    <3>4. Len(ran') = Len(ran) /\ fired' = fired
      BY <2>1
    <3> QED BY <3>2, <3>3, <3>4
  <2>6. gate' # "processor"
    BY <2>1
  <2> QED BY <1>1, <2>1, <2>2, <2>4, <2>5, <2>6 DEF DeliveredInOrder
<1>6. CASE Restart
  <2>1. queue' = <<>> /\ ran' = <<>> /\ fired' = <<>> /\ gate' # "processor"
    BY <1>6 DEF Restart
  <2> QED BY <2>1 DEF DeliveredInOrder
<1>7. CASE OtherBegin \/ OtherEnd
  BY <1>2, <1>7 DEF OtherBegin, OtherEnd, scheduling
<1> QED
  BY <1>2, <1>3, <1>4, <1>5, <1>6, <1>7
     DEF Next, SchedulerStep, CallerStep, Minute, Schedule, Cancel, Write, TickBegin,
         TickList, TickRecord, TickWrite, TickEnd, scheduling, delivery, vars

-----------------------------------------------------------------------------
(* The invariant holds throughout. *)

LEMMA InitHolds == Init => IInv
<1> SUFFICES ASSUME Init PROVE IInv
  OBVIOUS
<1>1. fired = <<>> /\ ran = <<>> /\ queue = <<>> /\ gate # "processor"
  BY NoneIsNothing DEF Init
<1>2. Remembers
  BY <1>1 DEF Init, Remembers
<1>3. TriggeredOnce /\ FiredWhenDue
  BY <1>1 DEF TriggeredOnce, FiredWhenDue
<1>4. DeliveredInOrder
  BY <1>1 DEF DeliveredInOrder
<1> QED BY <1>2, <1>3, <1>4, TypeInit DEF IInv

LEMMA StepHolds == IInv /\ [Next]_vars => IInv'
BY TypeStep, TriggeringStep, DeliveryStep DEF IInv

LEMMA Inductive == Spec => []IInv
BY InitHolds, StepHolds, PTL DEF Spec

\* Every variable keeps the shape the files and the threads give it.
THEOREM CronTypeCorrect == Spec => []TypeOK
<1>1. IInv => TypeOK
  BY DEF IInv
<1> QED BY <1>1, Inductive, PTL

\* A job is triggered once for a minute, and once at all if it fires once: the
\* scheduler remembers what it enqueued (_last_enqueued_minutes and
\* _retired_task_ids), whatever becomes of the definitions.
THEOREM NoTriggerTwice == Spec => []TriggeredOnce
<1>1. IInv => TriggeredOnce
  BY DEF IInv
<1> QED BY <1>1, Inductive, PTL

\* process_once runs the prompts in the order of their triggers and loses none,
\* though it acknowledges a trigger only after its Run.
THEOREM RunInOrder == Spec => []DeliveredInOrder
<1>1. IInv => DeliveredInOrder
  BY DEF IInv
<1> QED BY <1>1, Inductive, PTL

\* Whatever five fields parse_cron_expression takes, a trigger is for a minute
\* they name: cron_matches allows no other.
THEOREM TriggersAsWritten == Spec => []FiresAsWritten
<1>1. IInv => FiresAsWritten
  <2> SUFFICES ASSUME IInv, NEW n \in 1 .. Len(fired)
               PROVE  fired[n][2] \in Named[fired[n][1]]
    BY DEF FiresAsWritten
  <2> DEFINE j == fired[n][1]
             m == fired[n][2]
  <2>1. fired \in Seq(Jobs \X Minutes)
    BY DEF IInv, TypeOK
  <2>2. fired[n] \in Jobs \X Minutes
    BY <2>1
  <2>3. j \in Jobs /\ m \in Minutes
    BY <2>2
  <2>4. m \in Due[j]
    BY DEF IInv, FiredWhenDue
  <2>5. Parses(Expression[j]) /\ Matches(Expression[j], Calendar[m])
    BY <2>3, <2>4 DEF Due
  <2>6. Calendar[m].weekday \in 0 .. 6
    BY <2>3, OfJobsAndMinutes
  <2>7. Names(Expression[j], Calendar[m])
    BY <2>5, <2>6, MatchesNamed
  <2> QED BY <2>3, <2>7 DEF Named
<1> QED BY <1>1, Inductive, PTL
=============================================================================
